--------------------------- MODULE FeedbackProofs ---------------------------
(***************************************************************************)
(* Theorems about Feedback, for any number of messages and any limit of    *)
(* the fake charging's counter.  The order of what is published follows    *)
(* from last_message_ok_ being set only while the newest message has not   *)
(* been published; the order of the answers from their way: what has been  *)
(* answered is older than what waits in last_command_, and that is older   *)
(* than what is still in last_message_.                                    *)
(***************************************************************************)
EXTENDS Feedback, TLAPS

\* Every number in s is below n.
Below(s, n) == \A i \in 1 .. Len(s) : s[i] < n

PublishedInv ==
    /\ Increasing(published)
    /\ Below(published, received + 1)
    /\ ok => decoding /\ Below(published, received)
    /\ ~ok /\ received > 0 => published # <<>> /\ published[Len(published)] = received

PidInv ==
    ~overtaken =>
        IF ok /\ last.gains # None THEN last.gains = report ELSE pid = report

\* There is something to publish only if a message was received.
Typed == TypeOK /\ (ok => received > 0)

\* answered < last_command_.sync < last_message_.sync <= received.
AnswersInv ==
    /\ Increasing(answered)
    /\ Below(answered, received + 1)
    /\ sync <= received /\ last.sync <= received
    /\ sync # None => Below(answered, sync)
    /\ last.sync # None => Below(answered, last.sync) /\ sync < last.sync

FakeInv == fails <= MaxFails + 1 /\ (gaveUp => fails > MaxFails)

-----------------------------------------------------------------------------
LEMMA Bounds ==
    /\ MaxMessages \in Nat /\ MaxBad \in Nat /\ MaxFails \in Nat /\ CountModulus \in Nat
    /\ MaxFails + 1 < CountModulus
BY FeedbackAssumption

\* A number above all the others goes at the end.
LEMMA AppendIncreasing ==
    ASSUME NEW s \in Seq(Messages), NEW n \in Messages, Increasing(s), Below(s, n)
    PROVE  /\ Append(s, n) \in Seq(Messages)
           /\ Increasing(Append(s, n)) /\ Below(Append(s, n), n + 1)
           /\ Append(s, n) # <<>> /\ Append(s, n)[Len(Append(s, n))] = n
<1> DEFINE t == Append(s, n)
<1>1. /\ t \in Seq(Messages) /\ Len(t) = Len(s) + 1 /\ Len(s) \in Nat
      /\ \A i \in 1 .. Len(s) : t[i] = s[i] /\ s[i] \in Messages
      /\ t[Len(t)] = n
  OBVIOUS
<1>2. Messages \subseteq Nat
  BY Bounds DEF Messages
<1> HIDE DEF t
<1>3. Increasing(t)
  BY <1>1, <1>2 DEF Increasing, Below
<1>4. Below(t, n + 1)
  <2>1. ASSUME NEW i \in 1 .. Len(t) PROVE t[i] < n + 1
    <3>1. CASE i = Len(t)
      BY <1>1, <1>2, <3>1
    <3>2. CASE i # Len(t)
      <4>1. i \in 1 .. Len(s)
        BY <1>1, <3>2
      <4>2. t[i] = s[i] /\ s[i] < n /\ s[i] \in Nat /\ n \in Nat
        BY <1>1, <1>2, <4>1 DEF Below
      <4> QED
        BY <4>2
    <3> QED
      BY <3>1, <3>2
  <2> QED
    BY <2>1 DEF Below
<1>5. t # <<>>
  BY <1>1
<1> QED
  BY <1>1, <1>3, <1>4, <1>5 DEF t

\* A bound may be raised.
LEMMA BelowMore ==
    ASSUME NEW s \in Seq(Messages), NEW m \in Nat, NEW n \in Nat, m <= n, Below(s, m)
    PROVE  Below(s, n)
<1>1. \A i \in 1 .. Len(s) : s[i] \in Nat
  BY Bounds DEF Messages
<1> QED
  BY <1>1 DEF Below

-----------------------------------------------------------------------------
LEMMA TypeInit == Init => Typed
<1> SUFFICES ASSUME Init PROVE Typed
  OBVIOUS
<1>1. /\ received \in 0 .. MaxMessages /\ bad \in 0 .. MaxBad
      /\ last \in [sync : 0 .. MaxMessages, gains : 0 .. MaxMessages]
      /\ sync \in 0 .. MaxMessages
      /\ pid \in 0 .. MaxMessages /\ report \in 0 .. MaxMessages
      /\ fails \in 0 .. (CountModulus - 1)
  BY Bounds DEF Init, Starts, None
<1>2. decoding \in BOOLEAN /\ connected \in BOOLEAN /\ overtaken \in BOOLEAN
      /\ gaveUp \in BOOLEAN /\ ok = FALSE
  BY DEF Init, Starts
<1>3. charging \in {"no", "ecu", "fake"}
      /\ published \in Seq(Messages) /\ answered \in Seq(Messages)
  BY DEF Init, Starts
<1>4. ok \in BOOLEAN
  BY <1>2
<1> QED
  BY <1>1, <1>2, <1>3, <1>4 DEF Typed, TypeOK

LEMMA BatteryType ==
    ASSUME TypeOK, PublishBattery
    PROVE  /\ charging' \in {"no", "ecu", "fake"}
           /\ fails' \in 0 .. (CountModulus - 1) /\ gaveUp' \in BOOLEAN
<1>1. Counted \in 0 .. (CountModulus - 1)
  BY Bounds DEF TypeOK, Counted
<1>2. gaveUp' \in BOOLEAN
  BY DEF PublishBattery, TypeOK
<1>3. fails \in 0 .. (CountModulus - 1)
  BY DEF TypeOK
<1>4. fails' \in {fails, Counted} /\ charging' \in {"no", "ecu", "fake"}
  BY DEF PublishBattery, FakeCharging
<1> QED
  BY <1>1, <1>2, <1>3, <1>4

\* What a tick moves, and what a whole frame adds to the answers.
LEMMA MovedType ==
    ASSUME TypeOK
    PROVE  /\ Moved \in 0 .. MaxMessages
           /\ Moved # None => Moved \in Messages /\ Append(answered, Moved) \in Seq(Messages)
<1>1. Moved \in 0 .. MaxMessages
  BY DEF TypeOK, Moved
<1>2. Moved # None => Moved \in Messages
  BY <1>1, Bounds DEF None, Messages
<1>3. answered \in Seq(Messages)
  BY DEF TypeOK
<1> QED
  BY <1>1, <1>2, <1>3

LEMMA LeavesType ==
    ASSUME TypeOK, LeavesMessage
    PROVE  /\ last' \in [sync : 0 .. MaxMessages, gains : 0 .. MaxMessages]
           /\ last'.sync = None /\ last'.gains = last.gains
<1>1. last \in [sync : 0 .. MaxMessages, gains : 0 .. MaxMessages]
  BY DEF TypeOK
<1>2. None \in 0 .. MaxMessages
  BY Bounds DEF None
<1> QED
  BY <1>1, <1>2 DEF LeavesMessage

LEMMA TypeStep == Typed /\ [Next]_vars => Typed'
<1> SUFFICES ASSUME Typed, [Next]_vars PROVE Typed'
  OBVIOUS
<1>0. TypeOK
  BY DEF Typed
<1> USE DEF battery, reports
<1>1. CASE Poll
  BY <1>1 DEF Poll, TypeOK, Typed
<1>2. ASSUME NEW hasSync \in BOOLEAN, NEW hasGains \in BOOLEAN, DecodeGood(hasSync, hasGains)
      PROVE  Typed'
  <2>1. received' \in 0 .. MaxMessages /\ received' > 0 /\ received' = received + 1
    BY <1>0, <1>2, Bounds DEF DecodeGood, TypeOK
  <2>2. last' \in [sync : 0 .. MaxMessages, gains : 0 .. MaxMessages]
    BY <1>2, <2>1, Bounds DEF DecodeGood, None
  <2>3. overtaken' \in BOOLEAN
    BY <1>2 DEF DecodeGood
  <2>4. report' \in 0 .. MaxMessages
    BY <1>0, <1>2, <2>1 DEF DecodeGood, TypeOK
  <2>5. ok' \in BOOLEAN
    BY <1>2 DEF DecodeGood
  <2> QED
    BY <1>0, <1>2, <2>1, <2>2, <2>3, <2>4, <2>5 DEF DecodeGood, TypeOK, Typed
<1>3. CASE DecodeBad
  BY <1>3, Bounds DEF DecodeBad, TypeOK, Typed
<1>4. CASE Publish
  <2>1. received \in Messages /\ published \in Seq(Messages)
    BY <1>4, Bounds DEF Typed, TypeOK, Messages, Publish
  <2>2. published' \in Seq(Messages)
    BY <1>4, <2>1 DEF Publish
  <2>3. pid' \in 0 .. MaxMessages
    BY <1>0, <1>4 DEF Publish, Latched, TypeOK
  <2>4. ok' = FALSE /\ decoding' = FALSE
    BY <1>4 DEF Publish, Spends
  <2>5. /\ charging' \in {"no", "ecu", "fake"}
        /\ fails' \in 0 .. (CountModulus - 1) /\ gaveUp' \in BOOLEAN
    BY <1>0, <1>4, BatteryType DEF Publish
  <2>6. UNCHANGED <<received, bad, last, sync, connected, answered, report, overtaken>>
    BY <1>4 DEF Publish
  <2> QED
    BY <1>0, <2>2, <2>3, <2>4, <2>5, <2>6 DEF TypeOK, Typed
<1>5. CASE NothingToPublish
  BY <1>5 DEF NothingToPublish, TypeOK, Typed
<1>6. CASE WriteFull
  <2>1. sync' \in 0 .. MaxMessages
    BY <1>6, Bounds DEF WriteFull, ClearCommand, None
  <2>2. answered' \in Seq(Messages)
    BY <1>0, <1>6, MovedType DEF WriteFull, TypeOK
  <2> QED
    BY <1>0, <1>6, <2>1, <2>2, LeavesType DEF WriteFull, Tick, TypeOK, Typed
<1>7. CASE WritePartial
  BY <1>0, <1>7, MovedType, LeavesType DEF WritePartial, Tick, TypeOK, Typed
<1>8. CASE WriteFails
  BY <1>0, <1>8, MovedType, LeavesType DEF WriteFails, Tick, TypeOK, Typed
<1>9. CASE ReadFails
  BY <1>9 DEF ReadFails, TypeOK, Typed
<1>10. CASE Reconnect
  BY <1>10 DEF Reconnect, TypeOK, Typed
<1>11. CASE UNCHANGED vars
  BY <1>11 DEF vars, TypeOK, Typed
<1> QED
  BY <1>1, <1>2, <1>3, <1>4, <1>5, <1>6, <1>7, <1>8, <1>9, <1>10, <1>11 DEF Next

LEMMA TypedAlways == Spec => []Typed
BY TypeInit, TypeStep, PTL DEF Spec

\* The variables keep their types in every behaviour, and the counter of
\* failed transforms its width.
THEOREM TypeCorrect == Spec => []TypeOK
<1>1. Typed => TypeOK
  BY DEF Typed
<1> QED
  BY <1>1, TypedAlways, PTL

-----------------------------------------------------------------------------
LEMMA PublishedInit == Init => PublishedInv
BY DEF Init, Starts, PublishedInv, Increasing, Below

LEMMA PublishedStep == PublishedInv /\ Typed /\ [Next]_vars => PublishedInv'
<1> SUFFICES ASSUME PublishedInv, Typed, [Next]_vars PROVE PublishedInv'
  OBVIOUS
<1>0. received \in Nat /\ published \in Seq(Messages)
  BY Bounds DEF Typed, TypeOK
<1>1. ASSUME NEW hasSync \in BOOLEAN, NEW hasGains \in BOOLEAN, DecodeGood(hasSync, hasGains)
      PROVE  PublishedInv'
  <2>1. received' = received + 1 /\ ok' /\ decoding' /\ UNCHANGED published
    BY <1>1 DEF DecodeGood
  <2>2. Below(published, received + 2)
    BY <1>0, BelowMore DEF PublishedInv
  <2> QED
    BY <1>0, <2>1, <2>2 DEF PublishedInv, Increasing, Below
<1>2. CASE Publish
  <2>1. received \in Messages
    BY <1>2, Bounds DEF Typed, TypeOK, Messages, Publish
  <2>2. /\ ok' = FALSE /\ received' = received
        /\ published' = Append(published, received) /\ Below(published, received)
    BY <1>2 DEF Publish, Spends, PublishedInv
  <2>3. /\ Increasing(Append(published, received))
        /\ Below(Append(published, received), received + 1)
        /\ Append(published, received) # <<>>
        /\ Append(published, received)[Len(Append(published, received))] = received
    BY <1>0, <2>1, <2>2, AppendIncreasing DEF PublishedInv
  <2> QED
    BY <2>2, <2>3 DEF PublishedInv
<1>3. ASSUME UNCHANGED <<received, ok, published>>, ok => decoding'
      PROVE  PublishedInv'
  BY <1>3 DEF PublishedInv, Increasing, Below
<1>4. CASE Poll \/ DecodeBad \/ ReadFails
  BY <1>3, <1>4 DEF Poll, DecodeBad, ReadFails
<1>5. CASE NothingToPublish
  BY <1>3, <1>5 DEF NothingToPublish
<1>6. CASE WriteFull \/ WritePartial \/ WriteFails
  BY <1>3, <1>6 DEF WriteFull, WritePartial, WriteFails, Tick, PublishedInv
<1>7. CASE Reconnect
  BY <1>3, <1>7 DEF Reconnect, PublishedInv
<1>8. CASE UNCHANGED vars
  BY <1>3, <1>8 DEF vars, PublishedInv
<1> QED
  BY <1>1, <1>2, <1>4, <1>5, <1>6, <1>7, <1>8 DEF Next

\* Messages are published in order and once, for any number of them.
THEOREM InOrder == Spec => []PublishedOnce
<1>1. PublishedInv => PublishedOnce
  BY DEF PublishedInv, PublishedOnce
<1> QED
  BY <1>1, PublishedInit, PublishedStep, TypedAlways, PTL DEF Spec

\* When a callback ends the newest message has been published.
THEOREM NewestPublished == Spec => []NewestIsPublished
<1>1. PublishedInv => NewestIsPublished
  BY DEF PublishedInv, NewestIsPublished
<1> QED
  BY <1>1, PublishedInit, PublishedStep, TypedAlways, PTL DEF Spec

-----------------------------------------------------------------------------
LEMMA PidInit == Init => PidInv
BY DEF Init, Starts, PidInv

LEMMA PidStep == PidInv /\ Typed /\ [Next]_vars => PidInv'
<1> SUFFICES ASSUME PidInv, Typed, [Next]_vars PROVE PidInv'
  OBVIOUS
<1>0. TypeOK
  BY DEF Typed
<1> USE DEF PidInv, battery, reports
<1>1. ASSUME NEW hasSync \in BOOLEAN, NEW hasGains \in BOOLEAN, DecodeGood(hasSync, hasGains)
      PROVE  PidInv'
  <2>1. received + 1 # None
    BY <1>0, Bounds DEF TypeOK, None
  <2> QED
    BY <1>1, <2>1 DEF DecodeGood
<1>2. CASE Publish
  BY <1>2 DEF Publish, Spends, Latched
<1>3. CASE WriteFull \/ WritePartial \/ WriteFails
  <2>1. last'.gains = last.gains /\ UNCHANGED <<ok, reports>>
    BY <1>0, <1>3, LeavesType DEF WriteFull, WritePartial, WriteFails, Tick
  <2> QED
    BY <2>1
<1>4. CASE Poll \/ DecodeBad \/ NothingToPublish \/ ReadFails \/ Reconnect
  BY <1>4 DEF Poll, DecodeBad, NothingToPublish, ReadFails, Reconnect
<1>5. CASE UNCHANGED vars
  BY <1>5 DEF vars
<1> QED
  BY <1>1, <1>2, <1>3, <1>4, <1>5 DEF Next

\* The latched topic shows the last report unless one read overtook it.
THEOREM GainsShown == Spec => []PidIsReport
<1>1. ASSUME PidInv, PublishedInv PROVE PidIsReport
  BY <1>1 DEF PidInv, PidIsReport, PublishedInv
<1> QED
  BY <1>1, PidInit, PidStep, PublishedInit, PublishedStep, TypedAlways, PTL DEF Spec

-----------------------------------------------------------------------------
LEMMA AnswersInit == Init => AnswersInv
BY DEF Init, Starts, AnswersInv, Increasing, Below, None

LEMMA AnswersStep == AnswersInv /\ Typed /\ [Next]_vars => AnswersInv'
<1> SUFFICES ASSUME AnswersInv, Typed, [Next]_vars PROVE AnswersInv'
  OBVIOUS
<1>0. /\ TypeOK /\ received \in Nat /\ sync \in Nat /\ last.sync \in Nat
      /\ answered \in Seq(Messages)
  BY Bounds DEF Typed, TypeOK
<1>1. ASSUME NEW hasSync \in BOOLEAN, NEW hasGains \in BOOLEAN, DecodeGood(hasSync, hasGains)
      PROVE  AnswersInv'
  <2>1. /\ received' = received + 1 /\ UNCHANGED <<answered, sync>>
        /\ last'.sync \in {received + 1, None}
    BY <1>1 DEF DecodeGood
  <2>2. Below(answered, received + 1) /\ Below(answered, received + 2)
    BY <1>0, BelowMore DEF AnswersInv
  <2> QED
    BY <1>0, <2>1, <2>2 DEF AnswersInv, None, Increasing, Below
\* What a tick moves is above every answer.
<1>2. /\ Moved <= received /\ Moved \in Nat
      /\ Moved # None => Moved \in Messages /\ Below(answered, Moved)
  BY <1>0, MovedType DEF AnswersInv, Moved
<1>3. CASE WriteFull
  <2>1. sync' = None /\ last'.sync = None /\ received' = received
    BY <1>0, <1>3, LeavesType DEF WriteFull, Tick, ClearCommand
  <2>2. Increasing(answered') /\ Below(answered', received + 1)
    <3>1. CASE Moved = None
      BY <1>3, <3>1 DEF WriteFull, AnswersInv
    <3>2. CASE Moved # None
      <4>1. /\ Increasing(Append(answered, Moved)) /\ Below(Append(answered, Moved), Moved + 1)
            /\ Append(answered, Moved) \in Seq(Messages)
        BY <1>0, <1>2, <3>2, AppendIncreasing DEF AnswersInv
      <4>2. Moved + 1 \in Nat /\ received + 1 \in Nat /\ Moved + 1 <= received + 1
        BY <1>0, <1>2
      <4>3. Below(Append(answered, Moved), received + 1)
        BY <4>1, <4>2, BelowMore
      <4> QED
        BY <1>3, <3>2, <4>1, <4>3 DEF WriteFull
    <3> QED
      BY <3>1, <3>2
  <2> QED
    BY <1>0, <2>1, <2>2 DEF AnswersInv, None
<1>4. CASE WritePartial \/ WriteFails
  <2>1. /\ sync' = Moved /\ last'.sync = None /\ UNCHANGED <<received, answered>>
    BY <1>0, <1>4, LeavesType DEF WritePartial, WriteFails, Tick
  <2> QED
    BY <1>0, <1>2, <2>1 DEF AnswersInv, None, Increasing, Below
<1>5. ASSUME UNCHANGED <<received, answered, sync, last>> PROVE AnswersInv'
  BY <1>5 DEF AnswersInv, Increasing, Below
<1>6. CASE Poll \/ DecodeBad \/ Publish \/ NothingToPublish \/ ReadFails \/ Reconnect
  BY <1>5, <1>6 DEF Poll, DecodeBad, Publish, NothingToPublish, ReadFails, Reconnect
<1>7. CASE UNCHANGED vars
  BY <1>5, <1>7 DEF vars
<1> QED
  BY <1>1, <1>3, <1>4, <1>6, <1>7 DEF Next

\* Synchronisations are answered in order and once, whatever is written in
\* part, fails, or is overtaken.
THEOREM AnsweredInOrder == Spec => []AnswersInOrder
<1>1. AnswersInv => AnswersInOrder
  BY DEF AnswersInv, AnswersInOrder
<1> QED
  BY <1>1, AnswersInit, AnswersStep, TypedAlways, PTL DEF Spec

\* What a tick moves is as new as what waited.
LEMMA MovedIsNewer ==
    ASSUME AnswersInv, Typed, sync # None
    PROVE  Moved \in sync .. received /\ Moved # None /\ sync \in Nat
<1>1. sync \in Nat /\ last.sync \in Nat /\ received \in Nat /\ sync <= received
  BY Bounds DEF Typed, TypeOK, AnswersInv
<1>2. CASE last.sync = None
  BY <1>1, <1>2 DEF Moved
<1>3. CASE last.sync # None
  BY <1>1, <1>3 DEF Moved, AnswersInv
<1> QED
  BY <1>2, <1>3

LEMMA KeptStep ==
    ASSUME AnswersInv, Typed, [Next]_vars, sync # None
    PROVE  \/ sync' >= sync
           \/ \E n \in sync .. received : answered' = Append(answered, n)
<1>1. CASE WriteFull
  BY <1>1, MovedIsNewer DEF WriteFull
<1>2. CASE WritePartial \/ WriteFails
  <2>1. sync' = Moved
    BY <1>2 DEF WritePartial, WriteFails
  <2> QED
    BY <2>1, MovedIsNewer
<1>3. CASE UNCHANGED sync
  BY <1>3, MovedIsNewer
<1> QED
  BY <1>1, <1>2, <1>3
     DEF Next, Poll, DecodeGood, DecodeBad, Publish, NothingToPublish, ReadFails, Reconnect,
         vars

\* A synchronisation that waits is dropped by nothing but a whole frame that
\* answers it or a newer one, for any number of messages.
THEOREM SyncIsKept == Spec => WaitingIsKept
<1>1. AnswersInv /\ Typed /\ [Next]_vars =>
        [sync # None => \/ sync' >= sync
                        \/ \E n \in sync .. received : answered' = Append(answered, n)]_vars
  BY KeptStep
<1> QED
  BY <1>1, AnswersInit, AnswersStep, TypedAlways, PTL DEF Spec, WaitingIsKept

-----------------------------------------------------------------------------
LEMMA FakeInit == Init => FakeInv
BY Bounds DEF Init, Starts, FakeInv

LEMMA FakeStep ==
    FakeInv /\ Typed /\ [Next]_vars =>
        FakeInv' /\ [gaveUp /\ charging' = "fake" => charging = "fake"]_vars
<1> SUFFICES ASSUME FakeInv, Typed, [Next]_vars
             PROVE  FakeInv' /\ (gaveUp /\ charging' = "fake" => charging = "fake")
  OBVIOUS
<1>0. fails \in Nat
  BY Bounds DEF Typed, TypeOK
<1>1. CASE Publish
  <2>1. PublishBattery
    BY <1>1 DEF Publish
  <2>2. CASE charging' = "ecu" /\ UNCHANGED fails
    BY <2>1, <2>2 DEF PublishBattery, FakeInv
  <2>3. ASSUME NEW place \in {"near", "far", "unknown"}, NEW due \in BOOLEAN,
               FakeCharging(place, due)
        PROVE  FakeInv' /\ (gaveUp /\ charging' = "fake" => charging = "fake")
    <3>1. CASE fails <= MaxFails
      <4>1. fails' \in {fails, fails + 1} /\ ~gaveUp
        BY <1>0, <2>3, <3>1, Bounds DEF FakeCharging, Fakes, Counted, FakeInv
      <4>2. gaveUp' => fails' > MaxFails
        BY <2>1, <4>1 DEF PublishBattery
      <4>3. fails' <= MaxFails + 1
        BY <1>0, <3>1, <4>1, Bounds
      <4> QED
        BY <4>1, <4>2, <4>3 DEF FakeInv
    <3>2. CASE ~(fails <= MaxFails)
      <4>1. fails' = fails /\ charging' = "no"
        BY <2>3, <3>2 DEF FakeCharging, Fakes
      <4> QED
        BY <1>0, <2>1, <3>2, <4>1, Bounds DEF PublishBattery, FakeInv
    <3> QED
      BY <3>1, <3>2
  <2> QED
    BY <2>1, <2>2, <2>3 DEF PublishBattery
<1>2. ASSUME UNCHANGED battery
      PROVE  FakeInv' /\ (gaveUp /\ charging' = "fake" => charging = "fake")
  BY <1>2 DEF FakeInv, battery
<1>3. ASSUME NEW hasSync \in BOOLEAN, NEW hasGains \in BOOLEAN, DecodeGood(hasSync, hasGains)
      PROVE  UNCHANGED battery
  BY <1>3 DEF DecodeGood
<1>4. CASE Poll \/ DecodeBad \/ NothingToPublish \/ ReadFails \/ Reconnect
  BY <1>2, <1>4 DEF Poll, DecodeBad, NothingToPublish, ReadFails, Reconnect
<1>5. CASE WriteFull \/ WritePartial \/ WriteFails
  BY <1>2, <1>5 DEF WriteFull, WritePartial, WriteFails, Tick
<1>6. CASE UNCHANGED vars
  BY <1>2, <1>6 DEF vars
<1> QED
  BY <1>1, <1>2, <1>3, <1>4, <1>5, <1>6 DEF Next

\* The counter stops past its limit and never wraps: fake charging is over.
THEOREM FakeEnds == Spec => FakeChargingEnds
BY FakeInit, FakeStep, TypedAlways, PTL DEF Spec, FakeChargingEnds
=============================================================================
