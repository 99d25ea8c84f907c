------------------------- MODULE StatusForPageProofs -------------------------
(***************************************************************************)
(* Proofs about StatusForPage and SoundPlayer: the types, that each chunk  *)
(* of sound is freed once and by its own end, that the gains a page shows  *)
(* are those its blank fields would be filled with, and that its indicator *)
(* agrees with its text.                                                   *)
(***************************************************************************)
EXTENDS StatusForPage, SequenceTheorems, FiniteSetTheorems, TLAPS

\* What is broadcast at a time.
LEMMA Broadcasts ==
    ASSUME line \in Seq(PageMessages), NEW t \in Seq(PageMessages), Broadcast(t)
    PROVE  line' \in Seq(PageMessages)
  BY ConcatProperties DEF Broadcast

LEMMA InfosAreMessages ==
    ASSUME NEW b \in BOOLEAN
    PROVE  EcuInfo(b) \in Infos /\ EcuInfo(b) \in PageMessages
  BY DEF EcuInfo, Infos, PageMessages

LEMMA ConfigsAreMessages ==
    ASSUME NEW g \in Gains PROVE Configs(g) \in PageMessages
  BY DEF Configs, PageMessages

LEMMA StatusesAreMessages ==
    ASSUME NEW b \in BOOLEAN PROVE FullStatus(b) \in PageMessages
  BY DEF FullStatus, PageMessages

LEMMA ReportParts ==
    ASSUME NEW r \in Reports
    PROVE  r.info \in BOOLEAN /\ r.gains \in Gains \cup {NoGains} /\ r.charging \in BOOLEAN
  BY ReportAssumption DEF Messages

-----------------------------------------------------------------------------
\* The sounds.  What makes SoundsAreSafe inductive is that, unless the clock ran
\* ahead, no sound is due while one is loaded or plays, and that the one that
\* plays is the one that `sound' points to.

LoadedAlone ==
    loading => sound \in allocated \ refused /\ playing = {}

PlaysAlone ==
    ~loading => playing \subseteq {sound}

InTime ==
    /\ over => ~loading /\ playing = {}
    /\ LoadedAlone /\ PlaysAlone
    /\ ~misused
    /\ playing \subseteq allocated \ refused /\ refused \subseteq allocated
    /\ allocated \subseteq playing \cup refused \cup (IF loading THEN {sound} ELSE {})

SoundIInv ==
    /\ SoundTypeOK
    /\ loading => sound \in Chunks
    /\ ~ahead => InTime

LEMMA SoundIInvImplies == ASSUME SoundIInv PROVE SoundsAreSafe
  BY DEF SoundIInv, InTime, SoundsAreSafe

LEMMA SoundStarts == ASSUME SoundInit PROVE SoundIInv
  BY DEF SoundInit, SoundIInv, SoundTypeOK, InTime, LoadedAlone, PlaysAlone

LEMMA SoundKept ==
    ASSUME SoundIInv, UNCHANGED soundVars PROVE SoundIInv'
  BY DEF SoundIInv, soundVars, SoundTypeOK, InTime, LoadedAlone, PlaysAlone

LEMMA SetMuteSafe ==
    ASSUME SoundIInv, NEW b \in BOOLEAN, SetMute(b) PROVE SoundIInv'
  BY DEF SoundIInv, SoundTypeOK, SetMute, memory, InTime, LoadedAlone, PlaysAlone

LEMMA NotDueSafe == ASSUME SoundIInv, NotDue PROVE SoundIInv'
  BY DEF SoundIInv, SoundTypeOK, NotDue, memory, InTime, LoadedAlone, PlaysAlone

LEMMA DueMutedSafe == ASSUME SoundIInv, DueMuted PROVE SoundIInv'
  BY DEF SoundIInv, SoundTypeOK, DueMuted, memory, InTime, LoadedAlone, PlaysAlone

LEMMA LoadFailsSafe == ASSUME SoundIInv, LoadFails, ~loading PROVE SoundIInv'
<1>1. ASSUME ~ahead PROVE InTime'
  <2>1. playing = {}
    BY <1>1 DEF SoundIInv, InTime, LoadFails, Due
  <2> QED BY <1>1, <2>1 DEF SoundIInv, InTime, LoadedAlone, PlaysAlone, LoadFails, memory
<1>2. SoundTypeOK'
  BY DEF SoundIInv, SoundTypeOK, LoadFails, memory
<1> QED BY <1>1, <1>2 DEF SoundIInv, LoadFails

LEMMA LoadSafe == ASSUME SoundIInv, Load PROVE SoundIInv'
<1>1. PICK c \in Chunks \ allocated : sound' = c /\ allocated' = allocated \cup {c}
  BY DEF Load
<1>2. SoundTypeOK' /\ sound' \in Chunks
  BY <1>1 DEF SoundIInv, SoundTypeOK, Load
<1>3. ASSUME ~ahead PROVE InTime'
  <2>1. playing = {} /\ refused \subseteq allocated /\ allocated \subseteq refused
    BY <1>3 DEF SoundIInv, InTime, Load, Due
  <2> QED BY <1>1, <1>3, <2>1 DEF SoundIInv, InTime, LoadedAlone, PlaysAlone, Load
<1> QED BY <1>2, <1>3 DEF SoundIInv, Load

LEMMA PlayChannelSafe == ASSUME SoundIInv, PlayChannel PROVE SoundIInv'
<1>1. SoundTypeOK'
  BY DEF SoundIInv, SoundTypeOK, PlayChannel
<1>2. ASSUME ~ahead PROVE InTime'
  BY <1>2 DEF SoundIInv, InTime, LoadedAlone, PlaysAlone, PlayChannel
<1> QED BY <1>1, <1>2 DEF SoundIInv, PlayChannel

LEMMA SoundEndsSafe == ASSUME SoundIInv, SoundEnds PROVE SoundIInv'
<1>1. PICK c \in playing : FinishedCallback(c)
  BY DEF SoundEnds
<1>2. SoundTypeOK'
  BY <1>1 DEF SoundIInv, SoundTypeOK, FinishedCallback
<1>3. ASSUME ~ahead PROVE InTime'
  <2>1. ~loading /\ c = sound /\ playing = {sound} /\ sound \in allocated \ refused
    BY <1>1, <1>3 DEF SoundIInv, InTime, LoadedAlone, PlaysAlone
  <2>2. playing' = {} /\ allocated' = allocated \ {sound} /\ refused' = refused
    BY <1>1, <2>1 DEF FinishedCallback
  <2>3. allocated' \subseteq playing' \cup refused'
    BY <1>3, <2>1, <2>2 DEF SoundIInv, InTime
  <2>4. loading' = loading /\ over' = over /\ sound' = sound
    BY <1>1 DEF FinishedCallback
  <2>5. ~misused'
    BY <1>1, <1>3, <2>1 DEF SoundIInv, InTime, FinishedCallback
  <2> QED
    BY <1>3, <2>1, <2>2, <2>3, <2>4, <2>5 DEF SoundIInv, InTime, LoadedAlone, PlaysAlone
<1> QED BY <1>1, <1>2, <1>3 DEF SoundIInv, FinishedCallback

LEMMA ClockMovesSafe == ASSUME SoundIInv, ClockMoves PROVE SoundIInv'
<1>1. SoundTypeOK'
  BY DEF SoundIInv, SoundTypeOK, ClockMoves, memory
<1>2. ASSUME ~ahead' PROVE InTime'
  BY <1>2 DEF SoundIInv, InTime, LoadedAlone, PlaysAlone, ClockMoves, memory
<1> QED BY <1>1, <1>2 DEF SoundIInv, ClockMoves, memory

\* What a step of the driver does to the sounds.
LEMMA SoundStep == ASSUME SoundIInv, Next PROVE SoundIInv'
<1>1. CASE UNCHANGED soundVars
  BY <1>1, SoundKept
<1>2. CASE PublishFullStatus
  BY <1>2, NotDueSafe, DueMutedSafe, LoadFailsSafe, LoadSafe DEF PublishFullStatus, RosIsFree
<1>3. CASE PlayThenPublish
  BY <1>3, PlayChannelSafe DEF PlayThenPublish
<1>4. CASE MuteSounds
  BY <1>4, SetMuteSafe DEF MuteSounds
<1>5. CASE SoundEnds \/ ClockMoves
  BY <1>5, SoundEndsSafe, ClockMovesSafe
<1>6. CASE (\E r \in Reports : PacketCallback(r)) \/ PacketCallbackFails
           \/ TellGains \/ ReportsClosed \/ PortFails \/ Reconnect
  BY <1>1, <1>6 DEF PacketCallback, PacketCallbackFails, TellGains, ReportsClosed, PortFails,
     Reconnect
<1>7. CASE GetEcuInfo \/ SendReply \/ Opens \/ Closes \/ HandleMessage
  BY <1>1, <1>7 DEF GetEcuInfo, SendReply, Opens, Closes, HandleMessage
<1> QED BY <1>2, <1>3, <1>4, <1>5, <1>6, <1>7 DEF Next

\* Unless the ROS clock ran ten seconds in one sound, every chunk is freed once,
\* by the end of its own channel.
THEOREM SoundsSafe == Spec => []SoundsAreSafe
<1>1. Init => SoundIInv
  BY SoundStarts DEF Init
<1>2. SoundIInv /\ [Next]_vars => SoundIInv'
  BY SoundStep, SoundKept DEF vars
<1> QED BY <1>1, <1>2, SoundIInvImplies, PTL DEF Spec

-----------------------------------------------------------------------------
\* The gains.  What makes GainsAreThoseMerged inductive is the last message of
\* gains on its way to the page: it has those of last_params_, but for the time
\* between their assignment and their broadcast.

IsConfigs(m) == m.type = "current_configs"

NoConfigs(l) == \A k \in 1 .. Len(l) : ~IsConfigs(l[k])

Newest(l, p) ==
    \A k \in 1 .. Len(l) :
        IsConfigs(l[k]) /\ (\A j \in 1 .. Len(l) : j > k => ~IsConfigs(l[j]))
            => l[k].configs = p

LEMMA AppendOther ==
    ASSUME NEW l \in Seq(PageMessages), NEW p, Newest(l, p),
           NEW m \in PageMessages, ~IsConfigs(m)
    PROVE  /\ Newest(Append(l, m), p)
           /\ NoConfigs(Append(l, m)) => NoConfigs(l)
<1> DEFINE n == Append(l, m)
<1>1. /\ Len(l) \in Nat /\ Len(n) = Len(l) + 1
      /\ n[Len(l) + 1] = m
      /\ \A k \in 1 .. Len(l) : n[k] = l[k]
  BY AppendProperties, LenProperties
<1>2. ASSUME NEW k \in 1 .. Len(n), IsConfigs(n[k]),
             \A j \in 1 .. Len(n) : j > k => ~IsConfigs(n[j])
      PROVE  n[k].configs = p
  <2>1. k \in 1 .. Len(l)
    BY <1>1, <1>2
  <2>2. \A j \in 1 .. Len(l) : j > k => ~IsConfigs(l[j])
    BY <1>1, <1>2
  <2>3. IsConfigs(l[k])
    BY <1>1, <1>2, <2>1
  <2> QED BY <1>1, <2>1, <2>2, <2>3 DEF Newest
<1>3. NoConfigs(n) => NoConfigs(l)
  BY <1>1 DEF NoConfigs
<1> QED BY <1>2, <1>3 DEF Newest

LEMMA AppendConfigs ==
    ASSUME NEW l \in Seq(PageMessages), NEW g \in Gains
    PROVE  Newest(Append(l, Configs(g)), g) /\ ~NoConfigs(Append(l, Configs(g)))
<1> DEFINE n == Append(l, Configs(g))
<1>1. Len(l) \in Nat /\ Len(n) = Len(l) + 1 /\ n[Len(l) + 1] = Configs(g)
  BY AppendProperties, LenProperties, ConfigsAreMessages
<1>2. IsConfigs(Configs(g)) /\ Configs(g).configs = g
  BY DEF Configs, IsConfigs
<1>3. ASSUME NEW k \in 1 .. Len(n), \A j \in 1 .. Len(n) : j > k => ~IsConfigs(n[j])
      PROVE  n[k].configs = g
  <2>1. k = Len(l) + 1
    BY <1>1, <1>2, <1>3
  <2> QED BY <1>1, <1>2, <2>1
<1>4. ~NoConfigs(n)
  BY <1>1, <1>2 DEF NoConfigs
<1> QED BY <1>3, <1>4 DEF Newest

LEMMA TailConfigs ==
    ASSUME NEW l \in Seq(PageMessages), l # <<>>, NEW p, Newest(l, p)
    PROVE  /\ Newest(Tail(l), p)
           /\ NoConfigs(Tail(l)) /\ IsConfigs(Head(l)) => Head(l).configs = p
           /\ NoConfigs(Tail(l)) /\ ~IsConfigs(Head(l)) => NoConfigs(l)
<1> DEFINE t == Tail(l)
<1>1. /\ Len(l) \in Nat \ {0} /\ Len(t) = Len(l) - 1
      /\ \A k \in 1 .. Len(t) : t[k] = l[k + 1]
      /\ Head(l) = l[1]
  BY HeadTailProperties, LenProperties, EmptySeq
<1>2. \A j \in 2 .. Len(l) : j - 1 \in 1 .. Len(t) /\ l[j] = t[j - 1]
  BY <1>1
<1>3. ASSUME NEW k \in 1 .. Len(t), IsConfigs(t[k]),
             \A j \in 1 .. Len(t) : j > k => ~IsConfigs(t[j])
      PROVE  t[k].configs = p
  <2>1. k + 1 \in 1 .. Len(l) /\ IsConfigs(l[k + 1])
    BY <1>1, <1>3
  <2>2. ASSUME NEW j \in 1 .. Len(l), j > k + 1 PROVE ~IsConfigs(l[j])
    <3>1. j \in 2 .. Len(l) /\ j - 1 > k
      BY <1>1, <2>2
    <3> QED BY <1>2, <1>3, <3>1
  <2> QED BY <1>1, <2>1, <2>2 DEF Newest
<1>4. ASSUME NoConfigs(t) PROVE \A j \in 2 .. Len(l) : ~IsConfigs(l[j])
  BY <1>2, <1>4 DEF NoConfigs
<1>5. ASSUME NoConfigs(t), IsConfigs(Head(l)) PROVE Head(l).configs = p
  <2>1. 1 \in 1 .. Len(l) /\ IsConfigs(l[1])
    BY <1>1, <1>5
  <2>2. \A j \in 1 .. Len(l) : j > 1 => ~IsConfigs(l[j])
    BY <1>1, <1>4, <1>5
  <2> QED BY <1>1, <2>1, <2>2 DEF Newest
<1>6. ASSUME NoConfigs(t), ~IsConfigs(Head(l)) PROVE NoConfigs(l)
  <2>1. \A j \in 1 .. Len(l) : j = 1 \/ j \in 2 .. Len(l)
    BY <1>1
  <2> QED BY <1>1, <1>4, <1>6, <2>1 DEF NoConfigs
<1> QED BY <1>3, <1>5, <1>6 DEF Newest

\* A broadcast of one message, to a page that is connected or not.
LEMMA BroadcastOne ==
    ASSUME line \in Seq(PageMessages), NEW m \in PageMessages, Broadcast(<<m>>)
    PROVE  /\ line' \in Seq(PageMessages)
           /\ line' = IF page.open THEN Append(line, m) ELSE line
  BY AppendIsConcat, AppendProperties DEF Broadcast

\* And of what publish_data has to say at first.
LEMMA BroadcastReport ==
    ASSUME line \in Seq(PageMessages), NEW r \in Reports, NEW b \in BOOLEAN,
           Broadcast(ReportInfo(r, b))
    PROVE  /\ line' \in Seq(PageMessages)
           /\ line' = IF page.open /\ r.info THEN Append(line, EcuInfo(b)) ELSE line
<1>1. CASE r.info
  BY <1>1, BroadcastOne, InfosAreMessages DEF ReportInfo
<1>2. CASE ~r.info
  BY <1>2, ConcatEmptySeq DEF ReportInfo, Broadcast
<1> QED BY <1>1, <1>2, ReportParts

NewestIsMerged ==
    /\ ~page.open => line = <<>>
    /\ ~telling => Newest(line, last_params)

ShownIsMerged ==
    page.open /\ page.told /\ ~telling /\ NoConfigs(line) => page.gains = last_params

ToldWereReported == telling => last_params \in Gains

GainsIInv ==
    SoundIInv /\ TypeOK /\ NewestIsMerged /\ ShownIsMerged /\ ToldWereReported

LEMMA GainsIInvImplies == ASSUME GainsIInv PROVE GainsAreThoseMerged
<1>1. DOMAIN line = 1 .. Len(line)
  BY LenProperties DEF GainsIInv, TypeOK
<1> QED BY <1>1 DEF GainsIInv, ShownIsMerged, GainsAreThoseMerged, NoConfigs, IsConfigs

LEMMA EmptyIsNewest == ASSUME NEW p PROVE Newest(<<>>, p) /\ NoConfigs(<<>>)
  BY DEF Newest, NoConfigs

\* Steps that leave the page, its line and last_params_ alone.
LEMMA ElsewhereSafe ==
    ASSUME GainsIInv, SoundIInv', TypeOK',
           UNCHANGED <<last_params, telling, line, page>>
    PROVE  GainsIInv'
  BY DEF GainsIInv, NewestIsMerged, ShownIsMerged, ToldWereReported

\* Steps that send a message other than of gains.
LEMMA OtherSentSafe ==
    ASSUME GainsIInv, SoundIInv', TypeOK', NEW m \in PageMessages, ~IsConfigs(m),
           Broadcast(<<m>>), UNCHANGED <<last_params, telling, page>>
    PROVE  GainsIInv'
<1>1. line \in Seq(PageMessages)
  BY DEF GainsIInv, TypeOK
<1>2. line' = IF page.open THEN Append(line, m) ELSE line
  BY <1>1, BroadcastOne
<1>3. ~telling => /\ Newest(Append(line, m), last_params)
                  /\ NoConfigs(Append(line, m)) => NoConfigs(line)
  BY <1>1, AppendOther DEF GainsIInv, NewestIsMerged
<1> QED BY <1>2, <1>3 DEF GainsIInv, NewestIsMerged, ShownIsMerged, ToldWereReported

LEMMA ReportSafe ==
    ASSUME GainsIInv, SoundIInv', TypeOK', NEW r \in Reports, NEW b \in BOOLEAN,
           ~telling, PublishData(r, b), UNCHANGED page
    PROVE  GainsIInv'
<1>1. line \in Seq(PageMessages)
  BY DEF GainsIInv, TypeOK
<1>2. line' = IF page.open /\ r.info THEN Append(line, EcuInfo(b)) ELSE line
  BY <1>1, BroadcastReport DEF PublishData
<1>3. EcuInfo(b) \in PageMessages /\ ~IsConfigs(EcuInfo(b))
  BY InfosAreMessages DEF EcuInfo, IsConfigs
<1>4. Newest(line', last_params) /\ (NoConfigs(line') => NoConfigs(line))
  BY <1>1, <1>2, <1>3, AppendOther DEF GainsIInv, NewestIsMerged
<1>5. ~page'.open => line' = <<>>
  BY <1>2 DEF GainsIInv, NewestIsMerged
<1>6. CASE r.gains = NoGains
  <2>1. last_params' = last_params /\ telling' = FALSE
    BY <1>6 DEF PublishData, Params
  <2> QED BY <1>4, <1>5, <2>1 DEF GainsIInv, NewestIsMerged, ShownIsMerged, ToldWereReported
<1>7. CASE r.gains # NoGains
  <2>1. last_params' \in Gains /\ telling' = TRUE
    BY <1>7, ReportParts DEF PublishData, Params
  <2> QED BY <1>5, <2>1 DEF GainsIInv, NewestIsMerged, ShownIsMerged, ToldWereReported
<1> QED BY <1>6, <1>7

LEMMA TellGainsSafe ==
    ASSUME GainsIInv, SoundIInv', TypeOK', TellGains PROVE GainsIInv'
<1> DEFINE m == Configs(last_params)
<1>1. line \in Seq(PageMessages) /\ last_params \in Gains /\ last_params' = last_params
  BY DEF GainsIInv, TypeOK, ToldWereReported, TellGains
<1>2. line' = IF page.open THEN Append(line, m) ELSE line
  BY <1>1, ConfigsAreMessages, BroadcastOne DEF TellGains
<1>3. page' = page /\ ~telling' /\ ToldWereReported'
  BY DEF TellGains, ToldWereReported
<1>4. CASE page.open
  <2>1. Newest(Append(line, m), last_params) /\ ~NoConfigs(Append(line, m))
    BY <1>1, AppendConfigs
  <2> QED BY <1>1, <1>2, <1>3, <1>4, <2>1 DEF GainsIInv, NewestIsMerged, ShownIsMerged
<1>5. CASE ~page.open
  <2>1. line' = <<>>
    BY <1>2, <1>5 DEF GainsIInv, NewestIsMerged
  <2> QED BY <1>3, <1>5, <2>1, EmptyIsNewest DEF GainsIInv, NewestIsMerged, ShownIsMerged
<1> QED BY <1>4, <1>5

LEMMA OpensSafe == ASSUME GainsIInv, SoundIInv', TypeOK', Opens PROVE GainsIInv'
<1>1. page'.open /\ ~page'.told
  BY DEF GainsIInv, TypeOK, Opens
<1> QED BY <1>1 DEF GainsIInv, NewestIsMerged, ShownIsMerged, ToldWereReported, Opens

LEMMA ClosesSafe == ASSUME GainsIInv, SoundIInv', TypeOK', Closes PROVE GainsIInv'
<1>1. ~page'.open
  BY DEF GainsIInv, TypeOK, Closes, Loaded
<1> QED BY <1>1, EmptyIsNewest
       DEF GainsIInv, NewestIsMerged, ShownIsMerged, ToldWereReported, Closes

LEMMA HandleMessageSafe ==
    ASSUME GainsIInv, SoundIInv', TypeOK', HandleMessage PROVE GainsIInv'
<1>1. line \in Seq(PageMessages) /\ line # <<>> /\ line' = Tail(line)
  BY DEF GainsIInv, TypeOK, HandleMessage
<1>2. page.open
  BY <1>1 DEF GainsIInv, NewestIsMerged
<1>3. Head(line) \in PageMessages
  BY <1>1, HeadTailProperties
<1>4. ~telling =>
        /\ Newest(Tail(line), last_params)
        /\ NoConfigs(Tail(line)) /\ IsConfigs(Head(line)) => Head(line).configs = last_params
        /\ NoConfigs(Tail(line)) /\ ~IsConfigs(Head(line)) => NoConfigs(line)
  BY <1>1, TailConfigs DEF GainsIInv, NewestIsMerged
<1>5. /\ page'.open
      /\ IsConfigs(Head(line)) => page'.gains = Head(line).configs
      /\ ~IsConfigs(Head(line)) => page'.gains = page.gains /\ page'.told = page.told
  BY <1>2, <1>3 DEF GainsIInv, TypeOK, HandleMessage, Handled, IsConfigs, PageMessages, Infos
<1> QED BY <1>1, <1>2, <1>4, <1>5
        DEF GainsIInv, NewestIsMerged, ShownIsMerged, ToldWereReported, HandleMessage

-----------------------------------------------------------------------------
\* The types.

LEMMA ReportTypes ==
    ASSUME TypeOK, SoundTypeOK', NEW r \in Reports, NEW b \in BOOLEAN,
           PublishData(r, b), connected' \in BOOLEAN, UNCHANGED <<reply, page>>
    PROVE  TypeOK'
<1>1. line' \in Seq(PageMessages)
  BY BroadcastReport DEF TypeOK, PublishData
<1>2. charging' \in BOOLEAN /\ last_params' \in Gains \cup {Zeros} /\ telling' \in BOOLEAN
  BY ReportParts DEF TypeOK, PublishData, Params
<1> QED BY <1>1, <1>2 DEF TypeOK

LEMMA SentTypes ==
    ASSUME TypeOK, SoundTypeOK', NEW m \in PageMessages, Broadcast(<<m>>),
           UNCHANGED <<connected, charging, last_params, page>>,
           telling' \in BOOLEAN, reply' \in Infos \cup {NoReply}
    PROVE  TypeOK'
<1>1. line' \in Seq(PageMessages)
  BY BroadcastOne DEF TypeOK
<1> QED BY <1>1 DEF TypeOK

LEMMA LoadedTypes ==
    /\ Loaded \in [open : BOOLEAN, ecu : Infos \cup {NoReply}, gains : Gains \cup {NoGains},
                   told : BOOLEAN, classes : SUBSET Classes, text : Texts]
    /\ <<>> \in Seq(PageMessages)
  BY EmptySeq DEF Loaded, Classes, Texts

LEMMA PageTypes ==
    ASSUME TypeOK, SoundTypeOK', Opens \/ Closes \/ HandleMessage PROVE TypeOK'
<1>2. CASE Opens
  BY <1>2 DEF TypeOK, Opens
<1>3. CASE Closes
  BY <1>3, LoadedTypes DEF TypeOK, Closes
<1>4. CASE HandleMessage
  <2>1. /\ line \in Seq(PageMessages) /\ line # <<>>
        /\ line' = Tail(line) /\ page' = Handled(Head(line))
    BY <1>4 DEF TypeOK, HandleMessage
  <2>2. Head(line) \in PageMessages /\ line' \in Seq(PageMessages)
    BY <2>1, HeadTailProperties
  <2>3. CASE Head(line).type = "ecu_info"
    <3>1. Head(line) \in Infos
      BY <2>2, <2>3 DEF PageMessages
    <3>2. page' = [page EXCEPT !.ecu = Head(line)]
      BY <2>1, <2>3 DEF Handled
    <3> QED BY <1>4, <2>2, <3>1, <3>2 DEF TypeOK, HandleMessage
  <2>4. CASE Head(line).type = "current_configs"
    <3>1. Head(line).configs \in Gains
      BY <2>2, <2>4 DEF PageMessages, Infos
    <3>2. page' = [page EXCEPT !.gains = Head(line).configs, !.told = TRUE]
      BY <2>1, <2>4 DEF Handled
    <3> QED BY <1>4, <2>2, <3>1, <3>2 DEF TypeOK, HandleMessage
  <2>5. CASE Head(line).type = "full_status"
    <3>1. Head(line).charging \in BOOLEAN
      BY <2>2, <2>5 DEF PageMessages, Infos
    <3> DEFINE b == Head(line).charging
    <3>2. page' = [page EXCEPT !.classes = Indicator(page.classes, b), !.text = Text(b)]
      BY <2>1, <2>5 DEF Handled
    <3>3. page.classes \in SUBSET Classes
      BY DEF TypeOK
    <3>4. Indicator(page.classes, b) \in SUBSET Classes /\ Text(b) \in Texts
      BY <3>1, <3>3 DEF Indicator, Colour, Text, Classes, Texts
    <3> HIDE DEF b
    <3> QED BY <1>4, <2>2, <3>2, <3>4 DEF TypeOK, HandleMessage
  <2> QED BY <2>2, <2>3, <2>4, <2>5 DEF PageMessages, Infos
<1> QED BY <1>2, <1>3, <1>4

-----------------------------------------------------------------------------
\* All of it.

LEMMA GainsStart == ASSUME Init PROVE GainsIInv
<1>1. SoundIInv
  BY SoundStarts DEF Init
<1>2. TypeOK
  BY <1>1, LoadedTypes DEF Init, SoundIInv, TypeOK
<1>3. NewestIsMerged /\ ShownIsMerged
  BY EmptyIsNewest DEF Init, Loaded, NewestIsMerged, ShownIsMerged
<1>4. ToldWereReported
  BY DEF Init, ToldWereReported
<1> QED BY <1>1, <1>2, <1>3, <1>4 DEF GainsIInv

LEMMA GainsStep == ASSUME GainsIInv, [Next]_vars PROVE GainsIInv'
<1>1. TypeOK /\ SoundIInv' /\ SoundTypeOK'
  BY SoundStep, SoundKept DEF GainsIInv, SoundIInv, vars
<1> USE <1>1
<1>2. ASSUME NEW r \in Reports, NEW b \in BOOLEAN, ~telling,
             PublishData(r, b), connected' \in BOOLEAN, UNCHANGED <<reply, page>>
      PROVE  GainsIInv'
  BY <1>2, ReportTypes, ReportSafe
<1>3. reply \in Infos \cup {NoReply} /\ connected \in BOOLEAN /\ charging \in BOOLEAN
      /\ telling \in BOOLEAN
  BY DEF TypeOK
<1>4. ASSUME NEW m \in PageMessages, ~IsConfigs(m), Broadcast(<<m>>),
             UNCHANGED <<connected, charging, last_params, telling, page>>,
             reply' \in Infos \cup {NoReply}
      PROVE  GainsIInv'
  <2>1. TypeOK'
    BY <1>4, <1>3, SentTypes
  <2> QED BY <1>4, <2>1, OtherSentSafe
<1>5. ASSUME UNCHANGED <<charging, last_params, telling, line, page>>, connected' \in BOOLEAN,
             reply' \in Infos \cup {NoReply}
      PROVE  GainsIInv'
  <2>1. TypeOK'
    BY <1>5 DEF TypeOK
  <2> QED BY <1>5, <2>1, ElsewhereSafe
<1>6. CASE \E r \in Reports : PacketCallback(r)
  BY <1>2, <1>3, <1>6 DEF PacketCallback, RosIsFree
<1>7. CASE PacketCallbackFails
  BY <1>2, <1>7 DEF PacketCallbackFails, RosIsFree
<1>8. CASE ReportsClosed
  <2>1. EcuInfo(FALSE) \in PageMessages /\ ~IsConfigs(EcuInfo(FALSE))
    BY InfosAreMessages DEF EcuInfo, IsConfigs
  <2> QED BY <1>4, <1>3, <1>8, <2>1 DEF ReportsClosed
<1>9. CASE PortFails \/ Reconnect
  BY <1>5, <1>3, <1>9 DEF PortFails, Reconnect
<1>10. FullStatus(charging) \in PageMessages /\ ~IsConfigs(FullStatus(charging))
  BY <1>3, StatusesAreMessages DEF FullStatus, IsConfigs
<1>11. CASE PublishFullStatus
  <2>1. CASE SendFullStatus
    BY <1>4, <1>3, <1>10, <1>11, <2>1 DEF PublishFullStatus, SendFullStatus
  <2>2. CASE UNCHANGED line
    BY <1>5, <1>3, <1>11, <2>2 DEF PublishFullStatus
  <2> QED BY <1>11, <2>1, <2>2 DEF PublishFullStatus
<1>12. CASE PlayThenPublish
  BY <1>4, <1>3, <1>10, <1>12 DEF PlayThenPublish, SendFullStatus
<1>13. CASE GetEcuInfo
  BY <1>5, <1>3, <1>13, InfosAreMessages DEF GetEcuInfo
<1>14. CASE SendReply
  <2>1. reply \in Infos /\ reply \in PageMessages /\ ~IsConfigs(reply)
    BY <1>3, <1>14 DEF SendReply, Infos, PageMessages, IsConfigs
  <2>2. reply' \in Infos \cup {NoReply}
    BY <1>14 DEF SendReply
  <2> QED BY <1>4, <1>14, <2>1, <2>2 DEF SendReply
<1>15. CASE Opens \/ Closes \/ HandleMessage
  BY <1>15, PageTypes, OpensSafe, ClosesSafe, HandleMessageSafe
<1>16. CASE UNCHANGED statusVars
  BY <1>5, <1>3, <1>16 DEF statusVars
<1>17. CASE TellGains
  <2>1. Configs(last_params) \in PageMessages
    BY <1>17, ConfigsAreMessages DEF GainsIInv, ToldWereReported, TellGains
  <2>2. TypeOK'
    BY <1>3, <1>17, <2>1, SentTypes DEF TellGains
  <2> QED BY <1>17, <2>2, TellGainsSafe
<1> QED BY <1>17, <1>6, <1>7, <1>8, <1>9, <1>11, <1>12, <1>13, <1>14, <1>15, <1>16
        DEF Next, MuteSounds, vars

THEOREM GainsInvariant == Spec => []GainsIInv
  BY GainsStart, GainsStep, PTL DEF Spec

\* The types of all the state of the status and the sounds.
THEOREM StatusTypes == Spec => []TypeOK
<1>1. GainsIInv => TypeOK
  BY DEF GainsIInv
<1> QED BY <1>1, GainsInvariant, PTL

\* The gains a page shows are those that its blank fields are filled with.
THEOREM GainsShownAreMerged == Spec => []GainsAreThoseMerged
  BY GainsIInvImplies, GainsInvariant, PTL

-----------------------------------------------------------------------------
\* The charging indicator.  updateIndicator adds the colour of the status and
\* removes none until there are too many classes: then both are gone.

Exact(b) == {"indicator", "active", Colour(b)}

IndicatorInv ==
    \/ page.classes \in {{"indicator"}, Classes}
    \/ \E b \in BOOLEAN : page.classes = Exact(b) /\ page.text = Text(b)

LEMMA ClassCounts ==
    /\ ~TooMany({"indicator"}) /\ TooMany(Classes)
    /\ \A b \in BOOLEAN : ~TooMany(Exact(b))
<1>1. IsFiniteSet({"indicator"}) /\ Cardinality({"indicator"}) = 1
  BY FS_Singleton
<1>2. /\ IsFiniteSet({"indicator", "active"})
      /\ Cardinality({"indicator", "active"}) = 2
  <2>1. {"indicator", "active"} = {"indicator"} \cup {"active"} /\ "active" \notin {"indicator"}
    OBVIOUS
  <2>2. Cardinality({"indicator"} \cup {"active"}) = 1 + 1
        /\ IsFiniteSet({"indicator"} \cup {"active"})
    BY <1>1, <2>1, FS_AddElement
  <2> QED
    BY <2>1, <2>2
<1>3. ASSUME NEW b \in BOOLEAN
      PROVE  IsFiniteSet(Exact(b)) /\ Cardinality(Exact(b)) = 3
  <2>1. Exact(b) = {"indicator", "active"} \cup {Colour(b)}
        /\ Colour(b) \notin {"indicator", "active"}
    BY DEF Exact, Colour
  <2>2. Cardinality({"indicator", "active"} \cup {Colour(b)}) = 2 + 1
        /\ IsFiniteSet({"indicator", "active"} \cup {Colour(b)})
    BY <1>2, <2>1, FS_AddElement
  <2> QED
    BY <2>1, <2>2
<1>4. Cardinality(Classes) = 4
  <2>1. Classes = Exact(TRUE) \cup {"yellow"} /\ "yellow" \notin Exact(TRUE)
    BY DEF Exact, Colour, Classes
  <2>2. Cardinality(Exact(TRUE) \cup {"yellow"}) = 3 + 1
    BY <1>3, <2>1, FS_AddElement
  <2> QED
    BY <2>1, <2>2
<1> QED
  BY <1>1, <1>3, <1>4 DEF TooMany

\* The page shows a status.
LEMMA IndicatorShows ==
    ASSUME TypeOK, IndicatorInv, HandleMessage, NEW b \in BOOLEAN, Head(line) = FullStatus(b)
    PROVE  IndicatorInv' /\ (page.text = Text(b) => page'.classes = Exact(b))
<1>1. page'.classes = Indicator(page.classes, b) /\ page'.text = Text(b)
  BY DEF HandleMessage, Handled, FullStatus, TypeOK
<1>2. CASE page.classes = {"indicator"}
  <2>1. page'.classes = Exact(b)
    BY <1>1, <1>2, ClassCounts DEF Indicator, Exact
  <2> QED
    BY <1>1, <2>1 DEF IndicatorInv
<1>3. CASE page.classes = Classes
  <2>1. page'.classes = Exact(b)
    BY <1>1, <1>3, ClassCounts DEF Indicator, Exact
  <2> QED
    BY <1>1, <2>1 DEF IndicatorInv
<1>4. ASSUME NEW c \in BOOLEAN, page.classes = Exact(c), page.text = Text(c)
      PROVE  IndicatorInv' /\ (page.text = Text(b) => page'.classes = Exact(b))
  <2>1. page'.classes = Exact(c) \cup {"active", Colour(b)}
    BY <1>1, <1>4, ClassCounts DEF Indicator
  <2>2. CASE b = c
    <3>1. page'.classes = Exact(b)
      BY <2>1, <2>2 DEF Exact
    <3> QED
      BY <1>1, <3>1 DEF IndicatorInv
  <2>3. CASE b # c
    <3>1. page'.classes = Classes
      BY <2>1, <2>3 DEF Exact, Classes, Colour
    <3>2. page.text # Text(b)
      BY <1>4, <2>3 DEF Text
    <3> QED
      BY <3>1, <3>2 DEF IndicatorInv
  <2> QED
    BY <2>2, <2>3
<1> QED
  BY <1>2, <1>3, <1>4 DEF IndicatorInv

LEMMA IndicatorStarts == ASSUME Init PROVE IndicatorInv
  BY DEF Init, Loaded, IndicatorInv

LEMMA IndicatorStep == ASSUME TypeOK, IndicatorInv, [Next]_vars PROVE IndicatorInv'
<1>1. CASE HandleMessage
  <2>1. CASE \E b \in BOOLEAN : Head(line) = FullStatus(b)
    BY <1>1, <2>1, IndicatorShows
  <2>2. CASE \A b \in BOOLEAN : Head(line) # FullStatus(b)
    <3>1. Head(line) \in PageMessages
      BY <1>1 DEF HandleMessage, TypeOK
    <3>2. Head(line).type \in {"ecu_info", "current_configs"}
      BY <2>2, <3>1 DEF PageMessages, Infos, FullStatus
    <3>3. page'.classes = page.classes /\ page'.text = page.text
      BY <1>1, <3>2 DEF HandleMessage, Handled, TypeOK
    <3> QED
      BY <3>3 DEF IndicatorInv
  <2> QED
    BY <2>1, <2>2
<1>2. CASE Opens \/ Closes
  <2>1. CASE UNCHANGED <<page.classes, page.text>>
    BY <2>1 DEF IndicatorInv
  <2>2. CASE page' = Loaded
    BY <2>2 DEF Loaded, IndicatorInv
  <2>3. UNCHANGED <<page.classes, page.text>> \/ page' = Loaded
    BY <1>2 DEF Opens, Closes, TypeOK
  <2> QED
    BY <2>1, <2>2, <2>3
<1>3. CASE UNCHANGED page
  BY <1>3 DEF IndicatorInv
<1>4. HandleMessage \/ Opens \/ Closes \/ UNCHANGED page
  BY DEF Next, PacketCallback, PacketCallbackFails, TellGains, ReportsClosed, PortFails,
     Reconnect, PublishFullStatus, PlayThenPublish, GetEcuInfo, SendReply, MuteSounds, statusVars, vars
<1> QED
  BY <1>1, <1>2, <1>3, <1>4

\* Of two statuses that agree, the second leaves the indicator with the one
\* colour of its text, whatever the page showed before.
THEOREM IndicatorAgrees == Spec => IndicatorIsExact
<1>1. TypeOK /\ IndicatorInv /\ [Next]_vars => IndicatorInv'
  BY IndicatorStep
<1>2. Spec => []IndicatorInv
  BY <1>1, IndicatorStarts, StatusTypes, PTL DEF Spec
<1>3. TypeOK /\ IndicatorInv /\ [Next]_vars =>
          [\A b \in BOOLEAN :
              HandleMessage /\ Head(line) = FullStatus(b) /\ page.text = Text(b)
                  => page'.classes = {"indicator", "active", Colour(b)}]_vars
  <2>1. ASSUME TypeOK, IndicatorInv, NEW b \in BOOLEAN, HandleMessage,
               Head(line) = FullStatus(b), page.text = Text(b)
        PROVE  page'.classes = {"indicator", "active", Colour(b)}
    <3>1. page'.classes = Exact(b)
      BY <2>1, IndicatorShows
    <3> QED
      BY <3>1 DEF Exact
  <2> QED
    BY <2>1
<1> QED
  BY <1>2, <1>3, StatusTypes, PTL DEF Spec, IndicatorIsExact
=============================================================================
