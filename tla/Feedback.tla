------------------------------- MODULE Feedback -------------------------------
(***************************************************************************)
(* What becomes of a feedback message.  packet_callback decodes whatever   *)
(* one read brought, which may be several packets, each replacing          *)
(* last_message_, and then publishes last_message_ once.  A message may    *)
(* carry a report of the gains, published on a latched topic, and a time   *)
(* synchronisation, which command_callback moves to last_command_, where   *)
(* it stays until a whole frame has carried it.                            *)
(*                                                                         *)
(* The callbacks run on one thread.  Messages are numbered in the order    *)
(* the ECU sends them; a synchronisation is the number of its message.     *)
(* What RobotActions says of last_command_ok is not repeated here.         *)
(***************************************************************************)
EXTENDS Naturals, Sequences

CONSTANTS
    MaxMessages,   \* messages received (a bound for TLC)
    MaxBad,        \* packets that give no message (a bound for TLC)
    MaxFails,      \* 200: failed transforms after which fake charging ends
    CountModulus   \* 256: fake_charging_fail_count_ is a uint8_t

ASSUME FeedbackAssumption ==
    /\ MaxMessages \in Nat /\ MaxBad \in Nat
    /\ MaxFails \in Nat /\ CountModulus \in Nat
    /\ MaxFails + 1 < CountModulus

None == 0

VARIABLES
    received,   \* good_packets_: messages decoded
    bad,        \* packets that were damaged or could not be parsed
    decoding,   \* packet_callback is between its read and publish_data
    last,       \* last_message_: its sync and its gains, None if absent
    ok,         \* last_message_ok_
    sync,       \* last_command_.sync
    connected,  \* connected_
    pid,        \* the report on the latched topic robot_base/pid
    charging,   \* the battery topic: "no", "ecu" or "fake"
    fails,      \* fake_charging_fail_count_
    published,  \* history: the messages published
    answered,   \* history: the synchronisations in whole frames
    report,     \* history: the last message with a report
    overtaken,  \* history: it was replaced before it was published
    gaveUp      \* history: fake charging has ended

battery == <<charging, fails, gaveUp>>
reports == <<pid, report, overtaken>>
vars    == <<received, bad, decoding, last, ok, sync, connected, published, answered,
             battery, reports>>

Messages == 1 .. MaxMessages

TypeOK ==
    /\ received \in 0 .. MaxMessages /\ bad \in 0 .. MaxBad
    /\ last \in [sync : 0 .. MaxMessages, gains : 0 .. MaxMessages]
    /\ sync \in 0 .. MaxMessages
    /\ pid \in 0 .. MaxMessages /\ report \in 0 .. MaxMessages
    /\ charging \in {"no", "ecu", "fake"}
    /\ fails \in 0 .. (CountModulus - 1)
    /\ published \in Seq(Messages) /\ answered \in Seq(Messages)
    /\ decoding \in BOOLEAN /\ ok \in BOOLEAN /\ connected \in BOOLEAN
    /\ overtaken \in BOOLEAN /\ gaveUp \in BOOLEAN

Starts(fresh) ==
    /\ received = 0 /\ bad = 0
    /\ decoding = FALSE
    /\ last = [sync |-> None, gains |-> None] /\ ok = fresh
    /\ sync = None
    /\ connected \in BOOLEAN
    /\ pid = None /\ report = None /\ overtaken = FALSE
    /\ charging = "no" /\ fails = 0 /\ gaveUp = FALSE
    /\ published = <<>> /\ answered = <<>>

InitFresh == Starts(TRUE)
Init == Starts(FALSE)

-----------------------------------------------------------------------------
\* packet_callback.

Poll ==
    /\ ~decoding
    /\ connected
    /\ decoding' = TRUE
    /\ UNCHANGED <<received, bad, last, ok, sync, connected, published, answered,
                   battery, reports>>

\* decode_buffer: a whole message takes the place of the last one, with all
\* that was left of it.
DecodeGood(hasSync, hasGains) ==
    LET m == received + 1 IN
    /\ decoding
    /\ received < MaxMessages
    /\ received' = m
    /\ last' = [sync  |-> IF hasSync THEN m ELSE None,
                gains |-> IF hasGains THEN m ELSE None]
    /\ ok' = TRUE
    /\ report' = IF hasGains THEN m ELSE report
    /\ overtaken' = (~hasGains /\ (overtaken \/ (ok /\ last.gains # None)))
    /\ UNCHANGED <<bad, decoding, sync, connected, pid, published, answered, battery>>

\* A bad packet undoes what the good one before it left.
DecodeBadClears == /\ decoding /\ bad < MaxBad
                   /\ bad' = bad + 1 /\ ok' = FALSE
                   /\ UNCHANGED <<received, decoding, last, sync, connected, published,
                                  answered, battery, reports>>

DecodeBad == /\ decoding /\ bad < MaxBad
             /\ bad' = bad + 1
             /\ UNCHANGED <<received, decoding, last, ok, sync, connected, published,
                            answered, battery, reports>>

\* fake_charging_status, asked when the ECU is not charging.  The count moves
\* only when the throttle lets the warning through.
Counted == IF fails + 1 = CountModulus THEN 0 ELSE fails + 1

Fakes == fails <= MaxFails

FakeCharging(place, due) ==
    /\ charging' = IF Fakes /\ place = "near" THEN "fake" ELSE "no"
    /\ fails' = IF Fakes /\ place = "unknown" /\ due
                THEN Counted ELSE fails

PublishBattery ==
    /\ \/ charging' = "ecu" /\ UNCHANGED fails
       \/ \E place \in {"near", "far", "unknown"}, due \in BOOLEAN : FakeCharging(place, due)
    /\ gaveUp' = (gaveUp \/ fails' > MaxFails)

Latched == IF last.gains # None THEN last.gains ELSE pid

Repeats == UNCHANGED ok
Spends == ok' = FALSE

\* publish_data: every topic, from the last message.
Publish ==
    /\ decoding
    /\ ok
    /\ decoding' = FALSE
    /\ Spends
    /\ published' = Append(published, received)
    /\ pid' = Latched
    /\ PublishBattery
    /\ UNCHANGED <<received, bad, last, sync, connected, answered, report, overtaken>>

NothingToPublish ==
    /\ decoding
    /\ ~ok
    /\ decoding' = FALSE
    /\ UNCHANGED <<received, bad, last, ok, sync, connected, published, answered,
                   battery, reports>>

-----------------------------------------------------------------------------
\* command_callback.

\* The synchronisation of last_message_ takes the place of one still waiting.
Moved == IF last.sync # None THEN last.sync ELSE sync

StaysInMessage == last' = last
LeavesMessage == last' = [last EXCEPT !.sync = None]

Tick ==
    /\ ~decoding
    /\ connected
    /\ LeavesMessage
    /\ UNCHANGED <<received, bad, decoding, ok, published, battery, reports>>

ClearCommand == sync' = None

\* bytes_written is compared with a length it never has.
WriteFullUnseen ==
    /\ Tick
    /\ sync' = Moved
    /\ UNCHANGED <<connected, answered>>

WriteFull ==
    /\ Tick
    /\ answered' = IF Moved # None THEN Append(answered, Moved) ELSE answered
    /\ ClearCommand
    /\ UNCHANGED connected

WritePartialClears ==
    /\ Tick
    /\ ClearCommand
    /\ UNCHANGED <<connected, answered>>

WritePartial ==
    /\ Tick
    /\ sync' = Moved
    /\ UNCHANGED <<connected, answered>>

\* An exception of the port, in a write or in a read.
WriteFails ==
    /\ Tick
    /\ sync' = Moved
    /\ connected' = FALSE
    /\ UNCHANGED answered

\* decode_buffer and publish_data still run.
ReadFails ==
    /\ ~decoding
    /\ connected
    /\ connected' = FALSE
    /\ decoding' = TRUE
    /\ UNCHANGED <<received, bad, last, ok, sync, published, answered, battery, reports>>

Reconnect ==
    /\ ~decoding
    /\ ~connected
    /\ connected' = TRUE
    /\ UNCHANGED <<received, bad, decoding, last, ok, sync, published, answered,
                   battery, reports>>

Next ==
    \/ Poll
    \/ \E hasSync, hasGains \in BOOLEAN : DecodeGood(hasSync, hasGains)
    \/ DecodeBad
    \/ Publish \/ NothingToPublish
    \/ WriteFull \/ WritePartial \/ WriteFails
    \/ ReadFails \/ Reconnect

Spec == Init /\ [][Next]_vars

\* The timers keep firing, and a port that is tried for ever works at times.
Fairness ==
    /\ WF_vars(Publish \/ NothingToPublish)
    /\ WF_vars(Reconnect)
    /\ SF_vars(WriteFull)

FairSpec == Spec /\ Fairness

-----------------------------------------------------------------------------
\* Properties.

Increasing(s) == \A i, j \in 1 .. Len(s) : i < j => s[i] < s[j]

\* No message is published twice, or after a later one, whatever the polls
\* that bring nothing, the damaged packets and the reconnections.
PublishedOnce == Increasing(published)

\* Between callbacks the newest message has been published: a damaged packet
\* behind it in the same read takes nothing away.
NewestIsPublished ==
    ~decoding /\ received > 0 =>
        published # <<>> /\ published[Len(published)] = received

\* README.md l. 57: robot_base/pid is "the gains the ECU last reported", unless
\* the same read brought another message behind the report.
PidIsReport == ~decoding /\ ~overtaken => pid = report

\* No synchronisation is answered twice or after a later one: it leaves
\* last_message_ when it is moved and last_command_ with a whole frame.
AnswersInOrder == Increasing(answered)

\* A synchronisation that waits in last_command_ leaves it for a newer one, or
\* with a whole frame, which then holds it or a newer one: not with a frame
\* written in part, an exception of the port or a reconnection.
WaitingIsKept ==
    [][sync # None => \/ sync' >= sync
                      \/ \E n \in sync .. received : answered' = Append(answered, n)]_vars

\* A synchronisation in last_command_ is answered, or a later one in its place.
WaitingIsAnswered == sync # None ~> sync = None

\* Once the count of failed transforms has passed its limit the battery is
\* shown as charging on the ECU's word alone, and the count does not wrap.
FakeChargingEnds == [][gaveUp /\ charging' = "fake" => charging = "fake"]_vars
=============================================================================
