---------------------------- MODULE PacketStream -----------------------------
(***************************************************************************)
(* What the receiver of RobotSerial promises of the ECU's packets, without *)
(* the bytes, the buffer and the polls that carry them: a stream that may  *)
(* lose packets and brings several at a time, but brings none before its   *)
(* last byte was sent, and none twice; all of them are counted.  While it  *)
(* is orderly it keeps their order, and publishes the latest of those that *)
(* come together.  FrameReceiver implements it.                            *)
(***************************************************************************)
EXTENDS Naturals, FiniteSets, FiniteSetsExt

VARIABLES
    sent,    \* packets sent so far: 1 .. sent
    taken,   \* those received
    count,   \* how many times one was counted
    last,    \* the one published last, 0 before the first
    orderly  \* nothing old is left where packets are gathered

streamVars == <<sent, taken, count, last, orderly>>

Init == sent = 0 /\ taken = {} /\ count = 0 /\ last = 0 /\ orderly = FALSE

Send ==
    /\ sent' = sent + 1
    /\ UNCHANGED <<taken, count, last, orderly>>

Turns ==
    /\ orderly' \in BOOLEAN
    /\ UNCHANGED <<sent, taken, count, last>>

Untaken == (1 .. sent) \ taken

Later == (last + 1) .. sent

Deliver ==
    \E together \in (SUBSET Untaken) \ {{}} :
        /\ taken' = taken \cup together
        /\ count' = count + Cardinality(together)
        /\ last' \in together
        /\ orderly => together \subseteq Later /\ last' = Max(together)
        /\ UNCHANGED <<sent, orderly>>

Next == Send \/ Turns \/ Deliver

Spec == Init /\ [][Next]_streamVars
=============================================================================
