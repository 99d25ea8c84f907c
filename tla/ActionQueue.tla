---------------------------- MODULE ActionQueue -----------------------------
(***************************************************************************)
(* What the ECU actions of RobotSerial promise to a client, without the    *)
(* frames, flags and timers that carry it out: one request is open at a    *)
(* time; it is put in the command at most MaxPuts times; it ends when an   *)
(* answer from the ECU is taken, or is given up after the last put.        *)
(* RobotActions implements it.                                             *)
(***************************************************************************)
EXTENDS Naturals

CONSTANTS
    Names,        \* the actions
    Values,       \* what a request carries
    MaxPuts       \* how often a request is put in the command

VARIABLES
    open,    \* the open request, as a set of at most one
    inbox    \* how many answers of the ECU wait to be taken

absVars == <<open, inbox>>

Init == open = {} /\ inbox = 0

\* A request is refused while one for another action is open; a new request
\* for the same action replaces it.
Accept(n, v) ==
    /\ \A r \in open : r.name = n
    /\ open' = {[name |-> n, value |-> v, puts |-> 1]}
    /\ UNCHANGED inbox

Repeat ==
    /\ \E r \in open :
        /\ r.puts < MaxPuts
        /\ open' = {[r EXCEPT !.puts = r.puts + 1]}
    /\ UNCHANGED inbox

GiveUp ==
    /\ \E r \in open : r.puts = MaxPuts
    /\ open' = {}
    /\ UNCHANGED inbox

Answered ==
    /\ inbox' < inbox
    /\ inbox' \in Nat
    /\ open' = {}

AnswerArrives == inbox' = inbox + 1 /\ UNCHANGED open

AnswerLost == inbox > 0 /\ inbox' = inbox - 1 /\ UNCHANGED open

Next ==
    \/ \E n \in Names, v \in Values : Accept(n, v)
    \/ Repeat
    \/ GiveUp
    \/ Answered
    \/ AnswerArrives
    \/ AnswerLost

Spec == Init /\ [][Next]_absVars
=============================================================================
