------------------------- MODULE RobotActionsProofs -------------------------
(***************************************************************************)
(* Theorems about RobotActions for every retry limit, counter width, link  *)
(* length and set of requests.                                             *)
(***************************************************************************)
EXTENDS RobotActions, TLAPS

LEMMA FieldFacts ==
    /\ Actions \subseteq Fields
    /\ AckFault \in Fields
    /\ AckFault \notin Actions
    /\ "none" \notin Fields
    /\ Unset \notin Data
    /\ NoFrame \in Frames
    /\ NoActions \in [Fields -> Data \cup {Unset}]
BY DEF Actions, Fields, AckFault, Data, Unset, NoFrame, Frames, NoActions

LEMMA IdleFacts ==
    /\ Idle \in RosType /\ Idle.at \notin Holding /\ Idle.at = "idle" /\ Idle.ended = 0
    /\ \A p \in Places :
          /\ [Idle EXCEPT !.at = p] \in RosType
          /\ [Idle EXCEPT !.at = p].at = p
          /\ [Idle EXCEPT !.at = p].ended = 0
    /\ [Idle EXCEPT !.at = "end", !.to = "serialise"] \in RosType
    /\ [Idle EXCEPT !.at = "end", !.to = "serialise"].at = "end"
    /\ [Idle EXCEPT !.at = "end", !.to = "serialise"].ended = 0
<1>1. 0 \in 0 .. (SentModulus - 1)
  BY RetryAssumption
<1>2. Idle \in RosType /\ Idle.at \notin Holding /\ Idle.at = "idle" /\ Idle.ended = 0
  BY <1>1 DEF Idle, RosType, Places, Holding
<1>3. ASSUME NEW p \in Places
      PROVE  /\ [Idle EXCEPT !.at = p] \in RosType
             /\ [Idle EXCEPT !.at = p].at = p
             /\ [Idle EXCEPT !.at = p].ended = 0
  BY <1>1 DEF Idle, RosType, Places
<1>4. LET e == [Idle EXCEPT !.at = "end", !.to = "serialise"]
      IN  e \in RosType /\ e.at = "end" /\ e.ended = 0
  BY <1>2 DEF RosType, Places
<1>5. QED
  BY <1>2, <1>3, <1>4

\* With something queued, manage_robot_actions has a current action.
LEMMA CurrentIsQueued ==
    ASSUME NEW Q \in SUBSET Actions, Q # {}
    PROVE  \E a \in Q : \A b \in Q : Rank[b] <= Rank[a]
<1>1. CASE "Reboot" \in Q
  BY <1>1 DEF Actions, Rank
<1>2. CASE "Reboot" \notin Q /\ "EmergencyStop" \in Q
  BY <1>2 DEF Actions, Rank
<1>3. CASE Q \subseteq {"JumpToBoot", "EnterStandBy"} /\ "EnterStandBy" \in Q
  BY <1>3 DEF Rank
<1>4. CASE Q = {"JumpToBoot"}
  BY <1>4 DEF Rank
<1>5. QED
  BY <1>1, <1>2, <1>3, <1>4 DEF Actions

LEMMA CurrentType ==
    ASSUME queued \subseteq Actions, queued # {}
    PROVE  Current \in queued
BY CurrentIsQueued DEF Current

LEMMA WrapStays ==
    ASSUME NEW n \in Nat, NEW m \in Nat, m > 0
    PROVE  n % m \in 0 .. (m - 1)
BY Z3

-----------------------------------------------------------------------------
\* The types.

LEMMA TypeStarts == ASSUME Init PROVE TypeOK
<1>1. queued \subseteq Actions /\ confirmed \subseteq Actions
  BY GarbageAssumption DEF Init
<1>2. puts \in [Actions -> 0 .. (MaxPuts + 1)]
  BY RetryAssumption DEF Init, MaxPuts
<1>3. ros \in RosType /\ ros.at \notin Holding
  BY IdleFacts DEF Init, Holding
<1>4. QED
  BY <1>1, <1>2, <1>3, FieldFacts, LinkAssumption DEF Init, TypeOK

LEMMA HandlerChecks ==
    ASSUME Handler
    PROVE  \E t \in Threads, f \in Fields, d \in Data :
              Check(t, f, d) /\ (f \in Actions => FreeFor(f))
BY ThreadsAssumption, FieldFacts
   DEF Handler, JumpToBoot, EnterStandBy, EmergencyStop, Reboot, AcknowledgeFault, Data,
       Actions, Fields

LEMMA HandlerTypes == ASSUME TypeOK, Handler PROVE TypeOK'
<1>1. PICK t \in Threads, f \in Fields, d \in Data : Check(t, f, d)
  BY HandlerChecks
<1>2. pending' \in [Threads -> Request \cup {NoRequest}]
  BY <1>1 DEF Check, TypeOK, Request, Writes
<1>3. QED
  BY <1>1, <1>2 DEF Check, TypeOK, status, command, link

\* What a passed check left to be written.
LEMMA RequestParts ==
    ASSUME TypeOK, NEW t \in Threads, pending[t] # NoRequest
    PROVE  pending[t] \in Request /\ pending[t].field \in Fields /\ pending[t].data \in Data
BY DEF TypeOK, Request

LEMMA RosRequestParts ==
    ASSUME TypeOK, pending["ros"].field \in Fields
    PROVE  pending["ros"].data \in Data
BY ThreadsAssumption, FieldFacts, RequestParts DEF NoRequest

LEMMA PutsTypes ==
    ASSUME TypeOK, NEW S
    PROVE  /\ PutMore(S) \in [Actions -> 0 .. (MaxPuts + 1)]
           /\ \A f \in Fields : PutFirst(f) \in [Actions -> 0 .. (MaxPuts + 1)]
BY RetryAssumption DEF TypeOK, PutMore, PutFirst, MaxPuts

LEMMA CommitTypes == ASSUME TypeOK, Commit PROVE TypeOK'
<1>1. pending' \in [Threads -> Request \cup {NoRequest}]
  BY DEF TypeOK, Commit, CommitAction, CommitAckFault
<1>2. CASE CommitAction
  <2>1. pending["ros"].field \in Actions /\ pending["ros"].data \in Data
    BY <1>2, RosRequestParts, FieldFacts DEF CommitAction
  <2>2. puts' \in [Actions -> 0 .. (MaxPuts + 1)]
    BY <1>2, <2>1, PutsTypes, FieldFacts DEF CommitAction
  <2>3. QED
    BY <1>1, <1>2, <2>1, <2>2, FieldFacts, RetryAssumption
       DEF CommitAction, Queue, TypeOK, States, link
<1>3. CASE CommitAckFault
  BY <1>1, <1>3, FieldFacts DEF CommitAckFault, TypeOK, status, link, Data
<1>4. QED
  BY <1>2, <1>3 DEF Commit

\* The websocket thread has passed a check and writes.
LEMMA GuiParts ==
    ASSUME TypeOK, NEW w \in Writes, NEW then \in Writes \cup {"done"}, GuiWrites(w, then)
    PROVE  /\ "gui" \in Threads /\ Gui.field \in Fields /\ Gui.data \in Data
           /\ pending' \in [Threads -> Request \cup {NoRequest}]
           /\ pending'["ros"] = pending["ros"]
           /\ Gui' = IF then = "done" THEN NoRequest ELSE [Gui EXCEPT !.next = then]
           /\ UNCHANGED <<connected, ros, frame, link>>
<1>1. "gui" \in Threads /\ Gui \in Request
  BY RequestParts DEF GuiWrites, Gui
<1>2. pending' = [pending EXCEPT !["gui"] =
                     IF then = "done" THEN NoRequest ELSE [Gui EXCEPT !.next = then]]
  BY DEF GuiWrites
<1>3. then # "done" => [Gui EXCEPT !.next = then] \in Request
  BY <1>1 DEF Request
<1>4. QED
  BY <1>1, <1>2, <1>3 DEF GuiWrites, Request, TypeOK, Gui

\* Its field is an action's, once it is past the field of last_command_.
GuiPastField == \A t \in Threads : pending[t].next # "field" => pending[t].field \in Actions

LEMMA GuiTypes == ASSUME TypeOK, GuiPastField, GuiStep PROVE TypeOK' /\ GuiPastField'
<1>1. CASE GuiPuts
  <2>1. /\ GuiWrites("field", IF Gui.field = AckFault THEN "done" ELSE "state")
        /\ actions' = [actions EXCEPT ![Gui.field] = Gui.data]
        /\ UNCHANGED <<status, state>>
    BY <1>1 DEF GuiPuts
  <2>2. CASE Gui.field = AckFault
    <3>1. GuiWrites("field", "done")
      BY <2>1, <2>2
    <3>2. /\ Gui.field \in Fields /\ Gui.data \in Data /\ Gui' = NoRequest
          /\ pending' \in [Threads -> Request \cup {NoRequest}]
          /\ pending'["ros"] = pending["ros"]
          /\ UNCHANGED <<connected, ros, frame, link>>
      BY <3>1, GuiParts DEF Writes
    <3>3. TypeOK'
      BY <2>1, <3>2, FieldFacts DEF TypeOK, status, link
    <3>4. GuiPastField'
      BY <3>2, ThreadsAssumption DEF GuiPastField, NoRequest, Gui
    <3>5. QED
      BY <3>3, <3>4
  <2>3. CASE Gui.field # AckFault
    <3>1. GuiWrites("field", "state")
      BY <2>1, <2>3
    <3>2. /\ Gui.field \in Fields /\ Gui.data \in Data
          /\ Gui' = [Gui EXCEPT !.next = "state"]
          /\ pending' \in [Threads -> Request \cup {NoRequest}]
          /\ pending'["ros"] = pending["ros"]
          /\ UNCHANGED <<connected, ros, frame, link>>
      BY <3>1, GuiParts DEF Writes
    <3>3. Gui'.field = Gui.field
      BY <3>1, <3>2, RequestParts DEF GuiWrites, Gui, Request
    <3>4. TypeOK'
      BY <2>1, <3>2, FieldFacts DEF TypeOK, status, link
    <3>5. GuiPastField'
      BY <2>3, <3>2, <3>3, ThreadsAssumption DEF GuiPastField, Gui, Fields
    <3>6. QED
      BY <3>4, <3>5
  <2>4. QED
    BY <2>2, <2>3
<1>2. ASSUME NEW w \in Writes \ {"field"}, NEW then \in (Writes \ {"field"}) \cup {"done"},
             GuiWrites(w, then)
      PROVE  /\ Gui.field \in Actions /\ Gui.data \in Data /\ GuiPastField'
             /\ pending' \in [Threads -> Request \cup {NoRequest}]
             /\ UNCHANGED <<connected, ros, frame, link>>
  <2>1. Gui.field \in Actions
    BY <1>2 DEF GuiWrites, GuiPastField, Gui
  <2>2. GuiPastField'
    BY <1>2, <2>1 DEF GuiWrites, GuiPastField, Gui, NoRequest, TypeOK
  <2>3. QED
    BY <1>2, <2>1, <2>2, GuiParts
<1>3. CASE GuiSetsState
  BY <1>2, <1>3 DEF GuiSetsState, Writes, TypeOK, status, link, States
<1>4. CASE GuiActivates
  BY <1>2, <1>4 DEF GuiActivates, Writes, TypeOK, command, link
<1>5. CASE GuiUnconfirms
  BY <1>2, <1>5 DEF GuiUnconfirms, Writes, TypeOK, command, link
<1>6. CASE GuiCounts
  BY <1>2, <1>6, RetryAssumption DEF GuiCounts, Writes, TypeOK, command, link
<1>7. CASE GuiSetsData
  BY <1>2, <1>7 DEF GuiSetsData, Writes, TypeOK, command, link
<1>8. CASE GuiStamps
  BY <1>2, <1>8 DEF GuiStamps, Writes, TypeOK, command, link
<1>9. QED
  BY <1>1, <1>3, <1>4, <1>5, <1>6, <1>7, <1>8 DEF GuiStep

LEMMA RosTypes == ASSUME TypeOK, CommandTick \/ RosStep PROVE TypeOK'
<1> DEFINE RosOK == ros \in RosType /\ (ros.at \in Holding => ros.current \in Actions)
<1>1. RosOK
  BY DEF TypeOK
<1>2. Places = {"idle", "serialise", "sending", "end"} \cup Holding
  BY DEF Places, Holding
<1>3. ASSUME RosOK', UNCHANGED <<status, command, connected, pending, link>>, frame' \in Frames
      PROVE  TypeOK'
  BY <1>3 DEF TypeOK, RosType, Holding, status, command, link
<1>4. CASE CommandTick
  <2>1. queued # {} => Current \in Actions
    BY CurrentType DEF TypeOK
  <2>2. RosOK'
    BY <1>1, <1>4, <2>1 DEF CommandTick, Manages, RosType, Holding, Places
  <2>3. QED
    BY <1>3, <1>4, <2>2 DEF CommandTick, Manages, TypeOK
<1>5. CASE TestExpired
  <2>1. RosOK'
    BY <1>1, <1>5, IdleFacts DEF TestExpired, At, RosType, Holding, Places
  <2>2. QED
    BY <1>3, <1>5, <2>1 DEF TestExpired, TypeOK
<1>6. CASE PutAgain
  <2>1. ros.current \in Actions /\ data[ros.current] \in Data
        /\ sent[ros.current] \in 0 .. (SentModulus - 1)
    <3>1. ros.current \in Actions
      BY <1>1, <1>6 DEF PutAgain, At, Holding
    <3>2. QED
      BY <3>1 DEF TypeOK
  <2>2. RosOK'
    <3>1. ros' = [ros EXCEPT !.at = "count", !.count = sent[ros.current]]
      BY <1>6 DEF PutAgain
    <3>2. QED
      BY <1>1, <2>1, <3>1 DEF RosType, Places
  <2>3. actions' \in [Fields -> Data \cup {Unset}]
    BY <1>6, <2>1 DEF PutAgain, TypeOK
  <2>4. puts' \in [Actions -> 0 .. (MaxPuts + 1)]
    BY <1>6, PutsTypes DEF PutAgain
  <2>5. QED
    BY <1>6, <2>2, <2>3, <2>4 DEF PutAgain, TypeOK, link
<1>7. CASE CountAttempt
  <2>1. ros.current \in Actions /\ ros.count \in 0 .. (SentModulus - 1)
    BY <1>1, <1>7 DEF CountAttempt, At, Holding, RosType
  <2>2. (ros.count + 1) % SentModulus \in 0 .. (SentModulus - 1)
    BY <2>1, RetryAssumption, WrapStays
  <2>3. RosOK'
    <3>1. ros' = [ros EXCEPT !.at = "compare", !.count = 0]
      BY <1>7 DEF CountAttempt
    <3>2. 0 \in 0 .. (SentModulus - 1)
      BY RetryAssumption
    <3>3. QED
      BY <1>1, <2>1, <3>1, <3>2 DEF RosType, Places
  <2>4. QED
    BY <1>7, <2>1, <2>2, <2>3 DEF CountAttempt, TypeOK, command, link
<1>8. CASE CompareRetries
  <2>1. RosOK'
    BY <1>2, <1>8, IdleFacts DEF CompareRetries, Holding, Idle
  <2>2. QED
    BY <1>3, <1>8, <2>1 DEF CompareRetries, TypeOK
<1>9. CASE Ends
  <2>1. ros.ended \in 0 .. 7 /\ ros.to \in Places \ Holding
    BY <1>1, <1>2 DEF RosType, Holding
  <2>2. RosOK'
    <3>1. CASE ros.ended < 7
      BY <1>1, <1>9, <2>1, <3>1 DEF Ends, At, RosType, Holding
    <3>2. CASE ~(ros.ended < 7)
      BY <1>9, <2>1, <3>2, IdleFacts DEF Ends, Holding
    <3>3. QED
      BY <3>1, <3>2
  <2>3. queued' \subseteq Actions /\ confirmed' \subseteq Actions
    <3>1. CASE ros.ended < 4
      BY <1>9, <3>1 DEF Ends, TypeOK
    <3>2. CASE ~(ros.ended < 4)
      <4>1. ros.ended - 3 \in 1 .. 4
        BY <2>1, <3>2
      <4>2. Order[ros.ended - 3] \in Actions
        BY <4>1 DEF Order, Actions
      <4>3. QED
        BY <1>9, <3>2, <4>2 DEF Ends, TypeOK
    <3>3. QED
      BY <3>1, <3>2
  <2>4. QED
    BY <1>9, <2>2, <2>3 DEF Ends, TypeOK, command, link
<1>10. CASE Serialise
  <2>1. RosOK' /\ frame' \in Frames
    <3>1. frame' \in Frames
      BY <1>10 DEF Serialise, Frames, TypeOK
    <3>2. QED
      BY <1>2, <1>10, <3>1, IdleFacts DEF Serialise, Holding
  <2>2. QED
    BY <1>3, <1>10, <2>1 DEF Serialise
<1>11. QED
  BY <1>4, <1>5, <1>6, <1>7, <1>8, <1>9, <1>10 DEF RosStep

\* The steps that leave the status structs, the requests and ros alone, or go
\* back to Idle.
LEMMA OtherTypes ==
    ASSUME TypeOK,
           \/ Write \/ ReadFails \/ Reconnect \/ Environment
           \/ \E s \in {"DOCKING", "AUTO"} : ToggleDockingMode(s)
           \/ \E a \in Actions : TimePasses(a)
           \/ \E n \in 1 .. MaxLink : Receive(n)
    PROVE  TypeOK'
<1>1. CASE WriteFull
  <2>1. toEcu' \in 0 .. MaxLink
    BY <1>1, LinkAssumption DEF WriteFull, SentWhole, TypeOK
  <2>2. ros' = Idle /\ Idle.at \notin Holding
    BY <1>1, IdleFacts DEF WriteFull, EndTick, Holding
  <2>3. QED
    BY <1>1, <2>1, <2>2, FieldFacts, IdleFacts
       DEF WriteFull, EndTick, ClearCommand, TypeOK, status
<1>2. CASE WritePartial \/ WriteFails
  <2>1. ros' = Idle /\ Idle.at \notin Holding
    BY <1>2, IdleFacts DEF WritePartial, WriteFails, EndTick, Holding
  <2>2. QED
    BY <1>2, <2>1, FieldFacts, IdleFacts
       DEF WritePartial, WriteFails, EndTick, TypeOK, status, command, link
<1>3. CASE ReadFails \/ Reconnect
  BY <1>3 DEF ReadFails, Reconnect, TypeOK, status, command, link
<1>4. CASE Environment
  <2>1. toEcu' \in 0 .. MaxLink /\ fromEcu' \in 0 .. MaxLink
    BY <1>4, LinkAssumption
       DEF Environment, EcuAnswers, EcuAnswersOther, LoseFrame, LoseAnswer, TypeOK
  <2>2. UNCHANGED <<status, command, connected, pending, ros, frame>>
    BY <1>4 DEF Environment, EcuAnswers, EcuAnswersOther, LoseFrame, LoseAnswer, OnTheWire
  <2>3. QED
    BY <2>1, <2>2 DEF TypeOK, status, command
<1>5. ASSUME NEW s \in {"DOCKING", "AUTO"}, ToggleDockingMode(s) PROVE TypeOK'
  BY <1>5 DEF ToggleDockingMode, TypeOK, status, link, States
<1>6. ASSUME NEW a \in Actions, TimePasses(a) PROVE TypeOK'
  BY <1>6 DEF TimePasses, TypeOK, command, link
<1>7. ASSUME NEW n \in 1 .. MaxLink, Receive(n) PROVE TypeOK'
  <2>1. fromEcu' \in 0 .. MaxLink
    BY <1>7, LinkAssumption DEF Receive, TypeOK
  <2>2. ros' \in RosType /\ ros'.at \notin Holding
    BY <1>7, IdleFacts DEF Receive, Holding, Places
  <2>3. QED
    BY <1>7, <2>1, <2>2 DEF Receive, TypeOK, status, command
<1>8. QED
  BY <1>1, <1>2, <1>3, <1>4, <1>5, <1>6, <1>7 DEF Write

LEMMA PastFieldStarts == ASSUME Init PROVE GuiPastField
BY DEF Init, GuiPastField, NoRequest

LEMMA PastFieldStays ==
    ASSUME TypeOK, GuiPastField,
           Handler \/ Commit \/ UNCHANGED pending
    PROVE  GuiPastField'
<1>1. CASE Handler
  <2>1. PICK t \in Threads, f \in Fields, d \in Data : Check(t, f, d)
    BY <1>1, HandlerChecks
  <2>2. QED
    BY <2>1 DEF Check, GuiPastField, TypeOK
<1>2. CASE Commit
  BY <1>2 DEF Commit, CommitAction, CommitAckFault, GuiPastField, NoRequest, TypeOK
<1>3. CASE UNCHANGED pending
  BY <1>3 DEF GuiPastField
<1>4. QED
  BY <1>1, <1>2, <1>3

LEMMA NextParts ==
    ASSUME [Next]_vars
    PROVE  \/ Handler \/ Commit \/ GuiStep
           \/ CommandTick \/ RosStep \/ Write \/ ReadFails \/ Reconnect \/ Environment
           \/ \E s \in {"DOCKING", "AUTO"} : ToggleDockingMode(s)
           \/ \E a \in Actions : TimePasses(a)
           \/ \E n \in 1 .. MaxLink : Receive(n)
           \/ UNCHANGED vars
BY DEF Next

LEMMA TypeStep == ASSUME TypeOK, GuiPastField, [Next]_vars PROVE TypeOK' /\ GuiPastField'
<1>1. CASE Handler \/ Commit
  BY <1>1, HandlerTypes, CommitTypes, PastFieldStays
<1>2. CASE GuiStep
  BY <1>2, GuiTypes
<1>3. CASE CommandTick \/ RosStep
  <2>1. UNCHANGED pending
    BY <1>3 DEF CommandTick, Manages, RosStep, TestExpired, PutAgain, CountAttempt,
         CompareRetries, Ends, Serialise
  <2>2. QED
    BY <1>3, <2>1, RosTypes, PastFieldStays
<1>4. CASE \/ Write \/ ReadFails \/ Reconnect \/ Environment
           \/ \E s \in {"DOCKING", "AUTO"} : ToggleDockingMode(s)
           \/ \E a \in Actions : TimePasses(a)
           \/ \E n \in 1 .. MaxLink : Receive(n)
  <2>1. UNCHANGED pending
    BY <1>4 DEF Write, WriteFull, WritePartial, WriteFails, ReadFails, Reconnect,
         Environment, EcuAnswers, EcuAnswersOther, LoseFrame, LoseAnswer, OnTheWire,
         ToggleDockingMode, TimePasses, Receive
  <2>2. QED
    BY <1>4, <2>1, OtherTypes, PastFieldStays
<1>5. CASE UNCHANGED vars
  BY <1>5 DEF vars, status, command, link, TypeOK, GuiPastField
<1>6. QED
  BY <1>1, <1>2, <1>3, <1>4, <1>5, NextParts

\* The variables keep their types in every behaviour, whatever the threads
\* and the garbage.
THEOREM TypeCorrect == Spec => []TypeOK
<1>1. Init => TypeOK /\ GuiPastField
  BY TypeStarts, PastFieldStarts
<1>2. TypeOK /\ GuiPastField /\ [Next]_vars => TypeOK' /\ GuiPastField'
  BY TypeStep
<1>3. QED
  BY <1>1, <1>2, PTL DEF Spec

-----------------------------------------------------------------------------
(***************************************************************************)
(* What clear_command takes out.  While a frame is being sent, the command *)
(* holds more than the frame only where the websocket thread wrote, and it *)
(* then marks the action active and unconfirmed; nothing but the ROS       *)
(* thread, which is in the write, takes that back.                         *)
(***************************************************************************)
Busy == ros.at # "idle" => pending["ros"] = NoRequest

Underway(f) ==
    /\ IsBeingQueued(f)
    /\ Gui.next \in {"confirmed", "sent", "data", "stamp"} => f \in queued
    /\ Gui.next \in {"sent", "data", "stamp"} => f \notin confirmed

Carried(f) ==
    \/ frame.actions[f] = actions[f]
    \/ f = AckFault /\ "gui" \in Threads
    \/ f \in queued \ confirmed
    \/ Underway(f)

FrameFollows == At("sending") => \A f \in Fields : Carried(f)

ClearInv == TypeOK /\ GuiPastField /\ Busy /\ FrameFollows

LEMMA ClearStarts == ASSUME Init PROVE ClearInv
<1>1. Busy /\ FrameFollows
  BY IdleFacts DEF Init, Busy, FrameFollows, At
<1>2. QED
  BY <1>1, TypeStarts, PastFieldStarts DEF ClearInv

\* The ROS thread does one thing at a time.
LEMMA BusyStays == ASSUME TypeOK, Busy, [Next]_vars PROVE Busy'
<1>1. CASE Handler
  <2>1. PICK t \in Threads, f \in Fields, d \in Data : Check(t, f, d)
    BY <1>1, HandlerChecks
  <2>2. CASE t = "ros"
    BY <2>1, <2>2, IdleFacts DEF Check, IsFree, RosIsFree, Busy
  <2>3. CASE t # "ros"
    BY <2>1, <2>3 DEF Check, Busy
  <2>4. QED
    BY <2>2, <2>3
<1>2. CASE Commit
  BY <1>2, ThreadsAssumption
     DEF Commit, CommitAction, CommitAckFault, Busy, TypeOK, NoRequest
<1>3. CASE GuiStep
  <2>1. UNCHANGED ros /\ pending'["ros"] = pending["ros"]
    BY <1>3, ThreadsAssumption
       DEF GuiStep, GuiPuts, GuiSetsState, GuiActivates, GuiUnconfirms, GuiCounts,
         GuiSetsData, GuiStamps, GuiWrites, TypeOK
  <2>2. QED
    BY <2>1 DEF Busy
<1>4. CASE CommandTick \/ ReadFails \/ Reconnect \/ \E n \in 1 .. MaxLink : Receive(n)
  BY <1>4 DEF CommandTick, Manages, ReadFails, Reconnect, Receive, RosIsFree, Busy
<1>5. CASE RosStep
  <2>1. UNCHANGED pending
    BY <1>5 DEF RosStep, TestExpired, PutAgain, CountAttempt, CompareRetries, Ends, Serialise
  <2>2. ros.at # "idle"
    BY <1>5 DEF RosStep, TestExpired, PutAgain, CountAttempt, CompareRetries, Ends,
         Serialise, At
  <2>3. QED
    BY <2>1, <2>2 DEF Busy
<1>6. CASE Write
  BY <1>6, IdleFacts DEF Write, WriteFull, WritePartial, WriteFails, EndTick, Busy, At
<1>7. CASE \/ Environment \/ UNCHANGED vars
           \/ \E s \in {"DOCKING", "AUTO"} : ToggleDockingMode(s)
           \/ \E a \in Actions : TimePasses(a)
  BY <1>7 DEF Environment, EcuAnswers, EcuAnswersOther, LoseFrame, LoseAnswer, OnTheWire,
       ToggleDockingMode, TimePasses, vars, Busy
<1>8. QED
  BY <1>1, <1>2, <1>3, <1>4, <1>5, <1>6, <1>7, NextParts

LEMMA FrameStays ==
    ASSUME ClearInv, UNCHANGED <<queued, confirmed, actions, frame, ros>>,
           "gui" \in Threads => Gui' = Gui \/ Gui = NoRequest
    PROVE  FrameFollows'
BY FieldFacts
   DEF ClearInv, FrameFollows, At, Carried, Underway, IsBeingQueued, NoRequest, Gui

LEMMA GuiFollows == ASSUME ClearInv, GuiStep PROVE FrameFollows'
<1> SUFFICES ASSUME At("sending"), NEW f \in Fields PROVE Carried(f)'
  BY DEF FrameFollows, At, GuiStep, GuiPuts, GuiSetsState, GuiActivates, GuiUnconfirms,
       GuiCounts, GuiSetsData, GuiStamps, GuiWrites
<1>1. Carried(f)
  BY DEF ClearInv, FrameFollows
<1>2. ASSUME NEW w \in Writes, NEW then \in Writes \cup {"done"}, GuiWrites(w, then)
      PROVE  /\ "gui" \in Threads /\ Gui.next = w /\ frame' = frame
             /\ then # "done" => Gui'.field = Gui.field /\ Gui'.next = then
             /\ w # "field" => Gui.field # AckFault
  <2>1. Gui \in Request /\ Gui' = IF then = "done" THEN NoRequest ELSE [Gui EXCEPT !.next = then]
    BY <1>2, GuiParts, RequestParts DEF ClearInv, GuiWrites, Gui
  <2>2. w # "field" => Gui.field # AckFault
    BY <1>2, FieldFacts DEF ClearInv, GuiPastField, GuiWrites, Gui
  <2>3. QED
    BY <1>2, <2>1, <2>2 DEF GuiWrites, Request
<1>3. CASE GuiPuts
  <2>1. CASE Gui.field = AckFault
    <3>1. GuiWrites("field", "done")
      BY <1>3, <2>1 DEF GuiPuts
    <3>2. f # AckFault => actions'[f] = actions[f]
      BY <1>3, <2>1 DEF GuiPuts, ClearInv, TypeOK
    <3>3. "gui" \in Threads /\ frame' = frame /\ UNCHANGED <<queued, confirmed>>
      BY <1>2, <1>3, <3>1 DEF GuiPuts, status, Writes
    <3>4. QED
      BY <1>1, <2>1, <3>2, <3>3 DEF Carried, Underway, IsBeingQueued
  <2>2. CASE Gui.field # AckFault
    <3>1. GuiWrites("field", "state")
      BY <1>3, <2>2 DEF GuiPuts
    <3>2. f # Gui.field => actions'[f] = actions[f]
      BY <1>3 DEF GuiPuts, ClearInv, TypeOK
    <3>3. /\ "gui" \in Threads /\ frame' = frame /\ UNCHANGED <<queued, confirmed>>
          /\ Gui'.field = Gui.field /\ Gui'.next = "state"
      BY <1>2, <1>3, <3>1 DEF GuiPuts, status, Writes
    <3>4. CASE f = Gui.field
      BY <3>3, <3>4 DEF Carried, Underway, IsBeingQueued
    <3>5. CASE f # Gui.field
      BY <1>1, <3>2, <3>3, <3>5 DEF Carried, Underway, IsBeingQueued
    <3>6. QED
      BY <3>4, <3>5
  <2>3. QED
    BY <2>1, <2>2
<1>4. CASE GuiSetsState
  BY <1>1, <1>2, <1>4 DEF GuiSetsState, Writes, status, Carried, Underway, IsBeingQueued
<1>5. CASE GuiActivates
  BY <1>1, <1>2, <1>5 DEF GuiActivates, Writes, command, Carried, Underway, IsBeingQueued
<1>6. CASE GuiUnconfirms
  BY <1>1, <1>2, <1>6 DEF GuiUnconfirms, Writes, command, Carried, Underway, IsBeingQueued
<1>7. CASE GuiCounts
  BY <1>1, <1>2, <1>7 DEF GuiCounts, Writes, command, Carried, Underway, IsBeingQueued
<1>8. CASE GuiSetsData
  BY <1>1, <1>2, <1>8 DEF GuiSetsData, Writes, command, Carried, Underway, IsBeingQueued
<1>9. CASE GuiStamps
  BY <1>1, <1>2, <1>9 DEF GuiStamps, Writes, command, Carried, Underway, IsBeingQueued
<1>10. QED
  BY <1>3, <1>4, <1>5, <1>6, <1>7, <1>8, <1>9 DEF GuiStep

LEMMA FollowsStays == ASSUME ClearInv, [Next]_vars PROVE FrameFollows'
<1>1. CASE Handler
  <2>1. PICK t \in Threads, f \in Fields, d \in Data : Check(t, f, d)
    BY <1>1, HandlerChecks
  <2>2. "gui" \in Threads => Gui' = Gui \/ Gui = NoRequest
    BY <2>1 DEF Check, IsFree, Gui, ClearInv, TypeOK
  <2>3. QED
    BY <2>1, <2>2, FrameStays DEF Check, status, command
<1>2. CASE Commit
  <2>1. ~At("sending")
    BY <1>2, FieldFacts
       DEF Commit, CommitAction, CommitAckFault, ClearInv, Busy, NoRequest, At
  <2>2. QED
    BY <1>2, <2>1 DEF Commit, CommitAction, CommitAckFault, FrameFollows, At
<1>3. CASE GuiStep
  BY <1>3, GuiFollows
<1>4. CASE RosStep
  <2>1. CASE Serialise
    BY <2>1, FieldFacts, IdleFacts
       DEF Serialise, FrameFollows, Carried, At, command, ClearInv, TypeOK
  <2>2. CASE CompareRetries \/ TestExpired
    <3>1. ros'.at \in {"put", "serialise", "end"}
      <4>1. CASE TestExpired
        BY <4>1, IdleFacts DEF TestExpired, At, ClearInv, TypeOK, RosType, Places
      <4>2. CASE CompareRetries
        BY <4>2, IdleFacts DEF CompareRetries, Places
      <4>3. QED
        BY <2>2, <4>1, <4>2
    <3>2. QED
      BY <3>1 DEF FrameFollows, At
  <2>3. CASE PutAgain
    BY <2>3 DEF PutAgain, FrameFollows, At, ClearInv, TypeOK, RosType
  <2>4. CASE CountAttempt
    BY <2>4 DEF CountAttempt, FrameFollows, At, ClearInv, TypeOK, RosType
  <2>5. CASE Ends
    <3>1. ros'.at = "end" \/ ros'.at = ros.to
      BY <2>5, IdleFacts DEF Ends, At, ClearInv, TypeOK, RosType, Places
    <3>2. QED
      BY <3>1 DEF FrameFollows, At, ClearInv, TypeOK, RosType
  <2>6. QED
    BY <1>4, <2>1, <2>2, <2>3, <2>4, <2>5 DEF RosStep
<1>5. CASE CommandTick \/ Write \/ \E n \in 1 .. MaxLink : Receive(n)
  <2>1. CASE CommandTick
    BY <2>1, IdleFacts DEF CommandTick, Manages, FrameFollows, At, ClearInv, TypeOK,
         RosType, Places
  <2>2. CASE Write \/ \E n \in 1 .. MaxLink : Receive(n)
    BY <2>2, IdleFacts DEF Write, WriteFull, WritePartial, WriteFails, EndTick, Receive,
         FrameFollows, At, Places
  <2>3. QED
    BY <1>5, <2>1, <2>2
<1>6. CASE \/ ReadFails \/ Reconnect \/ Environment \/ UNCHANGED vars
           \/ \E s \in {"DOCKING", "AUTO"} : ToggleDockingMode(s)
           \/ \E a \in Actions : TimePasses(a)
  <2>1. UNCHANGED <<queued, confirmed, actions, frame, ros, pending>>
    BY <1>6 DEF ReadFails, Reconnect, Environment, EcuAnswers, EcuAnswersOther, LoseFrame,
         LoseAnswer, OnTheWire, ToggleDockingMode, TimePasses, vars, status, command
  <2>2. QED
    BY <2>1, FrameStays DEF Gui
<1>7. QED
  BY <1>1, <1>2, <1>3, <1>4, <1>5, <1>6, NextParts

LEMMA ClearStays == ASSUME ClearInv, [Next]_vars PROVE ClearInv'
BY TypeStep, BusyStays, FollowsStays DEF ClearInv

\* Nothing but a whole write makes a field unset.
LEMMA OnlyWholeWriteClears ==
    ASSUME ClearInv, [Next]_vars, ~WriteFull, NEW f \in Fields, actions[f] # Unset
    PROVE  actions'[f] # Unset
<1>1. CASE Commit
  <2>1. pending["ros"].field \in Fields
    BY <1>1, FieldFacts DEF Commit, CommitAction, CommitAckFault
  <2>2. pending["ros"].data # Unset
    BY <2>1, RosRequestParts, FieldFacts DEF ClearInv
  <2>3. CASE CommitAction
    BY <2>2, <2>3 DEF CommitAction, ClearInv, TypeOK
  <2>4. CASE CommitAckFault
    BY <2>4 DEF CommitAckFault, ClearInv, TypeOK, Unset
  <2>5. QED
    BY <1>1, <2>3, <2>4 DEF Commit
<1>2. CASE GuiStep
  <2>1. CASE GuiPuts
    <3>1. Gui.data # Unset
      BY <2>1, RequestParts, FieldFacts DEF GuiPuts, GuiWrites, Gui, ClearInv
    <3>2. QED
      BY <2>1, <3>1 DEF GuiPuts, ClearInv, TypeOK
  <2>2. CASE ~GuiPuts
    BY <1>2, <2>2 DEF GuiStep, GuiSetsState, GuiActivates, GuiUnconfirms, GuiCounts,
         GuiSetsData, GuiStamps, status, command
  <2>3. QED
    BY <2>1, <2>2
<1>3. CASE PutAgain
  <2>1. data[ros.current] # Unset
    BY <1>3, FieldFacts DEF PutAgain, At, Holding, ClearInv, TypeOK
  <2>2. QED
    BY <1>3, <2>1 DEF PutAgain, ClearInv, TypeOK
<1>4. CASE ~Commit /\ ~GuiStep /\ ~PutAgain
  <2>1. UNCHANGED actions
    <3>1. CASE Handler
      BY <3>1, HandlerChecks DEF Check, command
    <3>2. CASE ~Handler
      BY <1>4, <3>2, NextParts
         DEF CommandTick, Manages, RosStep, TestExpired, CountAttempt, CompareRetries,
           Ends, Serialise, Write, WritePartial, WriteFails, ReadFails, Reconnect,
           Environment, EcuAnswers, EcuAnswersOther, LoseFrame, LoseAnswer, OnTheWire,
           ToggleDockingMode, TimePasses, Receive, vars, command
    <3>3. QED
      BY <3>1, <3>2
  <2>2. QED
    BY <2>1
<1>5. QED
  BY <1>1, <1>2, <1>3, <1>4

\* A request leaves the command only when a frame that carried it has been
\* written whole, or it came during the send and is marked, or being marked, to
\* be put again; an acknowledgement written during the send is the exception.
\* This holds of both threads, each write of the websocket thread's handler
\* coming anywhere in the send, and of any garbage.
THEOREM ClearedOnlyWhenSent == Spec => NothingClearedUnsent
<1>1. Init => ClearInv
  BY ClearStarts
<1>2. ClearInv /\ [Next]_vars => ClearInv'
  BY ClearStays
<1>3. ASSUME ClearInv, [Next]_vars
      PROVE  [\A f \in Fields :
                actions[f] # Unset /\ actions'[f] = Unset =>
                    /\ SentWhole
                    /\ \/ frame.actions[f] = actions[f]
                       \/ f \in queued \ confirmed
                       \/ IsBeingQueued(f)
                       \/ f = AckFault /\ "gui" \in Threads]_vars
  <2>1. SUFFICES ASSUME NEW f \in Fields, actions[f] # Unset, actions'[f] = Unset
                 PROVE  /\ SentWhole
                        /\ \/ frame.actions[f] = actions[f]
                           \/ f \in queued \ confirmed
                           \/ IsBeingQueued(f)
                           \/ f = AckFault /\ "gui" \in Threads
    OBVIOUS
  <2>2. WriteFull
    BY <1>3, <2>1, OnlyWholeWriteClears
  <2>3. Carried(f)
    BY <1>3, <2>2 DEF ClearInv, FrameFollows, WriteFull, EndTick
  <2>4. QED
    BY <2>2, <2>3 DEF WriteFull, Carried, Underway
<1>4. QED
  BY <1>1, <1>2, <1>3, PTL DEF Spec, NothingClearedUnsent

-----------------------------------------------------------------------------
(***************************************************************************)
(* The ROS thread alone, with status structs that started as zeros.        *)
(*                                                                         *)
(* A handler's check and its writes are apart, but nothing comes in        *)
(* between: while a request is pending, no other action is queued (Turn).  *)
(* The retries hold a pointer to the one queued action (InHand), whose     *)
(* counter and whose puts go together (Counts); in an ending the flags go  *)
(* down in their order (EndsInOrder), so that none is confirmed while it   *)
(* is active (Unconfirmed).                                                *)
(***************************************************************************)
Alone == Threads = {"ros"} /\ Garbage = {}

Turn == pending["ros"].field \in Actions => queued \subseteq {pending["ros"].field}

Unconfirmed == queued \cap confirmed = {}

InHand == ros.at \in Holding => queued = {ros.current}

Counts ==
    \A a \in queued :
        /\ At("count") =>
              /\ ros.count = sent[a] /\ sent[a] \in 1 .. MaxRetries
              /\ puts[a] = sent[a] + 1
        /\ At("compare") => sent[a] \in 1 .. MaxPuts /\ puts[a] = sent[a]
        /\ ros.at \notin {"count", "compare", "end"} =>
              sent[a] \in 1 .. MaxRetries /\ puts[a] = sent[a]

EndsInOrder == At("end") => \A i \in 1 .. 4 : i <= ros.ended => Order[i] \notin queued

QueueInv ==
    /\ TypeOK /\ Busy
    /\ AtMostOneQueued /\ CommandIsAsRequested
    /\ Turn /\ Unconfirmed /\ InHand /\ Counts /\ EndsInOrder

LEMMA QueueStarts == ASSUME Alone, Init PROVE QueueInv
<1>1. queued = {} /\ confirmed = {}
  BY DEF Alone, Init
<1>2. \A a \in Actions : actions[a] = Unset
  BY FieldFacts DEF Init, NoActions
<1>3. TypeOK /\ Busy
  BY TypeStarts, IdleFacts DEF Init, Busy
<1>4. Turn /\ InHand /\ EndsInOrder
  BY <1>1, IdleFacts DEF Init, Turn, InHand, EndsInOrder, At
<1>5. QED
  BY <1>1, <1>2, <1>3, <1>4
     DEF QueueInv, AtMostOneQueued, CommandIsAsRequested, Unconfirmed, Counts

\* What a queued action was counted, and what the command holds of it, when
\* only the place of the ROS thread moves.
LEMMA QueueKept ==
    ASSUME QueueInv, TypeOK', Busy', UNCHANGED <<queued, confirmed, data, sent, puts>>,
           UNCHANGED pending \/ queued = {} \/ Turn',
           actions' = actions \/ actions' = NoActions,
           InHand', Counts', EndsInOrder'
    PROVE  QueueInv'
<1>1. CommandIsAsRequested'
  BY FieldFacts DEF QueueInv, CommandIsAsRequested, NoActions
<1>2. QED
  BY <1>1 DEF QueueInv, AtMostOneQueued, Turn, Unconfirmed

\* The ROS thread goes from one place to another where nothing is in hand.
LEMMA PlaceMoves ==
    ASSUME QueueInv, UNCHANGED <<queued, sent, puts>>,
           ros.at \notin {"count", "compare", "end"} \/ queued = {},
           ros'.at \notin {"count", "compare"}, ros'.at \in Holding => queued = {ros'.current},
           ros'.at = "end" => ros'.ended = 0
    PROVE  InHand' /\ Counts' /\ EndsInOrder'
BY DEF QueueInv, InHand, Counts, EndsInOrder, At

LEMMA HandlerQueues == ASSUME Alone, QueueInv, TypeOK', Busy', Handler PROVE QueueInv'
<1>1. PICK f \in Fields, d \in Data : Check("ros", f, d) /\ (f \in Actions => FreeFor(f))
  BY HandlerChecks DEF Alone
<1>2. pending'["ros"].field = f
  BY <1>1 DEF Check, QueueInv, TypeOK
<1>3. UNCHANGED <<queued, confirmed, data, sent, puts, actions, ros>>
  BY <1>1 DEF Check, status, command
<1>4. Turn'
  BY <1>1, <1>2, <1>3 DEF Turn, FreeFor
<1>5. InHand' /\ Counts' /\ EndsInOrder'
  BY <1>3 DEF QueueInv, InHand, Counts, EndsInOrder, At
<1>6. QED
  BY <1>3, <1>4, <1>5, QueueKept

LEMMA CommitQueues == ASSUME Alone, QueueInv, TypeOK', Busy', Commit PROVE QueueInv'
<1>1. ros.at = "idle" /\ UNCHANGED ros
  BY FieldFacts
     DEF Commit, CommitAction, CommitAckFault, QueueInv, Busy, NoRequest
<1>2. pending'["ros"].field \notin Actions
  BY ThreadsAssumption, FieldFacts
     DEF Commit, CommitAction, CommitAckFault, QueueInv, TypeOK, NoRequest
<1>3. CASE CommitAction
  <2> DEFINE f == pending["ros"].field
             d == pending["ros"].data
  <2>1. f \in Actions /\ f \in Fields /\ d \in Data
    BY <1>3, RosRequestParts, FieldFacts DEF CommitAction, QueueInv
  <2>2. queued \subseteq {f}
    BY <2>1 DEF QueueInv, Turn
  <2>3. queued' = {f}
    BY <1>3, <2>2 DEF CommitAction, Queue
  <2>4. /\ \A a \in Actions : sent'[a] = IF a = f THEN 1 ELSE sent[a]
        /\ \A a \in Actions : data'[a] = IF a = f THEN d ELSE data[a]
        /\ \A a \in Fields : actions'[a] = IF a = f THEN d ELSE actions[a]
        /\ puts'[f] = 1
        /\ f \notin confirmed'
    BY <1>3, <2>1 DEF CommitAction, Queue, QueueInv, TypeOK, PutFirst, KeepsPuts, Alone
  <2>5. CommandIsAsRequested'
    BY <2>4, FieldFacts DEF QueueInv, CommandIsAsRequested
  <2>6. Counts'
    BY <1>1, <2>1, <2>3, <2>4, RetryAssumption DEF Counts, At
  <2>7. QED
    BY <1>1, <1>2, <2>3, <2>4, <2>5, <2>6
       DEF QueueInv, AtMostOneQueued, Turn, Unconfirmed, InHand, EndsInOrder, Holding, At
<1>4. CASE CommitAckFault
  <2>1. UNCHANGED <<queued, confirmed, data, sent, puts>>
        /\ \A a \in Actions : actions'[a] = actions[a]
    BY <1>4, FieldFacts DEF CommitAckFault, status, QueueInv, TypeOK
  <2>2. QED
    BY <1>1, <1>2, <2>1
       DEF QueueInv, AtMostOneQueued, CommandIsAsRequested, Turn, Unconfirmed, InHand,
         Counts, EndsInOrder, At
<1>5. QED
  BY <1>3, <1>4 DEF Commit

LEMMA TickQueues == ASSUME QueueInv, TypeOK', Busy', CommandTick PROVE QueueInv'
<1>1. ros = Idle /\ UNCHANGED <<queued, confirmed, data, sent, puts, actions, pending>>
  BY DEF CommandTick, Manages, RosIsFree, status, command
<1>2. CASE queued = {}
  BY <1>1, <1>2, IdleFacts, PlaceMoves, QueueKept DEF CommandTick, Manages, Places, Holding
<1>3. CASE queued # {}
  <2>1. queued = {Current}
    BY <1>3, CurrentType DEF QueueInv, TypeOK, AtMostOneQueued
  <2>2. ros'.at = "test" /\ ros'.current = Current
    BY <1>3 DEF CommandTick, Manages, QueueInv, TypeOK, RosType
  <2>3. QED
    BY <1>1, <2>1, <2>2, IdleFacts, PlaceMoves, QueueKept
<1>4. QED
  BY <1>2, <1>3

LEMMA TestQueues == ASSUME QueueInv, TypeOK', Busy', TestExpired PROVE QueueInv'
<1>1. At("test") /\ UNCHANGED <<queued, confirmed, data, sent, puts, actions, pending>>
  BY DEF TestExpired, status, command
<1>2. (ros'.at = "put" /\ ros'.current = ros.current) \/ ros'.at = "serialise"
  BY IdleFacts DEF TestExpired, QueueInv, TypeOK, RosType, Places
<1>3. queued = {ros.current}
  BY <1>1 DEF QueueInv, InHand, At, Holding
<1>4. QED
  BY <1>1, <1>2, <1>3, PlaceMoves, QueueKept DEF At, Holding

LEMMA PutQueues ==
    ASSUME Alone, QueueInv, TypeOK', Busy', PutAgain
    PROVE  QueueInv' /\ puts[ros.current] \in 1 .. MaxRetries
           /\ puts'[ros.current] = puts[ros.current] + 1
<1>1. /\ At("put") /\ ros.current \in Actions /\ queued = {ros.current}
      /\ UNCHANGED <<queued, confirmed, data, sent, pending>>
  BY DEF PutAgain, QueueInv, InHand, TypeOK, At, Holding
<1>2. sent[ros.current] \in 1 .. MaxRetries /\ puts[ros.current] = sent[ros.current]
  BY <1>1 DEF QueueInv, Counts, At
<1>3. /\ puts'[ros.current] = puts[ros.current] + 1
      /\ \A f \in Fields :
            actions'[f] = IF f = ros.current THEN data[ros.current] ELSE actions[f]
  BY <1>1, <1>2, RetryAssumption
     DEF PutAgain, PutMore, KeepsPuts, Alone, MaxPuts
<1>4. ros'.at = "count" /\ ros'.current = ros.current /\ ros'.count = sent[ros.current]
  BY DEF PutAgain, QueueInv, TypeOK, RosType
<1>5. CommandIsAsRequested'
  BY <1>1, <1>2, <1>3, FieldFacts DEF QueueInv, CommandIsAsRequested
<1>6. InHand' /\ Counts' /\ EndsInOrder'
  BY <1>1, <1>2, <1>3, <1>4 DEF InHand, Counts, EndsInOrder, At
<1>7. QED
  BY <1>1, <1>2, <1>3, <1>5, <1>6 DEF QueueInv, AtMostOneQueued, Turn, Unconfirmed

LEMMA CountQueues == ASSUME QueueInv, TypeOK', Busy', CountAttempt PROVE QueueInv'
<1>1. /\ At("count") /\ ros.current \in Actions /\ queued = {ros.current}
      /\ UNCHANGED <<queued, confirmed, data, puts, pending, actions>>
  BY DEF CountAttempt, QueueInv, InHand, TypeOK, At, Holding, command
<1>2. ros.count = sent[ros.current] /\ sent[ros.current] \in 1 .. MaxRetries
      /\ puts[ros.current] = sent[ros.current] + 1
  BY <1>1 DEF QueueInv, Counts
<1>3. (ros.count + 1) % SentModulus = ros.count + 1
  BY <1>2, RetryAssumption
<1>4. \A a \in Actions :
         sent'[a] = IF a = ros.current THEN sent[ros.current] + 1 ELSE sent[a]
  BY <1>1, <1>2, <1>3 DEF CountAttempt, QueueInv, TypeOK
<1>5. ros'.at = "compare" /\ ros'.current = ros.current
  BY DEF CountAttempt, QueueInv, TypeOK, RosType
<1>6. CommandIsAsRequested'
  BY <1>1, <1>2, <1>4, RetryAssumption DEF QueueInv, CommandIsAsRequested
<1>7. InHand' /\ Counts' /\ EndsInOrder'
  BY <1>1, <1>2, <1>4, <1>5, RetryAssumption DEF InHand, Counts, EndsInOrder, At, MaxPuts
<1>8. QED
  BY <1>1, <1>6, <1>7 DEF QueueInv, AtMostOneQueued, Turn, Unconfirmed

LEMMA CompareQueues ==
    ASSUME QueueInv, TypeOK', Busy', CompareRetries
    PROVE  QueueInv' /\ (At("end")' => puts[ros.current] = MaxPuts)
<1>1. /\ At("compare") /\ ros.current \in Actions /\ queued = {ros.current}
      /\ UNCHANGED <<queued, confirmed, data, sent, puts, actions, pending>>
  BY DEF CompareRetries, QueueInv, InHand, TypeOK, At, Holding, status, command
<1>2. sent[ros.current] \in 1 .. MaxPuts /\ puts[ros.current] = sent[ros.current]
  BY <1>1 DEF QueueInv, Counts
<1>3. CASE GivesUp(sent[ros.current])
  <2>1. ros'.at = "end" /\ ros'.ended = 0
    BY <1>3, IdleFacts DEF CompareRetries
  <2>2. InHand' /\ Counts' /\ EndsInOrder'
    BY <2>1 DEF InHand, Counts, EndsInOrder, At, Holding
  <2>3. puts[ros.current] = MaxPuts
    BY <1>2, <1>3, RetryAssumption DEF GivesUp, MaxPuts
  <2>4. QED
    BY <1>1, <2>2, <2>3, QueueKept
<1>4. CASE ~GivesUp(sent[ros.current])
  <2>1. ros'.at = "serialise"
    BY <1>4, IdleFacts DEF CompareRetries, Places
  <2>2. InHand' /\ Counts' /\ EndsInOrder'
    <3>1. sent[ros.current] \in 1 .. MaxRetries
      BY <1>2, <1>4, RetryAssumption DEF GivesUp, MaxPuts
    <3>2. QED
      BY <1>1, <1>2, <2>1, <3>1 DEF InHand, Counts, EndsInOrder, At, Holding
  <2>3. QED
    BY <1>1, <2>1, <2>2, QueueKept DEF At
<1>5. QED
  BY <1>3, <1>4

LEMMA EndQueues ==
    ASSUME QueueInv, TypeOK', Busy', Ends
    PROVE  QueueInv' /\ (At("end")' \/ queued' = {})
<1> DEFINE k == ros.ended
<1>1. /\ At("end") /\ k \in 0 .. 7 /\ ros.to \in {"idle", "serialise"}
      /\ UNCHANGED <<data, sent, puts, actions, pending>>
  BY DEF Ends, QueueInv, TypeOK, RosType, command
<1>2. CASE k < 4
  <2>1. queued' = queued \ {Order[k + 1]} /\ UNCHANGED confirmed
        /\ ros'.at = "end" /\ ros'.ended = k + 1
    BY <1>1, <1>2 DEF Ends, QueueInv, TypeOK, RosType, At
  <2>2. EndsInOrder'
    <3>1. SUFFICES ASSUME NEW i \in 1 .. 4, i <= k + 1 PROVE Order[i] \notin queued'
      BY <2>1 DEF EndsInOrder, At
    <3>2. CASE i <= k
      BY <1>1, <2>1, <3>2 DEF QueueInv, EndsInOrder
    <3>3. CASE i = k + 1
      BY <2>1, <3>3
    <3>4. QED
      BY <1>1, <3>1, <3>2, <3>3
  <2>3. QED
    BY <1>1, <2>1, <2>2
       DEF QueueInv, AtMostOneQueued, CommandIsAsRequested, Turn, Unconfirmed, InHand,
         Counts, At, Holding
<1>3. CASE ~(k < 4)
  <2>1. \A i \in 1 .. 4 : Order[i] \notin queued
    BY <1>1, <1>3 DEF QueueInv, EndsInOrder
  <2>2. queued = {}
    <3>1. Actions = {Order[1], Order[2], Order[3], Order[4]}
      BY DEF Actions, Order
    <3>2. QED
      BY <2>1, <3>1 DEF QueueInv, TypeOK
  <2>3. queued' = {}
    BY <1>3, <2>2 DEF Ends
  <2>4. ros'.at = "end" \/ ros'.at \in {"idle", "serialise"}
    BY <1>1, IdleFacts DEF Ends, QueueInv, TypeOK, RosType, At, Places
  <2>5. QED
    BY <1>1, <2>2, <2>3, <2>4
       DEF QueueInv, AtMostOneQueued, CommandIsAsRequested, Turn, Unconfirmed, InHand,
         Counts, EndsInOrder, At, Holding
<1>4. QED
  BY <1>2, <1>3

LEMMA SendQueues ==
    ASSUME QueueInv, TypeOK', Busy',
           Serialise \/ Write \/ \E n \in 1 .. MaxLink : Receive(n)
    PROVE  QueueInv'
<1>1. /\ UNCHANGED <<queued, confirmed, data, sent, puts, pending>>
      /\ actions' = actions \/ actions' = NoActions
  BY DEF Serialise, Write, WriteFull, WritePartial, WriteFails, ClearCommand, Receive,
       status, command
<1>2. ros.at \in {"serialise", "sending", "idle"}
  BY IdleFacts DEF Serialise, Write, WriteFull, WritePartial, WriteFails, EndTick, Receive,
       RosIsFree, At
<1>3. ros'.at \in {"sending", "idle", "end"} /\ ros'.ended = 0
  BY IdleFacts DEF Serialise, Write, WriteFull, WritePartial, WriteFails, EndTick, Receive,
       Places
<1>4. QED
  BY <1>1, <1>2, <1>3, PlaceMoves, QueueKept DEF Holding

LEMMA OthersQueue ==
    ASSUME QueueInv, TypeOK', Busy',
           UNCHANGED <<queued, confirmed, data, sent, puts, actions, pending, ros>>
    PROVE  QueueInv'
BY DEF QueueInv, AtMostOneQueued, CommandIsAsRequested, Turn, Unconfirmed, InHand, Counts,
     EndsInOrder, At

LEMMA OthersLeave ==
    ASSUME \/ ReadFails \/ Reconnect \/ Environment \/ UNCHANGED vars
           \/ \E s \in {"DOCKING", "AUTO"} : ToggleDockingMode(s)
           \/ \E a \in Actions : TimePasses(a)
    PROVE  UNCHANGED <<queued, confirmed, data, sent, puts, actions, pending, ros>>
BY DEF ReadFails, Reconnect, Environment, EcuAnswers, EcuAnswersOther, LoseFrame,
     LoseAnswer, OnTheWire, ToggleDockingMode, TimePasses, vars, status, command

LEMMA NoGui == ASSUME Alone PROVE ~GuiStep
BY DEF Alone, GuiStep, GuiPuts, GuiSetsState, GuiActivates, GuiUnconfirms, GuiCounts,
     GuiSetsData, GuiStamps, GuiWrites

LEMMA AloneTypes ==
    ASSUME Alone, QueueInv, [Next]_vars
    PROVE  TypeOK' /\ Busy'
<1>1. CASE Handler \/ Commit
  BY <1>1, HandlerTypes, CommitTypes, BusyStays DEF QueueInv
<1>2. CASE CommandTick \/ RosStep
  BY <1>2, RosTypes, BusyStays DEF QueueInv
<1>3. CASE UNCHANGED vars
  BY <1>3, BusyStays DEF QueueInv, vars, status, command, link, TypeOK
<1>4. CASE ~(Handler \/ Commit \/ CommandTick \/ RosStep \/ UNCHANGED vars)
  BY <1>4, NoGui, NextParts, OtherTypes, BusyStays DEF QueueInv
<1>5. QED
  BY <1>1, <1>2, <1>3, <1>4

LEMMA QueueStays == ASSUME Alone, QueueInv, [Next]_vars PROVE QueueInv'
<1>1. TypeOK' /\ Busy'
  BY AloneTypes
<1>2. CASE Handler \/ Commit
  BY <1>1, <1>2, HandlerQueues, CommitQueues
<1>3. CASE CommandTick
  BY <1>1, <1>3, TickQueues
<1>4. CASE RosStep
  BY <1>1, <1>4, TestQueues, PutQueues, CountQueues, CompareQueues, EndQueues, SendQueues
     DEF RosStep
<1>5. CASE Write \/ \E n \in 1 .. MaxLink : Receive(n)
  BY <1>1, <1>5, SendQueues
<1>6. CASE ~(Handler \/ Commit \/ CommandTick \/ RosStep \/ Write
               \/ \E n \in 1 .. MaxLink : Receive(n))
  BY <1>1, <1>6, NoGui, NextParts, OthersLeave, OthersQueue
<1>7. QED
  BY <1>2, <1>3, <1>4, <1>5, <1>6

\* With the handlers on the ROS thread only: at most one action is queued, what
\* the command holds for it is what its request asked, and no ending leaves one
\* active and confirmed.
THEOREM OneActionAtATime ==
    ASSUME Threads = {"ros"}, Garbage = {}
    PROVE  Spec => [](AtMostOneQueued /\ CommandIsAsRequested /\ ~Stuck)
<1>1. Init => QueueInv
  BY QueueStarts DEF Alone
<1>2. QueueInv /\ [Next]_vars => QueueInv'
  BY QueueStays DEF Alone
<1>3. QueueInv => AtMostOneQueued /\ CommandIsAsRequested /\ ~Stuck
  BY CurrentType DEF QueueInv, TypeOK, Unconfirmed, Stuck
<1>4. QED
  BY <1>1, <1>2, <1>3, PTL DEF Spec

-----------------------------------------------------------------------------
\* The refinement of ActionQueue.

Opened == {[name |-> a, value |-> data[a], puts |-> puts[a]] :
              a \in IF At("end") THEN {} ELSE queued}

\* Steps that the queue does not see.
LEMMA Stutters ==
    ASSUME UNCHANGED <<queued, data, puts, fromEcu>>,
           At("end")' = At("end") \/ queued = {}
    PROVE  UNCHANGED <<Opened, fromEcu>>
BY DEF Opened

LEMMA AcceptsRequest ==
    ASSUME Alone, QueueInv, CommitAction
    PROVE  \E n \in Actions, v \in Data : AQ!Accept(n, v)
<1> DEFINE f == pending["ros"].field
           d == pending["ros"].data
<1>1. f \in Actions /\ d \in Data
  BY RosRequestParts, FieldFacts DEF CommitAction, QueueInv
<1>2. queued \subseteq {f} /\ queued' = {f} /\ data'[f] = d /\ puts'[f] = 1
  BY <1>1 DEF CommitAction, Queue, QueueInv, Turn, TypeOK, PutFirst, KeepsPuts, Alone
<1>3. ~At("end") /\ ~At("end")' /\ UNCHANGED fromEcu
  BY <1>1, FieldFacts DEF CommitAction, QueueInv, Busy, NoRequest, At, link
<1>4. Opened' = {[name |-> f, value |-> d, puts |-> 1]}
  BY <1>2, <1>3 DEF Opened
<1>5. \A r \in Opened : r.name = f
  BY <1>2, <1>3 DEF Opened
<1>6. QED
  BY <1>1, <1>3, <1>4, <1>5 DEF AQ!Accept, Opened

LEMMA RepeatsRequest ==
    ASSUME Alone, QueueInv, TypeOK', Busy', PutAgain
    PROVE  AQ!Repeat
<1> DEFINE c == ros.current
           r == [name |-> c, value |-> data[c], puts |-> puts[c]]
<1>1. queued = {c} /\ ~At("end") /\ ~At("end")' /\ UNCHANGED <<queued, data, fromEcu>>
  <2>1. At("put") /\ UNCHANGED <<queued, data, fromEcu>>
    BY DEF PutAgain, link
  <2>2. ros'.at = "count"
    BY DEF PutAgain, QueueInv, TypeOK, RosType
  <2>3. QED
    BY <2>1, <2>2 DEF QueueInv, InHand, At, Holding
<1>2. puts[c] < MaxPuts /\ puts'[c] = puts[c] + 1
  BY PutQueues, RetryAssumption DEF MaxPuts
<1>3. Opened = {r} /\ Opened' = {[name |-> c, value |-> data[c], puts |-> puts[c] + 1]}
  BY <1>1, <1>2 DEF Opened
<1>4. [r EXCEPT !.puts = r.puts + 1] = [name |-> c, value |-> data[c], puts |-> puts[c] + 1]
  OBVIOUS
<1>5. r \in Opened /\ r.puts < MaxPuts /\ Opened' = {[r EXCEPT !.puts = r.puts + 1]}
  BY <1>2, <1>3, <1>4
<1>6. QED
  BY <1>1, <1>5 DEF AQ!Repeat, Opened

LEMMA ComparesRequest ==
    ASSUME Alone, QueueInv, TypeOK', Busy', CompareRetries
    PROVE  AQ!GiveUp \/ UNCHANGED <<Opened, fromEcu>>
<1> DEFINE c == ros.current
           r == [name |-> c, value |-> data[c], puts |-> puts[c]]
<1>1. At("compare") /\ UNCHANGED <<queued, data, puts, fromEcu>>
  BY DEF CompareRetries, status, link
<1>2. CASE At("end")'
  <2>1. queued = {c} /\ ~At("end") /\ puts[c] = MaxPuts
    BY <1>1, <1>2, CompareQueues DEF QueueInv, InHand, At, Holding
  <2>2. Opened = {r} /\ Opened' = {}
    BY <1>1, <1>2, <2>1 DEF Opened
  <2>3. r \in Opened /\ r.puts = MaxPuts
    BY <2>1, <2>2
  <2>4. QED
    BY <1>1, <2>2, <2>3 DEF AQ!GiveUp, Opened
<1>3. CASE ~At("end")'
  BY <1>1, <1>3, Stutters DEF At
<1>4. QED
  BY <1>2, <1>3

LEMMA TakesAnswer ==
    ASSUME QueueInv, NEW n \in 1 .. MaxLink, Receive(n)
    PROVE  AQ!Answered
<1>1. fromEcu' < fromEcu /\ fromEcu' \in Nat
  BY LinkAssumption DEF Receive, QueueInv, TypeOK
<1>2. At("end")'
  BY IdleFacts DEF Receive, At, Places
<1>3. Opened' = {}
  BY <1>2 DEF Opened
<1>4. QED
  BY <1>1, <1>3 DEF AQ!Answered, Opened

LEMMA AnswersComeAndGo ==
    ASSUME QueueInv, Environment
    PROVE  AQ!AnswerArrives \/ AQ!AnswerLost \/ UNCHANGED <<Opened, fromEcu>>
<1>1. UNCHANGED Opened
  BY DEF Environment, EcuAnswers, EcuAnswersOther, LoseFrame, LoseAnswer, OnTheWire,
       status, Opened, At
<1>2. CASE EcuAnswers \/ EcuAnswersOther
  BY <1>1, <1>2 DEF EcuAnswers, EcuAnswersOther, AQ!AnswerArrives, Opened
<1>3. CASE LoseFrame
  BY <1>1, <1>3 DEF LoseFrame
<1>4. CASE LoseAnswer
  BY <1>1, <1>4 DEF LoseAnswer, AQ!AnswerLost, Opened, QueueInv, TypeOK
<1>5. QED
  BY <1>2, <1>3, <1>4 DEF Environment

LEMMA QueueSeesNothing ==
    ASSUME Alone, QueueInv, TypeOK', Busy',
           \/ Handler \/ CommitAckFault \/ CommandTick \/ TestExpired \/ CountAttempt \/ Ends
           \/ Serialise \/ Write \/ ReadFails \/ Reconnect \/ UNCHANGED vars
           \/ \E s \in {"DOCKING", "AUTO"} : ToggleDockingMode(s)
           \/ \E a \in Actions : TimePasses(a)
    PROVE  UNCHANGED <<Opened, fromEcu>>
<1>1. CASE Handler
  BY <1>1, HandlerChecks, Stutters DEF Check, status, link, At
<1>2. CASE CommandTick
  <2>1. ros'.at \in {"serialise", "test"} /\ ros.at = "idle"
    BY <1>2, IdleFacts DEF CommandTick, Manages, RosIsFree, QueueInv, TypeOK, RosType
  <2>2. QED
    BY <1>2, <2>1, Stutters DEF CommandTick, Manages, status, link, At
<1>3. CASE TestExpired
  <2>1. ros'.at \in {"serialise", "put"} /\ ros.at = "test"
    BY <1>3, IdleFacts DEF TestExpired, QueueInv, TypeOK, RosType, At, Places
  <2>2. QED
    BY <1>3, <2>1, Stutters DEF TestExpired, status, link, At
<1>4. CASE CountAttempt
  <2>1. ros'.at = "compare" /\ ros.at = "count"
    BY <1>4 DEF CountAttempt, QueueInv, TypeOK, RosType, At
  <2>2. QED
    BY <1>4, <2>1, Stutters DEF CountAttempt, link, At
<1>5. CASE Ends
  <2>1. Opened = {} /\ UNCHANGED fromEcu
    BY <1>5 DEF Ends, Opened, link
  <2>2. Opened' = {}
    BY <1>5, EndQueues DEF Opened
  <2>3. QED
    BY <2>1, <2>2
<1>6. CASE Serialise
  <2>1. ros'.at \in {"sending", "idle"} /\ ros.at = "serialise"
    BY <1>6, IdleFacts DEF Serialise, At, Places
  <2>2. QED
    BY <1>6, <2>1, Stutters DEF Serialise, status, link, At
<1>7. CASE Write
  <2>1. ros'.at = "idle" /\ ros.at = "sending" /\ UNCHANGED <<queued, data, puts, fromEcu>>
    BY <1>7, IdleFacts
       DEF Write, WriteFull, WritePartial, WriteFails, EndTick, SentWhole, status, link, At
  <2>2. QED
    BY <2>1, Stutters DEF At
<1>8. CASE \/ CommitAckFault \/ ReadFails \/ Reconnect \/ UNCHANGED vars
           \/ \E s \in {"DOCKING", "AUTO"} : ToggleDockingMode(s)
           \/ \E a \in Actions : TimePasses(a)
  BY <1>8, Stutters DEF CommitAckFault, ReadFails, Reconnect, vars, ToggleDockingMode,
       TimePasses, status, link, At
<1>9. QED
  BY <1>1, <1>2, <1>3, <1>4, <1>5, <1>6, <1>7, <1>8

LEMMA PromiseStep ==
    ASSUME Alone, QueueInv, [Next]_vars
    PROVE  [AQ!Next]_(AQ!absVars)
<1>1. TypeOK' /\ Busy'
  BY AloneTypes
<1>2. UNCHANGED <<Opened, fromEcu>> => [AQ!Next]_(AQ!absVars)
  BY DEF AQ!absVars, Opened
<1>3. CASE CommitAction
  BY <1>3, AcceptsRequest DEF AQ!Next
<1>4. CASE PutAgain
  BY <1>1, <1>4, RepeatsRequest DEF AQ!Next
<1>5. CASE CompareRetries
  BY <1>1, <1>2, <1>5, ComparesRequest DEF AQ!Next
<1>6. CASE \E n \in 1 .. MaxLink : Receive(n)
  BY <1>6, TakesAnswer DEF AQ!Next
<1>7. CASE Environment
  BY <1>2, <1>7, AnswersComeAndGo DEF AQ!Next
<1>8. CASE ~(CommitAction \/ PutAgain \/ CompareRetries \/ Environment
               \/ \E n \in 1 .. MaxLink : Receive(n))
  BY <1>1, <1>2, <1>8, NoGui, NextParts, QueueSeesNothing DEF Commit, RosStep
<1>9. QED
  BY <1>3, <1>4, <1>5, <1>6, <1>7, <1>8

\* RobotActions keeps ActionQueue's promise, with the handlers on the ROS
\* thread only: one request is open at a time, and it is put in last_command_
\* at most MaxRetries + 1 times, the put of the call that gives it up counted.
\* The puts are counted where the code writes the field, in the handlers and in
\* manage_robot_actions, and not by the status structs.
THEOREM ImplementsActionQueue ==
    ASSUME Threads = {"ros"}, Garbage = {}
    PROVE  Spec => Promise
<1>1. Init => QueueInv /\ AQ!Init
  <2>1. Garbage = {} /\ Init => queued = {} /\ fromEcu = 0
    BY DEF Init
  <2>2. QED
    BY <2>1, QueueStarts DEF Alone, AQ!Init
<1>2. QueueInv /\ [Next]_vars => QueueInv'
  BY QueueStays DEF Alone
<1>3. QueueInv /\ [Next]_vars => [AQ!Next]_(AQ!absVars)
  BY PromiseStep DEF Alone
<1>4. QED
  BY <1>1, <1>2, <1>3, PTL DEF Spec, Promise, AQ!Spec
=============================================================================
