---------------------------- MODULE RobotActions ----------------------------
(***************************************************************************)
(* The ECU actions of RobotSerial (src/src/robot_comm_serial.cpp): the four *)
(* retried ones (jump to boot, enter stand-by, emergency stop, reboot), the *)
(* fault acknowledgement, and the state request that travels with them.    *)
(*                                                                         *)
(* A handler checks that no other action is queued, then writes the action *)
(* into last_command_ and its own RobotActionStatus.  The command timer    *)
(* resends an unconfirmed action every second, gives up after MaxRetries,  *)
(* serialises last_command_ and clears it when the whole frame is written. *)
(* The packet timer ends every queued action as soon as a feedback message *)
(* carries last_command_ok.                                                *)
(*                                                                         *)
(* Two threads call the handlers: the ROS executor, which runs one         *)
(* callback at a time, and the websocket server's, which runs              *)
(* handle_gui_command with no lock shared with the first.  Of the status   *)
(* structs the websocket thread reads nothing but `active', so the writes  *)
(* of a handler on the ROS thread are one step; all else that the two can  *)
(* come between is a step of its own: each write of a handler on the       *)
(* websocket thread, and on the ROS thread the choice of the current       *)
(* action, the test, the put, the count, its test, each flag of an ending, *)
(* the serialisation and the write.  A write to the message last_command_  *)
(* is one step here, though nothing makes it so.                           *)
(***************************************************************************)
EXTENDS Naturals, Sequences

CONSTANTS
    Threads,       \* the threads that call the handlers
    Requests,      \* what clients ask of each thread (a bound for TLC)
    MaxRetries,    \* maxRetries: 20 in the code
    SentModulus,   \* `sent' is a uint8_t: 256 in the code
    Garbage,       \* the actions whose uninitialised status is not all zeros
    MaxLink        \* messages in flight in each direction (a bound for TLC)

\* RobotActionStatus jumpToBootStatus, enterStandByStatus, ...
Actions == {"JumpToBoot", "EnterStandBy", "EmergencyStop", "Reboot"}

AckFault == "AckFault"

\* The optional fields of the RobotActions message.
Fields == Actions \cup {AckFault}

\* The bool a request carries; Trigger services always carry "on".
Data == {"on", "off"}

Unset == "unset"

States == {"STAND_BY", "DOCKING", "AUTO"}

ASSUME ThreadsAssumption == "ros" \in Threads /\ Threads \subseteq {"ros", "gui"}
ASSUME RequestsAssumption == Requests \in [Threads -> SUBSET (Fields \cup States)]
ASSUME RetryAssumption ==
    /\ MaxRetries \in Nat \ {0}
    /\ SentModulus \in Nat
    /\ MaxRetries + 1 < SentModulus
ASSUME GarbageAssumption == Garbage \subseteq Actions
ASSUME LinkAssumption == MaxLink \in Nat \ {0}

VARIABLES
    queued,     \* the actions whose status.active is true
    confirmed,  \* the actions whose status.confirmed is true
    data,       \* status.data of each action
    sent,       \* status.sent of each action
    aged,       \* the actions whose sentTimestamp is over 1000 ms old
    actions,    \* last_command_.actions
    state,      \* last_command_.state
    connected,  \* connected_
    pending,    \* the request each thread is handling, and its next write
    ros,        \* where the ROS thread is in manage_robot_actions and after
    frame,      \* what the command timer has serialised
    toEcu,      \* how many complete frames on the wire ask for something
    fromEcu,    \* how many feedback messages on it carry last_command_ok
    puts        \* history, with one thread: how often an action was put in
                \* last_command_ since it was asked for

status  == <<queued, confirmed, data, sent, aged, puts>>
command == <<actions, state>>
link    == <<toEcu, fromEcu>>
vars    == <<status, command, connected, pending, ros, frame, link>>

-----------------------------------------------------------------------------
\* Values.

NoActions == [f \in Fields |-> Unset]
Frames    == [actions : [Fields -> Data \cup {Unset}],
              state   : States \cup {Unset}]
NoFrame   == [actions |-> NoActions, state |-> Unset]

\* The writes of a handler, in their order.
Writes == {"field", "state", "active", "confirmed", "sent", "data", "stamp"}

Request   == [field : Fields, data : Data, next : Writes]
NoRequest == [field |-> "none", data |-> "off", next |-> "field"]

\* An ending is eight writes; then the thread goes on to `to'.
Places == {"idle", "test", "put", "count", "compare", "end", "serialise", "sending"}
Holding == {"test", "put", "count", "compare"}  \* a pointer to the current action
NoAction == "none"
RosType == [at : Places, current : Actions \cup {NoAction}, count : 0 .. (SentModulus - 1),
            ended : 0 .. 7, to : {"idle", "serialise"}]
Idle == [at |-> "idle", current |-> NoAction, count |-> 0, ended |-> 0, to |-> "idle"]

\* A bound: puts are counted up to one more than there may be.
MaxPuts == MaxRetries + 1

TypeOK ==
    /\ queued \subseteq Actions
    /\ confirmed \subseteq Actions
    /\ data \in [Actions -> Data]
    /\ sent \in [Actions -> 0 .. (SentModulus - 1)]
    /\ aged \subseteq Actions
    /\ puts \in [Actions -> 0 .. (MaxPuts + 1)]
    /\ actions \in [Fields -> Data \cup {Unset}]
    /\ state \in States \cup {Unset}
    /\ connected \in BOOLEAN
    /\ pending \in [Threads -> Request \cup {NoRequest}]
    /\ ros \in RosType
    /\ ros.at \in Holding => ros.current \in Actions
    /\ frame \in Frames
    /\ toEcu \in 0 .. MaxLink /\ fromEcu \in 0 .. MaxLink

-----------------------------------------------------------------------------
(***************************************************************************)
(* The constructor connects the port (it may fail) and gives the status    *)
(* structs no value: their timestamps are the epoch, their other fields    *)
(* whatever the heap held, which is zero for the actions outside Garbage.  *)
(***************************************************************************)
Init ==
    /\ queued \in SUBSET Garbage
    /\ confirmed \in SUBSET Garbage
    /\ data \in [Actions -> Data]
    /\ sent \in [Actions -> 0 .. (SentModulus - 1)]
    /\ \A a \in Actions \ Garbage : data[a] = "off" /\ sent[a] = 0
    /\ aged = Actions
    /\ puts = [a \in Actions |-> 0]
    /\ actions = NoActions
    /\ state = Unset
    /\ connected \in BOOLEAN
    /\ pending = [t \in Threads |-> NoRequest]
    /\ ros = Idle
    /\ frame = NoFrame
    /\ toEcu = 0 /\ fromEcu = 0

-----------------------------------------------------------------------------
\* The handlers, up to the end of their check.

RosIsFree == ros = Idle /\ pending["ros"] = NoRequest
IsFree(t) == IF t = "ros" THEN RosIsFree ELSE pending[t] = NoRequest

\* The check of the four handlers: no other action is queued.
FreeForLosesCheck(a) == TRUE
FreeFor(a) == queued \subseteq {a}

Check(t, f, d) ==
    /\ IsFree(t)
    /\ f \in Requests[t]
    /\ pending' = [pending EXCEPT ![t] = [field |-> f, data |-> d, next |-> "field"]]
    /\ UNCHANGED <<status, command, connected, ros, frame, link>>

\* jump_to_boot_callback and emergency_stop_srv_callback have no caller in
\* handle_gui_command: only the ROS thread runs them.
JumpToBoot(d) ==
    /\ FreeFor("JumpToBoot")
    /\ Check("ros", "JumpToBoot", d)

EnterStandBy(t) ==
    /\ FreeFor("EnterStandBy")
    /\ Check(t, "EnterStandBy", "on")

EmergencyStop(d) ==
    /\ FreeFor("EmergencyStop")
    /\ Check("ros", "EmergencyStop", d)

Reboot(t) ==
    /\ FreeFor("Reboot")
    /\ Check(t, "Reboot", "on")

\* A queued emergency stop does not refuse the acknowledgement.
AcknowledgeFault(t) ==
    /\ queued \subseteq {"EmergencyStop"}
    /\ Check(t, AckFault, "on")

-----------------------------------------------------------------------------
(***************************************************************************)
(* The rest of a handler: the field of last_command_, the state that       *)
(* stand-by and reboot request, and the status.  ackFaultStatus is written *)
(* and never read, so the acknowledgement leaves no status here.           *)
(***************************************************************************)
SetsState == {"EnterStandBy", "Reboot"}

\* The history is kept for the refinement, which is of the ROS thread's handlers.
KeepsPuts == Threads = {"ros"}

PutFirst(f) == IF KeepsPuts /\ f \in Actions THEN [puts EXCEPT ![f] = 1] ELSE puts

PutMore(fields) ==
    [a \in Actions |->
        IF KeepsPuts /\ a \in fields /\ puts[a] <= MaxPuts THEN puts[a] + 1 ELSE puts[a]]

\* On the ROS thread.
Queue(a, d) ==
    /\ queued' = queued \cup {a}
    /\ confirmed' = confirmed \ {a}
    /\ data' = [data EXCEPT ![a] = d]
    /\ sent' = [sent EXCEPT ![a] = 1]
    /\ aged' = aged \ {a}

CommitAction ==
    LET r == pending["ros"] IN
    /\ r.field \in Actions
    /\ actions' = [actions EXCEPT ![r.field] = r.data]
    /\ puts' = PutFirst(r.field)
    /\ state' = IF r.field \in SetsState THEN "STAND_BY" ELSE state
    /\ Queue(r.field, r.data)
    /\ pending' = [pending EXCEPT !["ros"] = NoRequest]
    /\ UNCHANGED <<connected, ros, frame, link>>

CommitAckFault ==
    /\ pending["ros"].field = AckFault
    /\ actions' = [actions EXCEPT ![AckFault] = "on"]
    /\ pending' = [pending EXCEPT !["ros"] = NoRequest]
    /\ UNCHANGED <<status, state, connected, ros, frame, link>>

ToggleDockingMode(s) ==
    /\ RosIsFree
    /\ s \in Requests["ros"]
    /\ state' = s
    /\ UNCHANGED <<status, actions, connected, pending, ros, frame, link>>

\* On the websocket thread, one write at a time.
Gui == pending["gui"]

GuiWrites(w, then) ==
    /\ "gui" \in Threads
    /\ Gui # NoRequest /\ Gui.next = w
    /\ pending' = [pending EXCEPT !["gui"] =
                      IF then = "done" THEN NoRequest ELSE [Gui EXCEPT !.next = then]]
    /\ UNCHANGED <<connected, ros, frame, link>>

GuiPuts ==
    /\ GuiWrites("field", IF Gui.field = AckFault THEN "done" ELSE "state")
    /\ actions' = [actions EXCEPT ![Gui.field] = Gui.data]
    /\ UNCHANGED <<status, state>>

GuiSetsState ==
    /\ GuiWrites("state", "active")
    /\ state' = "STAND_BY"
    /\ UNCHANGED <<status, actions>>

GuiActivates ==
    /\ GuiWrites("active", "confirmed")
    /\ queued' = queued \cup {Gui.field}
    /\ UNCHANGED <<confirmed, data, sent, aged, puts, command>>

GuiUnconfirms ==
    /\ GuiWrites("confirmed", "sent")
    /\ confirmed' = confirmed \ {Gui.field}
    /\ UNCHANGED <<queued, data, sent, aged, puts, command>>

GuiCounts ==
    /\ GuiWrites("sent", "data")
    /\ sent' = [sent EXCEPT ![Gui.field] = 1]
    /\ UNCHANGED <<queued, confirmed, data, aged, puts, command>>

GuiSetsData ==
    /\ GuiWrites("data", "stamp")
    /\ data' = [data EXCEPT ![Gui.field] = Gui.data]
    /\ UNCHANGED <<queued, confirmed, sent, aged, puts, command>>

GuiStamps ==
    /\ GuiWrites("stamp", "done")
    /\ aged' = aged \ {Gui.field}
    /\ UNCHANGED <<queued, confirmed, data, sent, puts, command>>

-----------------------------------------------------------------------------
(***************************************************************************)
(* manage_robot_actions.  The current action is the last active one of the *)
(* code's four tests; every active action is resent with ITS data, and     *)
(* only its counter and timestamp move.                                    *)
(***************************************************************************)
Rank == [JumpToBoot |-> 1, EnterStandBy |-> 2, EmergencyStop |-> 3, Reboot |-> 4]

Current == CHOOSE a \in queued : \A b \in queued : Rank[b] <= Rank[a]

At(place) == ros.at = place

\* Its call in command_callback, which manages the retries even while the port
\* is closed.
Manages ==
    /\ RosIsFree
    /\ ros' = IF queued = {} THEN [ros EXCEPT !.at = "serialise"]
                             ELSE [ros EXCEPT !.at = "test", !.current = Current]
    /\ UNCHANGED <<status, command, connected, pending, frame, link>>

CommandTickWhenConnected == connected /\ Manages
CommandTick == Manages

\* timeSince(currentAction->sentTimestamp) > 1000 and not confirmed.
Expired == ros.current \in aged \ confirmed

TestExpired ==
    /\ At("test")
    /\ ros' = IF Expired THEN [ros EXCEPT !.at = "put"]
                         ELSE [Idle EXCEPT !.at = "serialise"]
    /\ UNCHANGED <<status, command, connected, pending, frame, link>>

\* Before the retries are looked at, and so for an action that is then given up.
PutAgain ==
    /\ At("put")
    /\ actions' = [f \in Fields |->
                      IF f \in queued THEN data[ros.current] ELSE actions[f]]
    /\ puts' = PutMore(queued)
    /\ aged' = aged \ {ros.current}
    /\ ros' = [ros EXCEPT !.at = "count", !.count = sent[ros.current]]
    /\ UNCHANGED <<queued, confirmed, data, sent, state, connected, pending, frame, link>>

\* sent++, of what was read.
CountAttempt ==
    /\ At("count")
    /\ sent' = [sent EXCEPT ![ros.current] = (ros.count + 1) % SentModulus]
    /\ ros' = [ros EXCEPT !.at = "compare", !.count = 0]
    /\ UNCHANGED <<queued, confirmed, data, aged, puts, command, connected, pending,
                   frame, link>>

\* sent > maxRetries, after the increment.
GivesUpLate(n) == n > MaxRetries + 1
GivesUp(n) == n > MaxRetries

CompareRetries ==
    /\ At("compare")
    /\ ros' = IF GivesUp(sent[ros.current])
              THEN [Idle EXCEPT !.at = "end", !.to = "serialise"]
              ELSE [Idle EXCEPT !.at = "serialise"]
    /\ UNCHANGED <<status, command, connected, pending, frame, link>>

(***************************************************************************)
(* The end of all actions, here and in publish_data: first no status is    *)
(* active, one after the other, and then every one is confirmed.  A        *)
(* request that the websocket thread writes in between is left active and  *)
(* confirmed: it is not resent, and refuses the others until an answer.    *)
(***************************************************************************)
Order == <<"JumpToBoot", "EnterStandBy", "EmergencyStop", "Reboot">>

Ends ==
    LET k == ros.ended IN
    /\ At("end")
    /\ IF k < 4 THEN queued' = queued \ {Order[k + 1]} /\ UNCHANGED confirmed
                ELSE confirmed' = confirmed \cup {Order[k - 3]} /\ UNCHANGED queued
    /\ ros' = IF k < 7 THEN [ros EXCEPT !.ended = k + 1] ELSE [Idle EXCEPT !.at = ros.to]
    /\ UNCHANGED <<data, sent, aged, puts, command, connected, pending, frame, link>>

\* 1000 ms pass since an action was last put in the command.
TimePasses(a) ==
    /\ a \notin aged
    /\ aged' = aged \cup {a}
    /\ UNCHANGED <<queued, confirmed, data, sent, puts, command, connected, pending,
                   ros, frame, link>>

\* command_callback goes on, if the port is open.
Serialise ==
    /\ At("serialise")
    /\ IF connected
       THEN /\ ros' = [Idle EXCEPT !.at = "sending"]
            /\ frame' = [actions |-> actions, state |-> state]
       ELSE ros' = Idle /\ UNCHANGED frame
    /\ UNCHANGED <<status, command, connected, pending, link>>

-----------------------------------------------------------------------------
\* command_callback, from the write on.

EndTick == At("sending") /\ ros' = Idle /\ frame' = NoFrame

\* clear_command: whatever last_command_ holds by now.
ClearCommand == actions' = NoActions /\ state' = Unset

\* A frame that asks for nothing (velocities only) gets no answer and is not
\* followed further.
SentWhole == toEcu' = IF frame = NoFrame THEN toEcu ELSE toEcu + 1

\* bytes_written == out_len.
WriteFull ==
    /\ EndTick
    /\ ClearCommand
    /\ SentWhole
    /\ toEcu' <= MaxLink
    /\ UNCHANGED <<status, connected, pending, fromEcu>>

\* bytes_written < out_len, after the write's timeout: "Failed to send packet!"
WritePartialClears ==
    /\ EndTick
    /\ ClearCommand
    /\ UNCHANGED <<status, connected, pending, link>>

WritePartial ==
    /\ EndTick
    /\ UNCHANGED <<status, command, connected, pending, link>>

\* try_serial_operation: an exception from the write closes the port.
WriteFails ==
    /\ EndTick
    /\ connected' = FALSE
    /\ UNCHANGED <<status, command, pending, link>>

\* An exception from the read of packet_callback does the same.
ReadFails ==
    /\ RosIsFree
    /\ connected
    /\ connected' = FALSE
    /\ UNCHANGED <<status, command, pending, ros, frame, link>>

Reconnect ==
    /\ RosIsFree
    /\ ~connected
    /\ connected' = TRUE
    /\ UNCHANGED <<status, command, pending, ros, frame, link>>

(***************************************************************************)
(* packet_callback decodes all the messages read; last_message_ keeps the  *)
(* last of them, and publish_data looks at that one only.  The presence of *)
(* last_command_ok ends every action; its value is only logged.            *)
(***************************************************************************)
Receive(n) ==
    /\ RosIsFree
    /\ connected
    /\ n \in 1 .. fromEcu
    /\ fromEcu' = fromEcu - n
    /\ ros' = [Idle EXCEPT !.at = "end"]
    /\ UNCHANGED <<status, command, connected, pending, frame, toEcu>>

-----------------------------------------------------------------------------
(***************************************************************************)
(* The ECU and the wire (external).  The ECU answers a request it got with *)
(* last_command_ok, true or false.  `Other' is its answer to a command of  *)
(* another kind (gains, LED), which looks the same to the driver.          *)
(***************************************************************************)
OnTheWire == UNCHANGED <<status, command, connected, pending, ros, frame>>

EcuAnswers ==
    /\ toEcu > 0 /\ fromEcu < MaxLink
    /\ toEcu' = toEcu - 1 /\ fromEcu' = fromEcu + 1
    /\ OnTheWire

EcuAnswersOther ==
    /\ fromEcu < MaxLink
    /\ fromEcu' = fromEcu + 1
    /\ UNCHANGED toEcu /\ OnTheWire

\* A frame or an answer is damaged on the wire, or an answer is followed by
\* other feedback in the same read.
LoseFrame ==
    /\ toEcu > 0
    /\ toEcu' = toEcu - 1
    /\ UNCHANGED fromEcu /\ OnTheWire

LoseAnswer ==
    /\ fromEcu > 0
    /\ fromEcu' = fromEcu - 1
    /\ UNCHANGED toEcu /\ OnTheWire

-----------------------------------------------------------------------------
Handler ==
    \/ \E d \in Data : JumpToBoot(d) \/ EmergencyStop(d)
    \/ \E t \in Threads : EnterStandBy(t) \/ Reboot(t) \/ AcknowledgeFault(t)

Commit == CommitAction \/ CommitAckFault

GuiStep ==
    \/ GuiPuts \/ GuiSetsState \/ GuiActivates \/ GuiUnconfirms
    \/ GuiCounts \/ GuiSetsData \/ GuiStamps

RosStep ==
    \/ TestExpired \/ PutAgain \/ CountAttempt \/ CompareRetries \/ Ends
    \/ Serialise

Write == WriteFull \/ WritePartial \/ WriteFails

Environment == EcuAnswers \/ EcuAnswersOther \/ LoseFrame \/ LoseAnswer

Next ==
    \/ Handler
    \/ Commit
    \/ GuiStep
    \/ \E s \in {"DOCKING", "AUTO"} : ToggleDockingMode(s)
    \/ \E a \in Actions : TimePasses(a)
    \/ CommandTick
    \/ RosStep
    \/ Write
    \/ ReadFails
    \/ Reconnect
    \/ \E n \in 1 .. MaxLink : Receive(n)
    \/ Environment

Spec == Init /\ [][Next]_vars

(***************************************************************************)
(* The command timer is a wall timer at 100 Hz and the executor serves a   *)
(* ready timer before a ready subscription or service, so other callbacks  *)
(* that keep coming do not starve it.  A thread inside a handler or inside *)
(* a serial write (which has a timeout) goes on, and time passes.          *)
(***************************************************************************)
Fairness ==
    /\ SF_vars(CommandTick)
    /\ WF_vars(Commit \/ RosStep \/ Write)
    /\ WF_vars(GuiStep)
    /\ \A a \in Actions : WF_vars(TimePasses(a))

FairSpec == Spec /\ Fairness

-----------------------------------------------------------------------------
\* Properties.

(***************************************************************************)
(* The driver keeps what ActionQueue promises: one open request at a time, *)
(* put in the command at most MaxRetries + 1 times, ended only by an       *)
(* answer or after the last put.  The handlers, manage_robot_actions and   *)
(* publish_data share the four status structs for it.  A request is open   *)
(* no more from the moment its ending begins.                              *)
(***************************************************************************)
AQ == INSTANCE ActionQueue WITH
        Names <- Actions, Values <- Data,
        open <- {[name |-> a, value |-> data[a], puts |-> puts[a]] :
                    a \in IF At("end") THEN {} ELSE queued},
        inbox <- fromEcu

Promise == AQ!Spec

\* At most one action is queued: what each handler's check is there for
\* ("Another action is already queued!").
AtMostOneQueued == \A a, b \in queued : a = b

\* What the command holds for an action is what its last accepted request
\* asked, however often manage_robot_actions put it there again.
CommandIsAsRequested ==
    \A a \in Actions : actions[a] # Unset => sent[a] > 0 /\ actions[a] = data[a]

(***************************************************************************)
(* clear_command takes a request out of the command only when a frame has  *)
(* been written whole, and then the frame carried it, or it came into the  *)
(* command during the send and is queued (or being queued) to be put there *)
(* again.  An acknowledgement is not: one that the websocket thread writes *)
(* during the send is gone.                                                *)
(***************************************************************************)
IsBeingQueued(f) == "gui" \in Threads /\ Gui.field = f

NothingClearedUnsent ==
    [][\A f \in Fields :
          actions[f] # Unset /\ actions'[f] = Unset =>
              /\ SentWhole
              /\ \/ frame.actions[f] = actions[f]
                 \/ f \in queued \ confirmed
                 \/ IsBeingQueued(f)
                 \/ f = AckFault /\ "gui" \in Threads]_vars

\* Left active and confirmed: manage_robot_actions looks at nothing else.
Stuck == queued # {} /\ Current \in confirmed

\* Once clients stop asking for actions, what is queued ends, answered or given
\* up, whether the ECU is connected or not, unless the websocket thread's
\* writes came into an ending.
QueuedIsResolved ==
    <>[][~Commit /\ ~GuiStep]_vars => (queued # {} ~> queued = {} \/ Stuck)
=============================================================================
