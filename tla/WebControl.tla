----------------------------- MODULE WebControl ------------------------------
(***************************************************************************)
(* The web pages (src/web/script.js) and the server they talk to           *)
(* (src/src/websocket_interface.cpp).  A page opens a websocket, asks for  *)
(* the ECU's data, sends what the user does, and opens another websocket   *)
(* three seconds after losing one.  The server's thread accepts and drops  *)
(* connections and handles the messages; it and the ROS thread broadcast   *)
(* to m_connections under m_mutex.                                         *)
(*                                                                         *)
(* What the handlers do with last_command_ is in the modules of the        *)
(* commands; of the messages only those that the server answers, does not  *)
(* route or fails on are told apart, and the joystick's.  What the server  *)
(* sends is delivered at once, as no property looks at its way.            *)
(***************************************************************************)
EXTENDS Naturals, Sequences

CONSTANTS
    Pages,
    Drivers,    \* those with a joystick in use (a bound for TLC)
    Typists,    \* those with a form in use (likewise)
    Conns,      \* the connections they may open (a bound for TLC)
    MaxInbox,   \* messages on their way in a connection (a bound for TLC)
    None        \* no connection, no message

Threads == {"server", "ros"}

Velocities == {"move", "stop"}

\* What a page sends: set_velocity_command, set_limits with a blank field,
\* whose handler throws, and the rest.
Messages == Velocities \cup {"get_ecu_info", "get_all_configs", "set_limits"}

\* What the server sends.
Replies == {"welcome", "ecu_info", "full_status"}

ASSUME NoneAssumption == None \notin Conns \cup Messages \cup Replies
ASSUME PagesAssumption == Drivers \subseteq Pages /\ Typists \subseteq Pages
ASSUME InboxAssumption == MaxInbox \in Nat /\ MaxInbox >= 2

VARIABLES
    ws,         \* the websocket of each page, None while it waits to reconnect
    up,         \* the pages that are "CONECTADO"
    finger,     \* the pages whose joystick is held
    timer,      \* those whose joystickTimer is set
    conn,       \* how far each connection is
    inbox,      \* what its page has sent and the server has not handled
    members,    \* m_connections
    mutex,      \* the thread that holds m_mutex, or "free"
    at,         \* where the server's thread is
    serving,    \* the connection it accepts or drops
    casting,    \* connections each thread's broadcast has still to reach
    got,        \* and those it has reached
    first,      \* history: what was sent first on each connection
    velocity,   \* history: the last velocity handled of each connection
    waiting     \* history: connections that asked for ecu_info and got none

page   == <<ws, up, finger, timer>>
lock   == <<members, mutex>>
server == <<at, serving>>
cast   == <<casting, got>>
vars   == <<page, conn, inbox, lock, server, cast, first, velocity, waiting>>

\* "lost": the transport is gone and the server does not know.  "terminated":
\* it knows, sending throws, and on_close has not erased the connection yet.
Stages == {"none", "opening", "open", "lost", "terminated", "closed"}

TypeOK ==
    /\ ws \in [Pages -> Conns \cup {None}]
    /\ up \subseteq Pages /\ finger \subseteq Pages /\ timer \subseteq Pages
    /\ conn \in [Conns -> Stages]
    /\ inbox \in [Conns -> Seq(Messages)]
    /\ members \subseteq Conns
    /\ mutex \in Threads \cup {"free"}
    /\ at \in {"idle", "accepting", "welcoming", "replying", "casting", "dropping", "dead"}
    /\ serving \in Conns \cup {None}
    /\ casting \in [Threads -> SUBSET Conns] /\ got \in [Threads -> SUBSET Conns]
    /\ first \in [Conns -> Replies \cup {None}]
    /\ velocity \in [Conns -> Velocities \cup {None}]
    /\ waiting \subseteq Conns

Init ==
    /\ ws = [p \in Pages |-> None]
    /\ up = {} /\ finger = {} /\ timer = {}
    /\ conn = [c \in Conns |-> "none"]
    /\ inbox = [c \in Conns |-> <<>>]
    /\ members = {} /\ mutex = "free"
    /\ at = "idle" /\ serving = None
    /\ casting = [t \in Threads |-> {}] /\ got = [t \in Threads |-> {}]
    /\ first = [c \in Conns |-> None]
    /\ velocity = [c \in Conns |-> None]
    /\ waiting = {}

-----------------------------------------------------------------------------
\* The page: connect() and the events of its websocket.

Connect(p) ==
    /\ ws[p] = None
    /\ \E c \in Conns :
        /\ conn[c] = "none"
        /\ ws' = [ws EXCEPT ![p] = c]
        /\ conn' = [conn EXCEPT ![c] = "opening"]
    /\ UNCHANGED <<up, finger, timer, inbox, lock, server, cast, first, velocity, waiting>>

\* ws.send: nothing is sent unless the socket is open, and what is sent on a
\* lost one does not arrive.
Sent(c, messages) ==
    IF conn[c] = "open" THEN [inbox EXCEPT ![c] = @ \o messages] ELSE inbox

Room(c, n) == conn[c] = "open" => Len(inbox[c]) + n <= MaxInbox

OnOpen(p) ==
    /\ p \notin up
    /\ ws[p] # None /\ conn[ws[p]] = "open" /\ Room(ws[p], 2)
    /\ up' = up \cup {p}
    /\ inbox' = Sent(ws[p], <<"get_ecu_info", "get_all_configs">>)
    /\ waiting' = waiting \cup {ws[p]}
    /\ UNCHANGED <<ws, finger, timer, conn, lock, server, cast, first, velocity>>

\* onclose and onerror; setTimeout(connect, 3000).
OnClose(p) ==
    /\ ws[p] # None
    /\ conn[ws[p]] \in {"lost", "terminated", "closed"}
    /\ ws' = [ws EXCEPT ![p] = None]
    /\ up' = up \ {p}
    /\ UNCHANGED <<finger, timer, conn, inbox, lock, server, cast, first, velocity, waiting>>

SetLimits(p) ==
    /\ p \in up \cap Typists
    /\ Room(ws[p], 1)
    /\ inbox' = Sent(ws[p], <<"set_limits">>)
    /\ UNCHANGED <<page, conn, lock, server, cast, first, velocity, waiting>>

-----------------------------------------------------------------------------
\* The page: the joystick.

\* sendJoystickVelocity.
SendVelocity(p, v) ==
    IF p \in up
    THEN Room(ws[p], 1) /\ inbox' = Sent(ws[p], <<v>>)
    ELSE UNCHANGED inbox

\* The first `move' sends at once and starts the timer.
Move(p) ==
    /\ p \in Drivers \ timer
    /\ finger' = finger \cup {p}
    /\ timer' = timer \cup {p}
    /\ SendVelocity(p, "move")
    /\ UNCHANGED <<ws, up, conn, lock, server, cast, first, velocity, waiting>>

TimerFires(p) ==
    /\ p \in timer
    /\ SendVelocity(p, IF p \in finger THEN "move" ELSE "stop")
    /\ UNCHANGED <<page, conn, lock, server, cast, first, velocity, waiting>>

EndSilently(p) ==
    /\ p \in finger
    /\ finger' = finger \ {p}
    /\ timer' = timer \ {p}
    /\ UNCHANGED <<ws, up, conn, inbox, lock, server, cast, first, velocity, waiting>>

End(p) ==
    /\ p \in finger
    /\ finger' = finger \ {p}
    /\ timer' = timer \ {p}
    /\ SendVelocity(p, "stop")
    /\ UNCHANGED <<ws, up, conn, lock, server, cast, first, velocity, waiting>>

-----------------------------------------------------------------------------
\* The network (external).  What was sent before a loss may arrive in part.

Refuse(c) ==
    /\ conn[c] = "opening"
    /\ conn' = [conn EXCEPT ![c] = "closed"]
    /\ UNCHANGED <<page, inbox, lock, server, cast, first, velocity, waiting>>

Lose(c, k) ==
    /\ conn[c] = "open"
    /\ k \in 0 .. Len(inbox[c])
    /\ conn' = [conn EXCEPT ![c] = "lost"]
    /\ inbox' = [inbox EXCEPT ![c] = SubSeq(inbox[c], 1, k)]
    /\ UNCHANGED <<page, lock, server, cast, first, velocity, waiting>>

-----------------------------------------------------------------------------
\* Sending.

\* m_server.send, with `kind' the type of the message.
Sends(c, kind) ==
    /\ first' = IF first[c] = None /\ conn[c] = "open"
                THEN [first EXCEPT ![c] = kind] ELSE first
    /\ waiting' = IF kind = "ecu_info" THEN waiting \ {c} ELSE waiting

\* broadcast: lock_guard, then the loop over m_connections.
CastBegins(t) ==
    /\ mutex = "free"
    /\ mutex' = t
    /\ casting' = [casting EXCEPT ![t] = members]
    /\ got' = [got EXCEPT ![t] = {}]

Reply(t) == IF t = "server" THEN "ecu_info" ELSE "full_status"

\* An exception is caught inside the loop, which goes on.
NextEndsLoop(t, c) == IF conn[c] = "terminated" THEN {} ELSE casting[t] \ {c}
NextOf(t, c) == casting[t] \ {c}

CastSends(t) ==
    /\ \E c \in casting[t] :
        /\ casting' = [casting EXCEPT ![t] = NextOf(t, c)]
        /\ IF conn[c] = "terminated"
           THEN UNCHANGED <<got, first, waiting>>
           ELSE /\ got' = [got EXCEPT ![t] = @ \cup {c}]
                /\ Sends(c, Reply(t))
    /\ UNCHANGED <<page, conn, inbox, lock, server, velocity>>

\* publish_full_status and the other broadcasts of the ROS thread.
RosBroadcasts ==
    /\ CastBegins("ros")
    /\ UNCHANGED <<page, conn, inbox, members, server, first, velocity, waiting>>

RosReturns ==
    /\ mutex = "ros" /\ casting["ros"] = {}
    /\ mutex' = "free"
    /\ got' = [got EXCEPT !["ros"] = {}]
    /\ UNCHANGED <<page, conn, inbox, members, server, casting, first, velocity, waiting>>

-----------------------------------------------------------------------------
\* The server's thread: on_open.

Accept(c) ==
    /\ at = "idle"
    /\ conn[c] = "opening"
    /\ conn' = [conn EXCEPT ![c] = "open"]
    /\ at' = "accepting" /\ serving' = c
    /\ UNCHANGED <<page, inbox, lock, cast, first, velocity, waiting>>

InsertUnlocks ==
    /\ at = "accepting"
    /\ mutex = "free"
    /\ members' = members \cup {serving}
    /\ at' = "welcoming"
    /\ UNCHANGED <<page, conn, inbox, mutex, serving, cast, first, velocity, waiting>>

Insert ==
    /\ at = "accepting"
    /\ mutex = "free"
    /\ mutex' = "server"
    /\ members' = members \cup {serving}
    /\ at' = "welcoming"
    /\ UNCHANGED <<page, conn, inbox, serving, cast, first, velocity, waiting>>

Welcome ==
    /\ at = "welcoming"
    /\ Sends(serving, "welcome")
    /\ mutex' = "free"
    /\ at' = "idle" /\ serving' = None
    /\ UNCHANGED <<page, conn, inbox, members, cast, velocity>>

-----------------------------------------------------------------------------
\* The server's thread: on_message, and the handlers of handle_gui_command.

Take(c) ==
    /\ at = "idle"
    /\ conn[c] \in {"open", "lost"}
    /\ inbox[c] # <<>>
    /\ inbox' = [inbox EXCEPT ![c] = Tail(inbox[c])]
    /\ UNCHANGED <<page, conn, lock, serving, cast, first, waiting>>

\* update_ecu_info, up to its broadcast.
GetEcuInfo(c) ==
    /\ Take(c)
    /\ Head(inbox[c]) = "get_ecu_info"
    /\ at' = "replying"
    /\ UNCHANGED velocity

SetVelocity(c) ==
    /\ Take(c)
    /\ Head(inbox[c]) \in Velocities
    /\ velocity' = [velocity EXCEPT ![c] = Head(inbox[c])]
    /\ UNCHANGED at

\* on_message has no branch for it, though handle_gui_command has.
GetAllConfigs(c) ==
    /\ Take(c)
    /\ Head(inbox[c]) = "get_all_configs"
    /\ UNCHANGED <<at, velocity>>

\* A NaN becomes null in JSON, and null is not a number: on_message catches the
\* exception.
AfterThrowEnds == "dead"
AfterThrow == "idle"

SetLimitsThrows(c) ==
    /\ Take(c)
    /\ Head(inbox[c]) = "set_limits"
    /\ at' = AfterThrow
    /\ UNCHANGED velocity

BroadcastInfo ==
    /\ at = "replying"
    /\ CastBegins("server")
    /\ at' = "casting"
    /\ UNCHANGED <<page, conn, inbox, members, serving, first, velocity, waiting>>

Replied ==
    /\ at = "casting" /\ casting["server"] = {}
    /\ mutex' = "free"
    /\ at' = "idle"
    /\ got' = [got EXCEPT !["server"] = {}]
    /\ UNCHANGED <<page, conn, inbox, members, serving, casting, first, velocity, waiting>>

-----------------------------------------------------------------------------
\* The server's thread: on_close.

Terminate(c) ==
    /\ at = "idle"
    /\ conn[c] = "lost" /\ inbox[c] = <<>>
    /\ conn' = [conn EXCEPT ![c] = "terminated"]
    /\ at' = "dropping" /\ serving' = c
    /\ UNCHANGED <<page, inbox, lock, cast, first, velocity, waiting>>

Erase ==
    /\ at = "dropping"
    /\ mutex = "free"
    /\ members' = members \ {serving}
    /\ conn' = [conn EXCEPT ![serving] = "closed"]
    /\ at' = "idle" /\ serving' = None
    /\ UNCHANGED <<page, inbox, mutex, cast, first, velocity, waiting>>

-----------------------------------------------------------------------------
Page ==
    \E p \in Pages :
        Connect(p) \/ OnOpen(p) \/ OnClose(p) \/ SetLimits(p)
            \/ Move(p) \/ TimerFires(p) \/ End(p)

Network == \E c \in Conns : Refuse(c) \/ \E k \in 0 .. MaxInbox : Lose(c, k)

Handles(c) == GetEcuInfo(c) \/ SetVelocity(c) \/ GetAllConfigs(c) \/ SetLimitsThrows(c)

\* What a callback of the server's thread does of itself.
Server == Insert \/ Welcome \/ BroadcastInfo \/ CastSends("server") \/ Replied \/ Erase

Ros == CastSends("ros") \/ RosReturns

Next ==
    \/ Page
    \/ Network
    \/ \E c \in Conns : Accept(c) \/ Handles(c) \/ Terminate(c)
    \/ Server
    \/ RosBroadcasts
    \/ Ros

Spec == Init /\ [][Next]_vars

(***************************************************************************)
(* The ROS thread goes on in its loop, and releases m_mutex for most of    *)
(* the 33 ms between two broadcasts, so that the server's thread gets it;  *)
(* asio serves a connection with data among the others.                    *)
(***************************************************************************)
Fairness ==
    /\ WF_vars(Ros)
    /\ SF_vars(Server)
    /\ \A c \in Conns : SF_vars(Handles(c))

FairSpec == Spec /\ Fairness

-----------------------------------------------------------------------------
\* Properties.

\* on_open inserts and welcomes under one lock: no broadcast of the other thread
\* comes before the welcome.
WelcomeFirst == \A c \in Conns : first[c] \in {None, "welcome"}

\* A broadcast reaches every connection that is open when it ends: sending to
\* another one may throw, and neither thread may insert one under the loop.
BroadcastReaches ==
    [][\A t \in Threads : mutex = t /\ mutex' = "free" /\ at # "welcoming" =>
          \A c \in members : conn[c] = "open" => c \in got[t]]_vars

\* Of the velocities on their way, and handled if there are none, the last is
\* not a move.
EndsInStop(messages, handled) ==
    LET sent == {i \in 1 .. Len(messages) : messages[i] \in Velocities}
    IN  IF sent = {} THEN handled # "move"
        ELSE \A i \in sent : (\A j \in sent : j <= i) => messages[i] = "stop"

\* When the joystick of a connected page is released, the last velocity that is
\* handled or on its way is its stop: nothing of the timer comes behind it.
JoystickEndsInStop ==
    \A p \in up \ finger :
        conn[ws[p]] = "open" => EndsInStop(inbox[ws[p]], velocity[ws[p]])

\* A page that asks for the ECU's data gets it or loses its connection, whatever
\* the other pages send, messages that make a handler throw among them.
AskedIsAnswered == \A c \in Conns : c \in waiting ~> c \notin waiting \/ conn[c] # "open"
=============================================================================
