----------------------------- MODULE PageProofs ------------------------------
(***************************************************************************)
(* Theorems about the web page and its server (WebControl), for any pages, *)
(* connections and room for messages, and about the settings it shares     *)
(* with the node's topics and services (CommandConfig), for any gains.     *)
(*                                                                         *)
(* The server: who holds m_mutex can be told from where its thread is, so  *)
(* m_connections stands still while a broadcast goes through it, and a     *)
(* connection that is in it was welcomed or is about to be, by the thread  *)
(* that holds the lock.                                                    *)
(*                                                                         *)
(* The page: no two pages share a connection, and nothing was sent on one  *)
(* before its page is "CONECTADO"; so only its own joystick can follow a   *)
(* stop.                                                                   *)
(*                                                                         *)
(* The settings: no request reaches the ROS thread while a frame is being  *)
(* written, so what waits in last_command_ then is in the frame, unless    *)
(* the page has replaced it meanwhile.                                     *)
(***************************************************************************)
EXTENDS WebControl, CommandConfig, TLAPS

\* What the server's thread serves while it does.
Served ==
    /\ at \in {"accepting", "welcoming", "dropping"} => serving \in Conns
    /\ at \in {"accepting", "welcoming"} => conn[serving] \in {"open", "lost"}
    /\ at = "dropping" => conn[serving] = "terminated"

\* The holder of the lock, and the loops it allows.
Locked ==
    /\ mutex = "server" <=> at \in {"welcoming", "casting"}
    /\ casting["server"] # {} => at = "casting"
    /\ casting["ros"] # {} => mutex = "ros"
    /\ \A t \in Threads : casting[t] \subseteq members

Registered == \A c \in members : conn[c] \in {"open", "lost", "terminated"}

Welcomed ==
    \A c \in members :
        conn[c] = "open" => first[c] # None \/ (at = "welcoming" /\ serving = c)

\* What a broadcast has not reached it has still to reach.
Reaching ==
    \A t \in Threads : mutex = t /\ at # "welcoming" =>
        \A c \in members : conn[c] = "open" => c \in got[t] \cup casting[t]

ServerInv == Served /\ Locked /\ Registered /\ Welcomed /\ Reaching /\ WelcomeFirst

PagesApart == \A p, q \in Pages : ws[p] # None /\ ws[p] = ws[q] => p = q

UpOwns == \A p \in up : ws[p] # None /\ conn[ws[p]] \notin {"none", "opening"}

Quiet(c) == inbox[c] = <<>> /\ velocity[c] = None

Unopened == \A c \in Conns : conn[c] = "none" => Quiet(c) /\ \A p \in Pages : ws[p] # c

\* Nothing is sent on a connection before its page knows it is open.
NotYetUp ==
    \A p \in Pages \ up :
        ws[p] # None /\ conn[ws[p]] \in {"opening", "open"} => Quiet(ws[p])

PageInv == PagesApart /\ UpOwns /\ Unopened /\ NotYetUp /\ JoystickEndsInStop

-----------------------------------------------------------------------------
\* Messages on their way.

\* What a page sends is put behind what it sent before.
LEMMA SentType ==
    ASSUME TypeOK, NEW c \in Conns, NEW messages \in Seq(Messages)
    PROVE  /\ Sent(c, messages) \in [Conns -> Seq(Messages)]
           /\ Sent(c, messages)[c] = IF conn[c] = "open" THEN inbox[c] \o messages ELSE inbox[c]
           /\ \A d \in Conns \ {c} : Sent(c, messages)[d] = inbox[d]
BY DEF TypeOK, Sent

LEMMA OneMessage ==
    ASSUME NEW v \in Messages
    PROVE  <<v>> \in Seq(Messages) /\ <<"get_ecu_info", "get_all_configs">> \in Seq(Messages)
BY DEF Messages, Velocities

LEMMA AppendOne ==
    ASSUME NEW s \in Seq(Messages), NEW v \in Messages
    PROVE  /\ s \o <<v>> \in Seq(Messages)
           /\ Len(s \o <<v>>) = Len(s) + 1
           /\ \A i \in 1 .. Len(s) : (s \o <<v>>)[i] = s[i]
           /\ (s \o <<v>>)[Len(s) + 1] = v
OBVIOUS

\* A stop behind anything ends it in a stop, and a message of another kind
\* changes nothing.
LEMMA StopEnds ==
    ASSUME NEW s \in Seq(Messages), NEW handled
    PROVE  EndsInStop(s \o <<"stop">>, handled)
<1> DEFINE sent == {i \in 1 .. Len(s \o <<"stop">>) : (s \o <<"stop">>)[i] \in Velocities}
<1>1. "stop" \in Messages /\ "stop" \in Velocities
  BY DEF Messages, Velocities
<1>2. Len(s) + 1 \in sent /\ \A i \in sent : i <= Len(s) + 1 /\ i \in Nat
  BY <1>1, AppendOne
<1>3. ASSUME NEW i \in sent, \A j \in sent : j <= i
      PROVE  (s \o <<"stop">>)[i] = "stop"
  <2>1. i = Len(s) + 1
    BY <1>2, <1>3
  <2> QED
    BY <1>1, <2>1, AppendOne
<1> QED
  BY <1>2, <1>3 DEF EndsInStop

LEMMA OthersKeepEnd ==
    ASSUME NEW s \in Seq(Messages), NEW handled, NEW v \in Messages \ Velocities,
           EndsInStop(s, handled)
    PROVE  EndsInStop(s \o <<v>>, handled)
<1>1. {i \in 1 .. Len(s \o <<v>>) : (s \o <<v>>)[i] \in Velocities}
          = {i \in 1 .. Len(s) : s[i] \in Velocities}
  BY AppendOne
<1>2. \A i \in 1 .. Len(s) : (s \o <<v>>)[i] = s[i]
  BY AppendOne
<1> QED
  BY <1>1, <1>2 DEF EndsInStop

\* Handling the first message keeps the end.
LEMMA TailKeepsEnd ==
    ASSUME NEW s \in Seq(Messages), s # <<>>, NEW handled, EndsInStop(s, handled)
    PROVE  EndsInStop(Tail(s), IF Head(s) \in Velocities THEN Head(s) ELSE handled)
<1> DEFINE sent == {i \in 1 .. Len(s) : s[i] \in Velocities}
           left == {i \in 1 .. Len(Tail(s)) : Tail(s)[i] \in Velocities}
<1>1. /\ Len(Tail(s)) = Len(s) - 1 /\ Len(s) \in Nat \ {0} /\ Head(s) = s[1]
      /\ \A i \in 1 .. Len(Tail(s)) : Tail(s)[i] = s[i + 1]
  OBVIOUS
<1>2. \A i \in left : i + 1 \in sent /\ i \in Nat
  BY <1>1
<1>3. \A i \in sent : i = 1 \/ i - 1 \in left
  BY <1>1
<1>4. IF sent = {} THEN handled # "move"
      ELSE \A i \in sent : (\A j \in sent : j <= i) => s[i] = "stop"
  BY DEF EndsInStop
<1> DEFINE last == IF Head(s) \in Velocities THEN Head(s) ELSE handled
<1>5. EndsInStop(Tail(s), last) <=>
          IF left = {} THEN last # "move"
          ELSE \A i \in left : (\A j \in left : j <= i) => Tail(s)[i] = "stop"
  BY DEF EndsInStop
<1>6. CASE left = {} /\ 1 \in sent
  <2>1. s[1] = "stop"
    <3> HIDE DEF sent, left
    <3>1. \A j \in sent : j <= 1
      BY <1>3, <1>6
    <3> QED
      BY <1>4, <1>6, <3>1
  <2>2. last = "stop"
    BY <1>1, <2>1 DEF Velocities
  <2> QED
    BY <1>5, <1>6, <2>2
<1>7. CASE left = {} /\ 1 \notin sent
  <2>1. sent = {}
    BY <1>3, <1>7
  <2>2. Head(s) \notin Velocities
    BY <1>1, <1>7
  <2> QED
    BY <1>4, <1>5, <1>7, <2>1, <2>2
<1>8. CASE left # {}
  <2>1. ASSUME NEW i \in left, \A j \in left : j <= i
        PROVE  Tail(s)[i] = "stop"
    <3>1. \A j \in sent : j <= i + 1
      BY <1>2, <1>3, <2>1
    <3>2. s[i + 1] = "stop"
      BY <1>2, <1>4, <3>1
    <3> QED
      BY <1>1, <3>2
  <2> QED
    BY <1>5, <1>8, <2>1
<1> QED
  BY <1>5, <1>6, <1>7, <1>8

-----------------------------------------------------------------------------
\* The invariants of one side under the steps of the other.

\* The pages and the network leave the server alone; connections get lost.
LEMMA ServerKept ==
    ASSUME TypeOK, ServerInv,
           UNCHANGED <<members, mutex, at, serving, casting, got, first>>,
           \A c \in Conns :
               conn[c] \in {"open", "lost", "terminated"} =>
                   conn'[c] = conn[c] \/ (conn[c] = "open" /\ conn'[c] = "lost")
    PROVE  ServerInv'
<1>1. Served' /\ Locked' /\ WelcomeFirst'
  BY DEF ServerInv, Served, Locked, WelcomeFirst
<1>2. Registered' /\ Welcomed' /\ Reaching'
  BY DEF TypeOK, ServerInv, Registered, Welcomed, Reaching
<1> QED
  BY <1>1, <1>2 DEF ServerInv

\* The server takes the first message of a connection, opens connections and
\* closes them.
LEMMA PageKept ==
    ASSUME TypeOK, PageInv, UNCHANGED <<ws, up, finger>>,
           \A c \in Conns :
               /\ conn'[c] = "none" <=> conn[c] = "none"
               /\ conn'[c] = "opening" => conn[c] = "opening"
               /\ conn'[c] = "open" => conn[c] \in {"opening", "open"}
               /\ \/ inbox'[c] = inbox[c] /\ velocity'[c] = velocity[c]
                  \/ /\ inbox[c] # <<>> /\ inbox'[c] = Tail(inbox[c])
                     /\ velocity'[c] = IF Head(inbox[c]) \in Velocities
                                       THEN Head(inbox[c]) ELSE velocity[c]
                  \/ conn[c] = "open" /\ conn'[c] = "lost"
    PROVE  PageInv'
<1> USE DEF TypeOK, PageInv
<1>0. \A p \in Pages : ws[p] # None => ws[p] \in Conns
  OBVIOUS
<1>1. PagesApart' /\ UpOwns'
  BY <1>0 DEF PagesApart, UpOwns
<1>2. Unopened'
  BY DEF Unopened, Quiet
<1>3. NotYetUp'
  BY <1>0 DEF NotYetUp, Quiet
<1>4. JoystickEndsInStop'
  <2> SUFFICES ASSUME NEW p \in up \ finger, conn'[ws[p]] = "open"
               PROVE  EndsInStop(inbox'[ws[p]], velocity'[ws[p]])
    BY DEF JoystickEndsInStop
  <2>1. ws[p] \in Conns /\ conn[ws[p]] = "open"
    BY <1>0 DEF UpOwns
  <2>2. EndsInStop(inbox[ws[p]], velocity[ws[p]]) /\ inbox[ws[p]] \in Seq(Messages)
    BY <2>1 DEF JoystickEndsInStop
  <2>3. CASE inbox'[ws[p]] = inbox[ws[p]] /\ velocity'[ws[p]] = velocity[ws[p]]
    BY <2>2, <2>3
  <2>4. CASE /\ inbox[ws[p]] # <<>> /\ inbox'[ws[p]] = Tail(inbox[ws[p]])
             /\ velocity'[ws[p]] = IF Head(inbox[ws[p]]) \in Velocities
                                   THEN Head(inbox[ws[p]]) ELSE velocity[ws[p]]
    BY <2>2, <2>4, TailKeepsEnd
  <2> QED
    BY <2>1, <2>3, <2>4
<1> QED
  BY <1>1, <1>2, <1>3, <1>4

-----------------------------------------------------------------------------
\* What a page does.

\* A page that is connected sends one message: its stop, anything while its
\* joystick is held, or what is not a velocity.
LEMMA OneSent ==
    ASSUME TypeOK, PageInv, NEW p \in Pages, NEW v \in Messages,
           UNCHANGED <<ws, up, conn, velocity>>,
           \A q \in Pages \ {p} : q \in finger' <=> q \in finger,
           inbox' = IF p \in up THEN Sent(ws[p], <<v>>) ELSE inbox,
           v = "stop" \/ p \in finger' \/ (v \notin Velocities /\ finger' = finger)
    PROVE  PageInv' /\ inbox' \in [Conns -> Seq(Messages)]
<1> USE DEF TypeOK, PageInv
<1>0. \A q \in Pages : ws[q] # None => ws[q] \in Conns
  OBVIOUS
<1>1. p \in up => ws[p] \in Conns /\ conn[ws[p]] # "none"
  BY <1>0 DEF UpOwns
<1>2. inbox' \in [Conns -> Seq(Messages)]
  BY <1>1, OneMessage, SentType
\* Nobody else's connection is touched, and its own only if it is open.
<1>3. \A c \in Conns : inbox'[c] # inbox[c] =>
          p \in up /\ c = ws[p] /\ conn[c] = "open" /\ inbox'[c] = inbox[c] \o <<v>>
  <2> SUFFICES ASSUME NEW c \in Conns, inbox'[c] # inbox[c]
               PROVE  /\ p \in up /\ c = ws[p] /\ conn[c] = "open"
                      /\ inbox'[c] = inbox[c] \o <<v>>
    OBVIOUS
  <2>1. p \in up /\ inbox' = Sent(ws[p], <<v>>) /\ ws[p] \in Conns
    BY <1>1
  <2>2. /\ inbox'[ws[p]] = IF conn[ws[p]] = "open" THEN inbox[ws[p]] \o <<v>> ELSE inbox[ws[p]]
        /\ \A d \in Conns \ {ws[p]} : inbox'[d] = inbox[d]
    <3>1. <<v>> \in Seq(Messages)
      BY OneMessage
    <3>2. /\ Sent(ws[p], <<v>>)[ws[p]] =
                 IF conn[ws[p]] = "open" THEN inbox[ws[p]] \o <<v>> ELSE inbox[ws[p]]
          /\ \A d \in Conns \ {ws[p]} : Sent(ws[p], <<v>>)[d] = inbox[d]
      BY <2>1, <3>1, SentType
    <3> QED
      BY <2>1, <3>2
  <2> QED
    BY <2>1, <2>2
<1>4. PagesApart' /\ UpOwns'
  BY DEF PagesApart, UpOwns
<1>5. Unopened'
  BY <1>3 DEF Unopened, Quiet
<1>6. NotYetUp'
  <2> SUFFICES ASSUME NEW q \in Pages \ up, ws[q] # None,
                      conn[ws[q]] \in {"opening", "open"}
               PROVE  inbox'[ws[q]] = <<>> /\ velocity[ws[q]] = None
    BY DEF NotYetUp, Quiet
  <2>1. inbox[ws[q]] = <<>> /\ velocity[ws[q]] = None
    BY DEF NotYetUp, Quiet
  <2>2. p \in up => ws[q] # ws[p]
    BY DEF PagesApart
  <2> QED
    BY <1>0, <1>3, <2>1, <2>2
<1>7. JoystickEndsInStop'
  <2> SUFFICES ASSUME NEW q \in up, q \notin finger', conn[ws[q]] = "open"
               PROVE  EndsInStop(inbox'[ws[q]], velocity[ws[q]])
    BY DEF JoystickEndsInStop
  <2>1. ws[q] \in Conns /\ ws[q] # None
    BY <1>0 DEF UpOwns
  <2>2. CASE q # p
    <3>1. p \in up => ws[q] # ws[p]
      BY <2>1, <2>2 DEF PagesApart
    <3>2. inbox'[ws[q]] = inbox[ws[q]]
      BY <1>3, <2>1, <3>1
    <3> QED
      BY <2>2, <3>2 DEF JoystickEndsInStop
  <2>3. CASE q = p
    <3>1. inbox'[ws[p]] = inbox[ws[p]] \o <<v>> /\ inbox[ws[p]] \in Seq(Messages)
      BY <1>1, <2>1, <2>3, OneMessage, SentType
    <3>2. CASE v = "stop"
      BY <2>3, <3>1, <3>2, StopEnds
    <3>3. CASE v \notin Velocities /\ finger' = finger
      <4>1. EndsInStop(inbox[ws[p]], velocity[ws[p]])
        BY <2>3, <3>3 DEF JoystickEndsInStop
      <4>2. EndsInStop(inbox[ws[p]] \o <<v>>, velocity[ws[p]])
        BY <3>1, <3>3, <4>1, OthersKeepEnd
      <4> QED
        BY <2>3, <3>1, <4>2
    <3> QED
      BY <2>3, <3>2, <3>3
  <2> QED
    BY <2>2, <2>3
<1> QED
  BY <1>2, <1>4, <1>5, <1>6, <1>7

WebInv == TypeOK /\ ServerInv /\ PageInv

LEMMA ConnectStep ==
    ASSUME WebInv, NEW p \in Pages, Connect(p)
    PROVE  WebInv'
<1> PICK c \in Conns : /\ conn[c] = "none"
                       /\ ws' = [ws EXCEPT ![p] = c]
                       /\ conn' = [conn EXCEPT ![c] = "opening"]
  BY DEF Connect
<1> USE DEF WebInv, Connect, lock, server, cast
<1>0. p \notin up /\ ws[p] = None /\ c # None
  BY NoneAssumption DEF PageInv, UpOwns
<1>1. TypeOK'
  BY DEF TypeOK, Stages
<1>2. ServerInv'
  <2>1. \A d \in Conns : d # c => conn'[d] = conn[d]
    BY DEF TypeOK
  <2> QED
    BY <2>1, ServerKept
<1>3. /\ ws'[p] = c /\ \A q \in Pages \ {p} : ws'[q] = ws[q] /\ ws[q] # c
      /\ conn'[c] = "opening" /\ \A d \in Conns \ {c} : conn'[d] = conn[d]
      /\ Quiet(c)
  BY <1>0 DEF TypeOK, PageInv, Unopened
<1>4. PageInv'
  <2>1. PagesApart'
    BY <1>3 DEF PageInv, PagesApart
  <2>2. UpOwns'
    BY <1>0, <1>3 DEF TypeOK, PageInv, UpOwns
  <2>3. Unopened'
    BY <1>3 DEF PageInv, Unopened, Quiet
  <2>4. NotYetUp'
    BY <1>3 DEF TypeOK, PageInv, NotYetUp, Quiet
  <2>5. JoystickEndsInStop'
    BY <1>0, <1>3 DEF TypeOK, PageInv, UpOwns, JoystickEndsInStop
  <2> QED
    BY <2>1, <2>2, <2>3, <2>4, <2>5 DEF PageInv
<1> QED
  BY <1>1, <1>2, <1>4

LEMMA OnOpenStep ==
    ASSUME WebInv, NEW p \in Pages, OnOpen(p)
    PROVE  WebInv'
<1> USE DEF WebInv, OnOpen, lock, server, cast
<1> DEFINE questions == <<"get_ecu_info", "get_all_configs">>
<1>0. /\ ws[p] \in Conns /\ ws[p] # None /\ p \notin up /\ conn[ws[p]] = "open"
      /\ questions \in Seq(Messages)
      /\ inbox[ws[p]] = <<>> /\ velocity[ws[p]] = None
  BY DEF TypeOK, Messages, PageInv, NotYetUp, Quiet
<1>1. /\ inbox' \in [Conns -> Seq(Messages)]
      /\ inbox'[ws[p]] = inbox[ws[p]] \o questions
      /\ \A d \in Conns \ {ws[p]} : inbox'[d] = inbox[d]
  <2>1. /\ Sent(ws[p], questions) \in [Conns -> Seq(Messages)]
        /\ Sent(ws[p], questions)[ws[p]] =
               IF conn[ws[p]] = "open" THEN inbox[ws[p]] \o questions ELSE inbox[ws[p]]
        /\ \A d \in Conns \ {ws[p]} : Sent(ws[p], questions)[d] = inbox[d]
    BY <1>0, SentType
  <2> QED
    BY <1>0, <2>1
<1>2. TypeOK'
  BY <1>0, <1>1 DEF TypeOK
<1>3. ServerInv'
  BY ServerKept
<1>4. \A q \in Pages \ {p} : ws[q] # ws[p]
  BY <1>0 DEF PageInv, PagesApart
<1>5. PageInv'
  <2>1. PagesApart' /\ UpOwns'
    BY <1>0 DEF PageInv, PagesApart, UpOwns
  <2>2. Unopened'
    BY <1>0, <1>1 DEF PageInv, Unopened, Quiet
  <2>3. NotYetUp'
    BY <1>1, <1>4 DEF TypeOK, PageInv, NotYetUp, Quiet
  <2>4. EndsInStop(inbox'[ws[p]], velocity[ws[p]])
    <3>1. \A i \in 1 .. Len(questions) : questions[i] \notin Velocities
      BY DEF Velocities
    <3>2. inbox'[ws[p]] = questions /\ velocity[ws[p]] # "move"
      BY <1>0, <1>1, NoneAssumption DEF Messages, Velocities
    <3> HIDE DEF questions
    <3> QED
      BY <3>1, <3>2 DEF EndsInStop
  <2>5. JoystickEndsInStop'
    <3> SUFFICES ASSUME NEW q \in up \cup {p}, q \notin finger, conn[ws[q]] = "open"
                 PROVE  EndsInStop(inbox'[ws[q]], velocity[ws[q]])
      BY DEF JoystickEndsInStop
    <3>1. CASE q = p
      BY <2>4, <3>1
    <3>2. CASE q # p
      BY <1>1, <1>4, <3>2 DEF TypeOK, PageInv, UpOwns, JoystickEndsInStop
    <3> QED
      BY <3>1, <3>2
  <2> QED
    BY <2>1, <2>2, <2>3, <2>5 DEF PageInv
<1> QED
  BY <1>2, <1>3, <1>5

LEMMA OnCloseStep ==
    ASSUME WebInv, NEW p \in Pages, OnClose(p)
    PROVE  WebInv'
<1> USE DEF WebInv, OnClose, lock, server, cast
<1>1. TypeOK'
  BY DEF TypeOK
<1>2. ServerInv'
  BY ServerKept
<1>3. /\ ws'[p] = None /\ \A q \in Pages \ {p} : ws'[q] = ws[q]
      /\ p \notin up' /\ up' \subseteq up
      /\ \A q \in Pages \ {p} : q \in up' <=> q \in up
  BY DEF TypeOK
<1>4. PageInv'
  <2>1. PagesApart' /\ UpOwns'
    BY <1>3 DEF TypeOK, PageInv, PagesApart, UpOwns
  <2>2. Unopened'
    BY <1>3, NoneAssumption DEF TypeOK, PageInv, Unopened, Quiet
  <2>3. NotYetUp'
    BY <1>3 DEF PageInv, NotYetUp, Quiet
  <2>4. JoystickEndsInStop'
    BY <1>3 DEF TypeOK, PageInv, JoystickEndsInStop
  <2> QED
    BY <2>1, <2>2, <2>3, <2>4 DEF PageInv
<1> QED
  BY <1>1, <1>2, <1>4

\* The steps that send one message.
LEMMA SendingStep ==
    ASSUME WebInv, NEW p \in Pages, SetLimits(p) \/ Move(p) \/ TimerFires(p) \/ End(p)
    PROVE  WebInv'
<1> USE DEF WebInv, page, lock, server, cast
<1>0. {"move", "stop", "set_limits"} \subseteq Messages /\ "set_limits" \notin Velocities
  BY DEF Messages, Velocities
<1>1. ServerInv'
  BY ServerKept DEF SetLimits, Move, TimerFires, End
<1>2. CASE SetLimits(p)
  <2>1. PageInv' /\ inbox' \in [Conns -> Seq(Messages)]
    BY <1>0, <1>2, OneSent DEF SetLimits
  <2> QED
    BY <1>1, <1>2, <2>1 DEF TypeOK, SetLimits
<1>3. CASE Move(p)
  <2>1. PageInv' /\ inbox' \in [Conns -> Seq(Messages)]
    BY <1>0, <1>3, OneSent DEF Move, SendVelocity
  <2> QED
    BY <1>1, <1>3, <2>1 DEF TypeOK, Move
<1>4. CASE TimerFires(p)
  <2>1. PageInv' /\ inbox' \in [Conns -> Seq(Messages)]
    <3>1. CASE p \in finger
      BY <1>0, <1>4, <3>1, OneSent DEF TimerFires, SendVelocity
    <3>2. CASE p \notin finger
      BY <1>0, <1>4, <3>2, OneSent DEF TimerFires, SendVelocity
    <3> QED
      BY <3>1, <3>2
  <2> QED
    BY <1>1, <1>4, <2>1 DEF TypeOK, TimerFires
<1>5. CASE End(p)
  <2>1. PageInv' /\ inbox' \in [Conns -> Seq(Messages)]
    BY <1>0, <1>5, OneSent DEF End, SendVelocity
  <2> QED
    BY <1>1, <1>5, <2>1 DEF TypeOK, End
<1> QED
  BY <1>2, <1>3, <1>4, <1>5

LEMMA NetworkStep ==
    ASSUME WebInv, Network
    PROVE  WebInv'
<1> USE DEF WebInv, page, lock, server, cast
<1>1. ASSUME NEW c \in Conns, Refuse(c)
      PROVE  WebInv'
  <2>1. /\ conn' = [conn EXCEPT ![c] = "closed"] /\ conn[c] = "opening" /\ c \notin members
        /\ UNCHANGED <<page, inbox, lock, server, cast, first, velocity, waiting>>
    BY <1>1 DEF Refuse, ServerInv, Registered
  <2>2. TypeOK'
    BY <2>1 DEF TypeOK, Stages
  <2>3. ServerInv'
    BY <2>1, ServerKept DEF TypeOK
  <2>4. PageInv'
    BY <2>1, PageKept DEF TypeOK
  <2> QED
    BY <2>2, <2>3, <2>4
<1>2. ASSUME NEW c \in Conns, NEW k \in 0 .. MaxInbox, Lose(c, k)
      PROVE  WebInv'
  <2>1. /\ conn' = [conn EXCEPT ![c] = "lost"] /\ conn[c] = "open"
        /\ inbox' = [inbox EXCEPT ![c] = SubSeq(inbox[c], 1, k)]
        /\ k \in 0 .. Len(inbox[c])
        /\ UNCHANGED <<page, lock, server, cast, first, velocity, waiting>>
    BY <1>2 DEF Lose
  <2>2. TypeOK'
    <3>1. SubSeq(inbox[c], 1, k) \in Seq(Messages)
      BY <2>1 DEF TypeOK
    <3> QED
      BY <2>1, <3>1 DEF TypeOK, Stages
  <2>3. ServerInv'
    BY <2>1, ServerKept DEF TypeOK
  <2>4. PageInv'
    BY <2>1, PageKept DEF TypeOK
  <2> QED
    BY <2>2, <2>3, <2>4
<1> QED
  BY <1>1, <1>2 DEF Network

-----------------------------------------------------------------------------
\* What the server does.

\* The steps of a broadcast, of either thread.
LEMMA CastSendsStep ==
    ASSUME WebInv, NEW t \in Threads, CastSends(t)
    PROVE  WebInv'
<1> PICK c \in casting[t] :
        /\ casting' = [casting EXCEPT ![t] = NextOf(t, c)]
        /\ IF conn[c] = "terminated"
           THEN UNCHANGED <<got, first, waiting>>
           ELSE /\ got' = [got EXCEPT ![t] = @ \cup {c}]
                /\ Sends(c, Reply(t))
  BY DEF CastSends
<1>0. UNCHANGED <<page, conn, inbox, lock, server, velocity>>
  BY DEF CastSends
<1> USE DEF WebInv, page, lock, server
<1>1. c \in members /\ c \in Conns
  BY DEF TypeOK, ServerInv, Locked
\* Whoever loops holds the lock, and the welcome is not under way.
<1>2. mutex = t /\ at # "welcoming"
  BY DEF TypeOK, ServerInv, Locked, Threads
<1>3. conn[c] = "open" => first[c] # None
  BY <1>1, <1>2 DEF ServerInv, Welcomed
<1>4. first' = first
  BY <1>3 DEF Sends
<1>5. TypeOK'
  <2>1. casting' \in [Threads -> SUBSET Conns]
    BY DEF TypeOK, NextOf
  <2>2. got' \in [Threads -> SUBSET Conns]
    <3>1. CASE conn[c] = "terminated"
      BY <3>1 DEF TypeOK
    <3>2. CASE got' = [got EXCEPT ![t] = got[t] \cup {c}]
      BY <1>1, <3>2 DEF TypeOK
    <3> QED
      BY <3>1, <3>2
  <2>3. waiting' \subseteq Conns
    BY DEF TypeOK, Sends
  <2> QED
    BY <1>0, <1>4, <2>1, <2>2, <2>3 DEF TypeOK
<1>6. ServerInv'
  <2>1. Served' /\ Registered' /\ Welcomed' /\ WelcomeFirst'
    BY <1>0, <1>4 DEF ServerInv, Served, Registered, Welcomed, WelcomeFirst
  <2>2. Locked'
    BY <1>0 DEF TypeOK, ServerInv, Locked, NextOf
  <2>3. Reaching'
    BY <1>0, <1>2 DEF TypeOK, ServerInv, Reaching, NextOf
  <2> QED
    BY <2>1, <2>2, <2>3 DEF ServerInv
<1>7. PageInv'
  BY <1>0, PageKept
<1> QED
  BY <1>5, <1>6, <1>7

\* The steps of a broadcast's lock.
LEMMA LockStep ==
    ASSUME WebInv, RosBroadcasts \/ RosReturns \/ BroadcastInfo \/ Replied
    PROVE  WebInv'
<1> USE DEF WebInv, page, lock, server, cast, Threads
<1>1. PageInv'
  BY PageKept DEF RosBroadcasts, RosReturns, BroadcastInfo, Replied
<1>2. CASE RosBroadcasts
  <2>1. TypeOK'
    BY <1>2 DEF TypeOK, RosBroadcasts, CastBegins
  <2>2. ServerInv'
    BY <1>2 DEF TypeOK, ServerInv, Served, Locked, Registered, Welcomed, Reaching,
                WelcomeFirst, RosBroadcasts, CastBegins
  <2> QED
    BY <1>1, <2>1, <2>2
<1>3. CASE RosReturns
  <2>1. TypeOK'
    BY <1>3 DEF TypeOK, RosReturns
  <2>2. ServerInv'
    BY <1>3 DEF TypeOK, ServerInv, Served, Locked, Registered, Welcomed, Reaching,
                WelcomeFirst, RosReturns
  <2> QED
    BY <1>1, <2>1, <2>2
<1>4. CASE BroadcastInfo
  <2>1. TypeOK'
    BY <1>4 DEF TypeOK, BroadcastInfo, CastBegins
  <2>2. ServerInv'
    BY <1>4 DEF TypeOK, ServerInv, Served, Locked, Registered, Welcomed, Reaching,
                WelcomeFirst, BroadcastInfo, CastBegins
  <2> QED
    BY <1>1, <2>1, <2>2
<1>5. CASE Replied
  <2>1. TypeOK'
    BY <1>5 DEF TypeOK, Replied
  <2>2. ServerInv'
    BY <1>5 DEF TypeOK, ServerInv, Served, Locked, Registered, Welcomed, Reaching,
                WelcomeFirst, Replied
  <2> QED
    BY <1>1, <2>1, <2>2
<1> QED
  BY <1>2, <1>3, <1>4, <1>5

\* on_open: a connection that is not in m_connections opens, and is put there
\* and welcomed under one lock.
LEMMA AcceptedStep ==
    ASSUME WebInv, Insert \/ Welcome \/ \E c \in Conns : Accept(c)
    PROVE  WebInv'
<1> USE DEF WebInv, page, lock, server, cast, Threads
<1>1. ASSUME NEW c \in Conns, Accept(c)
      PROVE  WebInv'
  <2>1. c \notin members /\ conn[c] = "opening"
    BY <1>1 DEF Accept, ServerInv, Registered
  <2>2. /\ conn'[c] = "open" /\ \A d \in Conns \ {c} : conn'[d] = conn[d]
        /\ conn' \in [Conns -> Stages]
    BY <1>1 DEF Accept, TypeOK, Stages
  <2>3. TypeOK'
    BY <1>1, <2>2 DEF Accept, TypeOK
  <2>4. ServerInv'
    BY <1>1, <2>1, <2>2 DEF Accept, TypeOK, ServerInv, Served, Locked, Registered, Welcomed,
                            Reaching, WelcomeFirst
  <2>5. PageInv'
    BY <1>1, <2>1, <2>2, PageKept DEF Accept
  <2> QED
    BY <2>3, <2>4, <2>5
<1>2. CASE Insert
  <2>1. serving \in Conns /\ conn[serving] \in {"open", "lost"}
    BY <1>2 DEF Insert, ServerInv, Served
  <2>2. TypeOK'
    BY <1>2, <2>1 DEF Insert, TypeOK
  <2>3. Served' /\ Registered' /\ Welcomed' /\ WelcomeFirst'
    BY <1>2, <2>1 DEF Insert, TypeOK, ServerInv, Served, Registered, Welcomed, WelcomeFirst
  <2>4. Locked' /\ Reaching'
    BY <1>2, <2>1 DEF Insert, TypeOK, ServerInv, Locked, Reaching
  <2>5. PageInv'
    BY <1>2, PageKept DEF Insert
  <2> QED
    BY <2>2, <2>3, <2>4, <2>5 DEF ServerInv
<1>3. CASE Welcome
  <2>1. serving \in Conns /\ mutex = "server"
    BY <1>3 DEF Welcome, ServerInv, Served, Locked
  <2>2. /\ first' \in [Conns -> Replies \cup {None}] /\ waiting' \subseteq Conns
        /\ \A c \in Conns \ {serving} : first'[c] = first[c]
        /\ first'[serving] = IF first[serving] = None /\ conn[serving] = "open"
                             THEN "welcome" ELSE first[serving]
    BY <1>3, <2>1 DEF Welcome, Sends, TypeOK, Replies
  <2>3. TypeOK'
    BY <1>3, <2>2 DEF Welcome, TypeOK
  <2>4. Served' /\ Registered' /\ Locked' /\ Reaching'
    BY <1>3, <2>1 DEF Welcome, TypeOK, ServerInv, Served, Registered, Locked, Reaching
  <2>5. Welcomed'
    <3>1. "welcome" # None
      BY NoneAssumption DEF Replies
    <3> QED
      BY <1>3, <2>1, <2>2, <3>1 DEF Welcome, TypeOK, ServerInv, Welcomed
  <2>6. WelcomeFirst'
    BY <2>2 DEF ServerInv, WelcomeFirst
  <2>7. PageInv'
    BY <1>3, PageKept DEF Welcome
  <2> QED
    BY <2>3, <2>4, <2>5, <2>6, <2>7 DEF ServerInv
<1> QED
  BY <1>1, <1>2, <1>3

\* on_close.
LEMMA DroppedStep ==
    ASSUME WebInv, Erase \/ \E c \in Conns : Terminate(c)
    PROVE  WebInv'
<1> USE DEF WebInv, page, lock, server, cast, Threads
<1>1. ASSUME NEW c \in Conns, Terminate(c)
      PROVE  WebInv'
  <2>1. TypeOK'
    BY <1>1 DEF Terminate, TypeOK, Stages
  <2>2. ServerInv'
    BY <1>1 DEF Terminate, TypeOK, ServerInv, Served, Locked, Registered, Welcomed,
                Reaching, WelcomeFirst
  <2>3. PageInv'
    BY <1>1, PageKept DEF Terminate, TypeOK
  <2> QED
    BY <2>1, <2>2, <2>3
<1>2. CASE Erase
  <2>1. serving \in Conns /\ conn[serving] = "terminated"
    BY <1>2 DEF Erase, ServerInv, Served
  <2>2. TypeOK'
    BY <1>2 DEF Erase, TypeOK, Stages
  <2>3. ServerInv'
    BY <1>2, <2>1 DEF Erase, TypeOK, ServerInv, Served, Locked, Registered, Welcomed,
                      Reaching, WelcomeFirst
  <2>4. PageInv'
    BY <1>2, <2>1, PageKept DEF Erase, TypeOK
  <2> QED
    BY <2>2, <2>3, <2>4
<1> QED
  BY <1>1, <1>2

\* on_message.
LEMMA HandlesStep ==
    ASSUME WebInv, NEW c \in Conns, Handles(c)
    PROVE  WebInv'
<1> USE DEF WebInv, page, lock, cast
<1>1. /\ UNCHANGED <<page, conn, lock, serving, cast, first, waiting>>
      /\ at = "idle" /\ inbox[c] # <<>> /\ inbox[c] \in Seq(Messages)
      /\ inbox' = [inbox EXCEPT ![c] = Tail(inbox[c])]
      /\ at' \in {"idle", "replying"}
      /\ velocity' = IF Head(inbox[c]) \in Velocities
                     THEN [velocity EXCEPT ![c] = Head(inbox[c])] ELSE velocity
  BY DEF TypeOK, Handles, GetEcuInfo, SetVelocity, GetAllConfigs, SetLimitsThrows, Take,
         Velocities, AfterThrow
<1>2. Tail(inbox[c]) \in Seq(Messages)
  BY <1>1
<1>3. TypeOK'
  BY <1>1, <1>2 DEF TypeOK
<1>4. ServerInv'
  BY <1>1 DEF TypeOK, ServerInv, Served, Locked, Registered, Welcomed, Reaching, WelcomeFirst
<1>5. PageInv'
  BY <1>1, PageKept DEF TypeOK
<1> QED
  BY <1>3, <1>4, <1>5

-----------------------------------------------------------------------------
LEMMA WebInit == Init => WebInv
<1> SUFFICES ASSUME Init PROVE WebInv
  OBVIOUS
<1> USE DEF Init
<1>1. TypeOK
  BY DEF TypeOK, Stages, Threads
<1>2. ServerInv
  BY DEF ServerInv, Served, Locked, Registered, Welcomed, Reaching, WelcomeFirst, Threads
<1>3. PageInv
  BY NoneAssumption DEF PageInv, PagesApart, UpOwns, Unopened, NotYetUp, Quiet,
                        JoystickEndsInStop
<1> QED
  BY <1>1, <1>2, <1>3 DEF WebInv

LEMMA WebStep == WebInv /\ [Next]_vars => WebInv'
<1> SUFFICES ASSUME WebInv, [Next]_vars PROVE WebInv'
  OBVIOUS
<1>1. CASE Page
  BY <1>1, ConnectStep, OnOpenStep, OnCloseStep, SendingStep DEF Page
<1>2. CASE Network
  BY <1>2, NetworkStep
<1>3. CASE \E c \in Conns : Accept(c) \/ Handles(c) \/ Terminate(c)
  BY <1>3, AcceptedStep, HandlesStep, DroppedStep
<1>4. CASE Server
  BY <1>4, AcceptedStep, LockStep, CastSendsStep, DroppedStep DEF Server, Threads
<1>5. CASE RosBroadcasts
  BY <1>5, LockStep
<1>6. CASE Ros
  BY <1>6, CastSendsStep, LockStep DEF Ros, Threads
<1>7. CASE UNCHANGED vars
  <2>1. TypeOK'
    BY <1>7 DEF WebInv, TypeOK, vars, page, lock, server, cast
  <2>2. ServerInv'
    BY <1>7, ServerKept DEF WebInv, vars, page, lock, server, cast
  <2>3. PageInv'
    BY <1>7, PageKept DEF WebInv, vars, page, lock, server, cast
  <2> QED
    BY <2>1, <2>2, <2>3 DEF WebInv
<1> QED
  BY <1>1, <1>2, <1>3, <1>4, <1>5, <1>6, <1>7 DEF Next

LEMMA WebAlways == Spec => []WebInv
BY WebInit, WebStep, PTL DEF Spec

\* The pages, their connections and the server keep their types; the server's
\* thread does not die.
THEOREM WebTypeCorrect == Spec => []TypeOK
<1>1. WebInv => TypeOK
  BY DEF WebInv
<1> QED
  BY <1>1, WebAlways, PTL

\* on_open inserts and welcomes under one lock, so whatever the ROS thread
\* broadcasts, a page is welcomed before anything else is sent to it.
THEOREM WelcomedFirst == Spec => []WelcomeFirst
<1>1. WebInv => WelcomeFirst
  BY DEF WebInv, ServerInv
<1> QED
  BY <1>1, WebAlways, PTL

\* A released joystick ends in its stop: for any number of pages that reconnect,
\* the timer of sendJoystickVelocity puts no move behind it.
THEOREM JoystickStops == Spec => []JoystickEndsInStop
<1>1. WebInv => JoystickEndsInStop
  BY DEF WebInv, PageInv
<1> QED
  BY <1>1, WebAlways, PTL

\* A broadcast that gives m_mutex back has reached every connection that is
\* open, whoever came or went since it began.
THEOREM BroadcastsReach == Spec => BroadcastReaches
<1>1. ASSUME WebInv, [Next]_vars, NEW t \in Threads,
             mutex = t, mutex' = "free", at # "welcoming",
             NEW c \in members, conn[c] = "open"
      PROVE  c \in got[t]
  <2>1. c \in got[t] \cup casting[t]
    BY <1>1 DEF WebInv, ServerInv, Reaching
  <2>2. t # "free"
    BY DEF Threads
\* Nothing but the end of a loop gives the lock back.
  <2>3. (mutex = "ros" /\ casting["ros"] = {}) \/ (at = "casting" /\ casting["server"] = {})
    BY <1>1, <2>2 DEF Next, Page, Connect, OnOpen, OnClose, SetLimits, Move, TimerFires, End,
                      Network, Refuse, Lose, Accept, Handles, GetEcuInfo, SetVelocity,
                      GetAllConfigs, SetLimitsThrows, Take, Terminate, Server, Insert, Welcome,
                      BroadcastInfo, CastBegins, CastSends, Replied, Erase, RosBroadcasts, Ros,
                      RosReturns, vars, lock
  <2>4. at = "casting" => mutex = "server"
    BY <1>1 DEF WebInv, ServerInv, Locked
  <2> QED
    BY <1>1, <2>1, <2>3, <2>4
<1>2. WebInv /\ [Next]_vars =>
          [\A t \in Threads : mutex = t /\ mutex' = "free" /\ at # "welcoming" =>
              \A c \in members : conn[c] = "open" => c \in got[t]]_vars
  BY <1>1
<1> QED
  BY <1>2, WebAlways, PTL DEF Spec, BroadcastReaches

-----------------------------------------------------------------------------
\* The gains and the LED.

\* Between the page's two writes either the switch still waits or apart is set.
PageLighting == pageLed # Unset => external # Unset \/ apart

\* The ROS thread is in one place: what it has still to write, it has the
\* sub-message for, and no frame is being written.
Writing ==
    /\ setting # NoGroup => gains # Unset /\ ~sending
    /\ rosLed # Unset => external # Unset /\ ~sending

\* What is still to be sent is in the frame that is being written.
FrameCarries ==
    sending => /\ \A k \in {"p", "i"} :
                     accepted[k] # Unset => frame.gains # Unset /\ frame.gains[k] = accepted[k]
               /\ ledAsked # Unset => frame.external = ledAsked

ConfigInv == AcceptedIsSent /\ PageLighting /\ Writing /\ FrameCarries /\ LedIsControlled

-----------------------------------------------------------------------------
\* What the page merges are gains.
LEMMA MergeType ==
    ASSUME NEW g \in Gains, NEW u \in Updates
    PROVE  Merge(g, u) \in Gains
BY DEF Merge, Given, Gains, Updates

LEMMA Absent ==
    /\ Default \in Gains /\ NoGroup \in Groups /\ Gains \subseteq Groups
    /\ NoFrame \in [gains : Optional(Gains), external : Optional(BOOLEAN),
                    led : Optional(BOOLEAN)]
BY ValuesAssumption DEF Default, Gains, NoGroup, Groups, NoFrame, Optional

LEMMA ConfigTypeInit ==
    ASSUME ConfigInit
    PROVE  ConfigTypeOK
<1>1. frame \in [gains : Optional(Gains), external : Optional(BOOLEAN),
                 led : Optional(BOOLEAN)]
  BY Absent DEF ConfigInit
<1>2. ecu \in Gains /\ reported \in Gains /\ setting \in Groups /\ accepted \in Groups
  BY Absent DEF ConfigInit
<1>3. connected \in BOOLEAN /\ sending \in BOOLEAN /\ asked \in BOOLEAN /\ apart \in BOOLEAN
  BY DEF ConfigInit
<1> QED
  BY <1>1, <1>2, <1>3 DEF ConfigInit, ConfigTypeOK, Optional

\* The variables keep their types in every step.
LEMMA ConfigTypeStep ==
    ASSUME ConfigTypeOK, Writing, [ConfigNext]_configVars
    PROVE  ConfigTypeOK'
<1> USE DEF ConfigTypeOK, Optional
<1>1. ASSUME NEW g \in Gains, SetPid(g) PROVE ConfigTypeOK'
  <2>1. gains' \in Gains /\ setting' \in Groups
    BY Absent, <1>1 DEF SetPid, Touched
  <2> QED
    BY <1>1, <2>1 DEF SetPid, gui
<1>15. ASSUME NEW group \in {"p", "i"}, SetPidWrites(group)
       PROVE  ConfigTypeOK'
  <2>1. setting[group] \in Values
    BY <1>15 DEF SetPidWrites, Groups
  <2>2. gains \in Gains
    <3>1. NoGroup[group] = Unset
      BY DEF NoGroup
    <3> QED
      BY <1>15, <3>1 DEF SetPidWrites, Writing
  <2>3. gains' \in Gains /\ setting' \in Groups /\ accepted' \in Groups
    BY <1>15, <2>1, <2>2 DEF SetPidWrites, Gains, Groups
  <2> QED
    BY <1>15, <2>3 DEF SetPidWrites, gui
<1>2. CASE RefusePid
  BY Absent, <1>2 DEF RefusePid, AfterRefusal, Touched, history, gui, ros
<1>3. ASSUME NEW active \in BOOLEAN, NEW valid \in BOOLEAN, LedCommand(active, valid)
      PROVE  ConfigTypeOK'
  <2>1. /\ external' \in Optional(BOOLEAN) /\ ledAsked' \in Optional(BOOLEAN)
      /\ apart' \in BOOLEAN
    BY <1>3 DEF LedCommand
  <2>2. rosLed' \in Optional(BOOLEAN)
    BY <1>3 DEF LedCommand
  <2> QED
    BY <1>3, <2>1, <2>2 DEF LedCommand, gui
<1>16. CASE LedLights
  BY <1>16 DEF LedLights, history, gui
<1>4. ASSUME NEW u \in Updates, PageMerges(u) PROVE ConfigTypeOK'
  BY <1>4, MergeType DEF PageMerges, command, history, gui, ros
<1>5. CASE PageWrites
  BY <1>5, Absent DEF PageWrites, ros
<1>6. CASE Serialise
  BY <1>6 DEF Serialise, command, history, gui, ros
<1>7. ASSUME NEW arrives \in BOOLEAN, WriteFull(arrives) PROVE ConfigTypeOK'
  <2>1. accepted' \in Groups
    BY <1>7 DEF WriteFull, Groups
  <2>2. frame' \in [gains : Optional(Gains), external : Optional(BOOLEAN),
                    led : Optional(BOOLEAN)]
    BY Absent, <1>7 DEF WriteFull, EndTick
  <2>3. /\ ecu' \in Gains /\ ledAsked' \in Optional(BOOLEAN)
        /\ sending' \in BOOLEAN /\ apart' \in BOOLEAN
    BY <1>7 DEF WriteFull, EndTick
  <2> QED
    BY <1>7, <2>1, <2>2, <2>3 DEF WriteFull, ClearCommand, gui, ros
<1>8. CASE WritePartial
  <2>1. frame' \in [gains : Optional(Gains), external : Optional(BOOLEAN),
                    led : Optional(BOOLEAN)]
    BY Absent, <1>8 DEF WritePartial, EndTick
  <2>2. connected' \in BOOLEAN /\ sending' \in BOOLEAN
    BY <1>8 DEF WritePartial, EndTick
  <2> QED
    BY <1>8, <2>1, <2>2 DEF WritePartial, command, history, gui, ros
<1>9. CASE WriteFails
  <2>1. frame' \in [gains : Optional(Gains), external : Optional(BOOLEAN),
                    led : Optional(BOOLEAN)]
    BY Absent, <1>9 DEF WriteFails, EndTick
  <2>2. connected' \in BOOLEAN /\ sending' \in BOOLEAN
    BY <1>9 DEF WriteFails, EndTick
  <2> QED
    BY <1>9, <2>1, <2>2 DEF WriteFails, command, history, gui, ros
<1>10. CASE Reconnect
  BY <1>10 DEF Reconnect, command, history, gui, ros
<1>11. CASE Report
  BY <1>11 DEF Report, command, history, gui, ros
<1>12. ASSUME NEW active \in BOOLEAN, PageSwitches(active) PROVE ConfigTypeOK'
  <2>1. /\ external' \in Optional(BOOLEAN) /\ pageLed' \in Optional(BOOLEAN)
      /\ apart' \in BOOLEAN
    BY <1>12 DEF PageSwitches, ros
  <2>2. ledAsked' \in Optional(BOOLEAN)
    BY <1>12 DEF PageSwitches, ros
  <2> QED
    BY <1>12, <2>1, <2>2 DEF PageSwitches, ros
<1>13. CASE PageLights
  BY <1>13 DEF PageLights, history, ros
<1>14. CASE UNCHANGED configVars
  BY <1>14 DEF configVars, command, history, gui, ros
<1> QED
  BY <1>1, <1>2, <1>3, <1>4, <1>5, <1>6, <1>7, <1>8, <1>9, <1>10, <1>11, <1>12, <1>13,
     <1>14, <1>15, <1>16 DEF ConfigNext, Requests

-----------------------------------------------------------------------------
\* The strengthening holds at the start and is kept by every step.
LEMMA ConfigStarts == ConfigInit => ConfigInv
BY DEF ConfigInit, ConfigInv, AcceptedIsSent, PageLighting, Writing, FrameCarries,
   LedIsControlled, NoFrame, NoGroup

LEMMA ConfigStep ==
    ASSUME ConfigInv, ConfigTypeOK, [ConfigNext]_configVars
    PROVE  ConfigInv'
<1> USE DEF ConfigInv, AcceptedIsSent, PageLighting, FrameCarries, LedIsControlled
<1>0. Unset \notin BOOLEAN /\ Unset \notin Gains /\ Unset \notin Values
  BY ValuesAssumption DEF Gains
\* The gains it touches were absent, and then none were waiting.
<1>1. ASSUME NEW g \in Gains, SetPid(g) PROVE ConfigInv'
  BY <1>0, <1>1, Absent DEF SetPid, RosIsFree, Touched, Writing, gui
<1>2. CASE RefusePid
  BY <1>2 DEF RefusePid, RosIsFree, AfterRefusal, Touched, Writing, history, gui, ros
\* A write into gains that are there, set_pid's own or the page's.
<1>3. ASSUME NEW group \in {"p", "i"}, SetPidWrites(group) PROVE ConfigInv'
  <2>1. gains # Unset /\ ~sending
    BY <1>3 DEF SetPidWrites, NoGroup, Writing
  <2>2. gains \in Gains
    BY <2>1 DEF ConfigTypeOK, Optional
  <2>3. gains' \in Gains
    BY <1>3, <2>2 DEF SetPidWrites, ConfigTypeOK, Groups, Gains, Optional
  <2>4. \A k \in {"p", "i"} : accepted'[k] # Unset => gains'[k] = accepted'[k]
    BY <1>3, <2>1, <2>2 DEF SetPidWrites, ConfigTypeOK, Groups, Gains
  <2>5. Writing'
    BY <1>0, <1>3, <2>1, <2>3 DEF SetPidWrites, Writing
  <2> QED
    BY <1>0, <1>3, <2>1, <2>3, <2>4, <2>5 DEF SetPidWrites, gui
<1>4. ASSUME NEW active \in BOOLEAN, NEW valid \in BOOLEAN, LedCommand(active, valid)
      PROVE  ConfigInv'
  BY <1>0, <1>4 DEF LedCommand, RosIsFree, Writing, gui
<1>5. CASE LedLights
  BY <1>0, <1>5 DEF LedLights, Writing, history, gui
<1>6. ASSUME NEW u \in Updates, PageMerges(u) PROVE ConfigInv'
  BY <1>6 DEF PageMerges, Writing, command, history, gui, ros
<1>7. CASE PageWrites
  BY <1>7 DEF PageWrites, NoGroup, Writing, ros
<1>8. ASSUME NEW active \in BOOLEAN, PageSwitches(active) PROVE ConfigInv'
  BY <1>0, <1>8 DEF PageSwitches, Writing, ros
<1>9. CASE PageLights
  BY <1>0, <1>9 DEF PageLights, Writing, history, ros
<1>10. CASE Serialise
  BY <1>10 DEF Serialise, RosIsFree, Writing, command, history, gui, ros
\* What waited was in the frame, so nothing waits any more.
<1>11. ASSUME NEW arrives \in BOOLEAN, WriteFull(arrives) PROVE ConfigInv'
  <2>1. accepted'["p"] = Unset /\ accepted'["i"] = Unset /\ ledAsked' = Unset
    BY <1>11 DEF WriteFull, EndTick
  <2>2. Writing'
    BY <1>11 DEF WriteFull, EndTick, Writing, ros
  <2> QED
    BY <1>11, <2>1, <2>2 DEF WriteFull, EndTick, ClearCommand, NoFrame, gui
<1>12. CASE WritePartial
  BY <1>12 DEF WritePartial, EndTick, NoFrame, Writing, command, history, gui, ros
<1>13. CASE WriteFails
  BY <1>13 DEF WriteFails, EndTick, NoFrame, Writing, command, history, gui, ros
<1>14. CASE Reconnect \/ Report
  BY <1>14 DEF Reconnect, Report, Writing, command, history, gui, ros
<1>15. CASE UNCHANGED configVars
  BY <1>15 DEF configVars, Writing, command, history, gui, ros
<1> QED
  BY <1>1, <1>2, <1>3, <1>4, <1>5, <1>6, <1>7, <1>8, <1>9, <1>10, <1>11, <1>12, <1>13,
     <1>14, <1>15 DEF ConfigNext, Requests

LEMMA ConfigAlways == ConfigSpec => [](ConfigTypeOK /\ ConfigInv)
<1>1. ConfigInit => ConfigTypeOK /\ ConfigInv
  BY ConfigTypeInit, ConfigStarts
<1>2. ConfigTypeOK /\ ConfigInv /\ [ConfigNext]_configVars => ConfigTypeOK' /\ ConfigInv'
  BY ConfigTypeStep, ConfigStep DEF ConfigInv
<1> QED
  BY <1>1, <1>2, PTL DEF ConfigSpec

\* The variables keep their types in every behaviour: what the three writers
\* leave in last_command_ can always be serialised, and set_pid has gains to
\* write into whatever the page does between its writes.
THEOREM SettingsCorrect == ConfigSpec => []ConfigTypeOK
BY ConfigAlways, PTL

\* What set_pid has written, and the LED switch, is dropped by nothing before a
\* whole frame carries it but the page's assignment of all the gains.
THEOREM AcceptedStays == ConfigSpec => []AcceptedIsSent
<1>1. ConfigInv => AcceptedIsSent
  BY DEF ConfigInv
<1> QED
  BY <1>1, ConfigAlways, PTL

\* No LED request waits without the switch, but one of the page's between whose
\* two writes a frame was cleared.
THEOREM SwitchWithLed == ConfigSpec => []LedIsControlled
<1>1. ConfigInv => LedIsControlled
  BY DEF ConfigInv
<1> QED
  BY <1>1, ConfigAlways, PTL
=============================================================================
