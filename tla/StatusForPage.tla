---------------------------- MODULE StatusForPage ----------------------------
(***************************************************************************)
(* What a page shows of the robot.  publish_data broadcasts what the ECU   *)
(* reports now and then (its data and its gains), publish_full_status what *)
(* last_message_ holds, thirty times a second while the port is open, and  *)
(* command_callback an empty report at every tick while it is closed, to   *)
(* say so.  The websocket thread answers get_ecu_info with an empty report *)
(* too, which says whether the port was open when it read connected_: one  *)
(* that it sends later than the ROS thread's is out of date.               *)
(*                                                                         *)
(* The page shows each message in the card of its type.  publish_full_     *)
(* status also plays the sounds: SoundPlayer.                              *)
(***************************************************************************)
EXTENDS SoundPlayer, Naturals, Sequences, FiniteSets

CONSTANTS
    Gains,     \* the gains of the four loops, as one value
    NoGains,   \* none: not in a message, or not shown so far
    Zeros,     \* the gains of last_params_ before the first report
    Reports,   \* the ECU's messages (a bound for TLC)
    MaxLine    \* messages on their way to the page (a bound for TLC)

Messages == [info : BOOLEAN, gains : Gains \cup {NoGains}, charging : BOOLEAN]

ASSUME ReportAssumption == Reports \subseteq Messages
ASSUME GainsAssumption == NoGains \notin Gains \cup {Zeros} /\ Zeros \notin Gains
ASSUME LineAssumption == MaxLine \in Nat

VARIABLES
    connected,    \* connected_
    charging,     \* last_message_.power_status().charging()
    last_params,  \* last_params_
    telling,      \* the ROS thread has set it and not yet told the page
    reply,        \* the websocket thread in get_ecu_info: the report it has made
    line,         \* the page's websocket, while it is open
    page          \* the page

statusVars == <<connected, charging, last_params, telling, reply, line, page>>
vars == <<soundVars, statusVars>>

\* The messages of the websocket.
EcuInfo(open) == [type |-> "ecu_info", ecu_connected |-> open]
Configs(gains) == [type |-> "current_configs", configs |-> gains]
FullStatus(b) == [type |-> "full_status", charging |-> b]

Infos == [type : {"ecu_info"}, ecu_connected : BOOLEAN]
PageMessages ==
    Infos \cup [type : {"current_configs"}, configs : Gains]
          \cup [type : {"full_status"}, charging : BOOLEAN]

NoReply == [type |-> "none"]

Classes == {"indicator", "active", "green", "yellow"}
Texts == {"CARREGANDO", "DESCARREGANDO"}

TypeOK ==
    /\ SoundTypeOK
    /\ connected \in BOOLEAN
    /\ charging \in BOOLEAN
    /\ last_params \in Gains \cup {Zeros}
    /\ telling \in BOOLEAN
    /\ reply \in Infos \cup {NoReply}
    /\ line \in Seq(PageMessages)
    /\ page \in [open : BOOLEAN,             \* its websocket
                 ecu : Infos \cup {NoReply}, \* the card of the ECU
                 gains : Gains \cup {NoGains},  \* the labels of the gains
                 told : BOOLEAN,             \* history: of gains, since it opened
                 classes : SUBSET Classes,   \* of the charging indicator
                 text : Texts]               \* its text

Loaded == [open |-> FALSE, ecu |-> NoReply, gains |-> NoGains, told |-> FALSE,
           classes |-> {"indicator"}, text |-> "CARREGANDO"]

Init ==
    /\ SoundInit
    /\ connected = FALSE
    /\ charging = FALSE
    /\ last_params = Zeros
    /\ telling = FALSE
    /\ reply = NoReply
    /\ line = <<>>
    /\ page = Loaded

-----------------------------------------------------------------------------
\* send_robot_status: to the pages that are connected.

Broadcast(messages) ==
    IF page.open
    THEN /\ Len(line) + Len(messages) <= MaxLine
         /\ line' = line \o messages
    ELSE UNCHANGED line

\* The ROS thread is neither playing a sound nor telling the gains.
RosIsFree == ~loading /\ ~telling

\* publish_data, of the message r that has just been decoded, as far as the
\* assignment of last_params_.
ReportInfo(r, open) == IF r.info THEN <<EcuInfo(open)>> ELSE <<>>

Params(r) == IF r.gains = NoGains THEN last_params ELSE r.gains

PublishTellsWithInfo(r, open) ==
    /\ charging' = r.charging
    /\ last_params' = Params(r)
    /\ telling' = (r.info /\ r.gains # NoGains)
    /\ Broadcast(ReportInfo(r, open))

PublishData(r, open) ==
    /\ charging' = r.charging
    /\ last_params' = Params(r)
    /\ telling' = (r.gains # NoGains)
    /\ Broadcast(ReportInfo(r, open))

\* update_config_info, which reads them again.
TellGains ==
    /\ telling
    /\ telling' = FALSE
    /\ Broadcast(<<Configs(last_params)>>)
    /\ UNCHANGED <<soundVars, connected, charging, last_params, reply, page>>

\* packet_callback: it decodes and publishes after a failure of the port too.
PacketCallback(r) ==
    /\ connected /\ RosIsFree
    /\ PublishData(r, TRUE)
    /\ UNCHANGED <<soundVars, connected, reply, page>>

ReportsInfo == \E r \in Reports : r.info /\ PacketCallback(r)

PacketCallbackFails ==
    /\ connected /\ RosIsFree
    /\ connected' = FALSE
    /\ \E r \in Reports : PublishData(r, FALSE)
    /\ UNCHANGED <<soundVars, reply, page>>

SaysNothing ==
    /\ ~connected /\ RosIsFree
    /\ UNCHANGED vars

\* command_callback, while the port is closed: only what it tells the page.
ReportsClosed ==
    /\ ~connected /\ RosIsFree
    /\ Broadcast(<<EcuInfo(FALSE)>>)
    /\ UNCHANGED <<soundVars, connected, charging, last_params, telling, reply, page>>

\* A write of command_callback fails, or packet_callback with nothing decoded.
PortFails ==
    /\ connected /\ RosIsFree
    /\ connected' = FALSE
    /\ UNCHANGED <<soundVars, charging, last_params, telling, reply, line, page>>

\* reconnect_callback: nothing is told to the page.
Reconnect ==
    /\ ~connected /\ RosIsFree
    /\ connected' = TRUE
    /\ UNCHANGED <<soundVars, charging, last_params, telling, reply, line, page>>

\* publish_full_status: first the sound, then the status, whether or not a
\* message has come since the port was opened.
SendFullStatus == Broadcast(<<FullStatus(charging)>>)

PublishFullStatus ==
    /\ connected /\ RosIsFree
    /\ \/ (NotDue \/ DueMuted \/ LoadFails) /\ SendFullStatus
       \/ Load /\ UNCHANGED line
    /\ UNCHANGED <<connected, charging, last_params, telling, reply, page>>

PlayThenPublish ==
    /\ PlayChannel
    /\ SendFullStatus
    /\ UNCHANGED <<connected, charging, last_params, telling, reply, page>>

-----------------------------------------------------------------------------
\* The websocket thread, for a get_ecu_info of this page or of another: it
\* reads connected_ for the report and then takes the lock to send it.
GetEcuInfo ==
    /\ reply = NoReply
    /\ reply' = EcuInfo(connected)
    /\ UNCHANGED <<soundVars, connected, charging, last_params, telling, line, page>>

SendReply ==
    /\ reply # NoReply
    /\ Broadcast(<<reply>>)
    /\ reply' = NoReply
    /\ UNCHANGED <<soundVars, connected, charging, last_params, telling, page>>

-----------------------------------------------------------------------------
\* The page.

Opens ==
    /\ ~page.open
    /\ page' = [page EXCEPT !.open = TRUE, !.told = FALSE]
    /\ UNCHANGED <<soundVars, connected, charging, last_params, telling, reply, line>>

\* Its websocket is lost with what was on the way, or the user loads it again.
Closes ==
    /\ page.open
    /\ page' \in {[page EXCEPT !.open = FALSE], Loaded}
    /\ line' = <<>>
    /\ UNCHANGED <<soundVars, connected, charging, last_params, telling, reply>>

Colour(b) == IF b THEN "green" ELSE "yellow"
Text(b) == IF b THEN "CARREGANDO" ELSE "DESCARREGANDO"

\* updateIndicator: the classes are cleared when there are more than three.
TooManyAtFive(classes) == Cardinality(classes) > 4
TooMany(classes) == Cardinality(classes) > 3

Indicator(classes, b) ==
    (IF TooMany(classes) THEN {"indicator"} ELSE classes) \cup {"active", Colour(b)}

Handled(m) ==
    CASE m.type = "ecu_info" -> [page EXCEPT !.ecu = m]
      [] m.type = "current_configs" -> [page EXCEPT !.gains = m.configs, !.told = TRUE]
      [] m.type = "full_status" ->
            [page EXCEPT !.classes = Indicator(page.classes, m.charging),
                         !.text = Text(m.charging)]

HandleMessage ==
    /\ line # <<>>
    /\ page' = Handled(Head(line))
    /\ line' = Tail(line)
    /\ UNCHANGED <<soundVars, connected, charging, last_params, telling, reply>>

-----------------------------------------------------------------------------
MuteSounds == (\E b \in BOOLEAN : SetMute(b)) /\ UNCHANGED statusVars

Next ==
    \/ (\E r \in Reports : PacketCallback(r)) \/ PacketCallbackFails \/ TellGains
    \/ ReportsClosed \/ PortFails
    \/ Reconnect \/ PublishFullStatus \/ PlayThenPublish
    \/ GetEcuInfo \/ SendReply
    \/ Opens \/ Closes \/ HandleMessage
    \/ MuteSounds
    \/ (SoundEnds \/ ClockMoves) /\ UNCHANGED statusVars

\* The command timer, the websocket thread and the network go on.
Fairness ==
    /\ WF_vars(ReportsClosed) /\ WF_vars(TellGains)
    /\ WF_vars(SendReply) /\ WF_vars(HandleMessage)

Spec == Init /\ [][Next]_vars /\ Fairness

-----------------------------------------------------------------------------
\* Properties.

ShowsOpen(b) == page.ecu # NoReply /\ page.ecu.ecu_connected = b

\* A page that stays connected ends up saying whether the port is open, though
\* the websocket thread sends reports that are out of date: the empty ones come
\* for as long as it is closed, and the ECU's as often as it sends them.
FlagSettles ==
    /\ <>[](~connected /\ page.open) => <>[]ShowsOpen(FALSE)
    /\ (<>[](connected /\ page.open) /\ []<><<ReportsInfo>>_vars) =>
            <>[]ShowsOpen(TRUE)

\* The gains that the page shows as current are those that a field left blank
\* on it will be filled with (merge, with last_params_), when none are on the
\* way or about to be sent.  Not so on a page that has opened its websocket again
\* and heard of none since: on_message does not know get_all_configs, with which
\* the page asks.
GainsAreThoseMerged ==
    page.open /\ page.told /\ ~telling /\ (\A k \in DOMAIN line : line[k].type # "current_configs")
        => page.gains = last_params

\* The charging indicator has one colour, that of its text, from the second of
\* two statuses that agree: a change leaves the colours of both for one update.
IndicatorIsExact ==
    [][\A b \in BOOLEAN :
          HandleMessage /\ Head(line) = FullStatus(b) /\ page.text = Text(b)
              => page'.classes = {"indicator", "active", Colour(b)}]_vars
=============================================================================
