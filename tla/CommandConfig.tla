---------------------------- MODULE CommandConfig -----------------------------
(***************************************************************************)
(* The part of last_command_ that carries settings: the gains of a control *)
(* loop, the switch that gives the LEDs to the computer, and the LED       *)
(* request itself.  The set_pid service and the LED topic fill it on the   *)
(* ROS thread, one field after another.  The page does so on the websocket *)
(* thread, between any two writes of the other: its set_pid merges its     *)
(* fields with the gains the ECU last reported and assigns them whole, its *)
(* LED buttons call the handler of the topic.                              *)
(* command_callback sends it and clears what a whole frame carried.        *)
(*                                                                         *)
(* The loops do not touch one another, so one of them is modelled.         *)
(***************************************************************************)
EXTENDS Naturals

CONSTANTS
    Values,   \* the values of a gain, 0 among them
    Zero,     \* the value of a field nobody has set
    Unset,    \* an optional field that is absent
    Blank     \* a field left blank on the page

ASSUME ValuesAssumption ==
    /\ Zero \in Values /\ Unset \notin Values
    /\ Unset \notin [p : Values, i : Values] \cup BOOLEAN
    /\ Blank \notin Values

\* PIDConfig: one gain (p) and the rest of them (i).
Gains   == [p : Values, i : Values]
Default == [p |-> Zero, i |-> Zero]
Updates == [p : Values \cup {Blank}, i : Values \cup {Blank}]

VARIABLES
    gains,      \* last_command_.config.parameters: the loop's PIDConfig
    external,   \* .external_led_control
    led,        \* last_command_.led_cmd, its `active'
    connected,  \* connected_
    sending,    \* the command timer is between serialising and clearing
    frame,      \* what it serialised of the three
    ecu,        \* the gains the ECU works with
    reported,   \* last_params_: those it reported last
    merged,     \* what the websocket thread has merged and not yet written
    pageLed,    \* the LED it has given to the computer and not yet switched
    setting,    \* what set_pid has still to write, on the ROS thread
    rosLed,     \* likewise led_cmd_callback
    accepted,   \* history: set_pid's gains not replaced nor in a whole frame
    ledAsked,   \* history: likewise the last LED switch
    apart,      \* history: a frame was cleared between the two
    asked       \* history: some client has asked for gains

command    == <<gains, external, led>>
gui        == <<merged, pageLed>>
ros        == <<setting, rosLed>>
history    == <<accepted, ledAsked, apart, asked>>
configVars == <<command, connected, sending, frame, ecu, reported, gui, ros, history>>

NoFrame == [gains |-> Unset, external |-> Unset, led |-> Unset]

Optional(S) == S \cup {Unset}

\* A group of gains may be written, or wait to be, without the other.
Groups == [p : Optional(Values), i : Optional(Values)]
NoGroup == [p |-> Unset, i |-> Unset]

ConfigTypeOK ==
    /\ gains \in Optional(Gains)
    /\ external \in Optional(BOOLEAN) /\ led \in Optional(BOOLEAN)
    /\ connected \in BOOLEAN /\ sending \in BOOLEAN
    /\ frame \in [gains : Optional(Gains), external : Optional(BOOLEAN),
                  led : Optional(BOOLEAN)]
    /\ ecu \in Gains /\ reported \in Gains
    /\ merged \in Optional(Gains)
    /\ pageLed \in Optional(BOOLEAN) /\ apart \in BOOLEAN
    /\ setting \in Groups /\ rosLed \in Optional(BOOLEAN)
    /\ accepted \in Groups /\ ledAsked \in Optional(BOOLEAN)
    /\ asked \in BOOLEAN

\* A new node knows nothing of the gains the ECU works with.
ConfigInit ==
    /\ gains = Unset /\ external = Unset /\ led = Unset
    /\ connected \in BOOLEAN /\ sending = FALSE /\ frame = NoFrame
    /\ ecu \in Gains /\ reported = Default
    /\ merged = Unset /\ pageLed = Unset
    /\ setting = NoGroup /\ rosLed = Unset
    /\ accepted = NoGroup /\ ledAsked = Unset /\ apart = FALSE
    /\ asked = FALSE

-----------------------------------------------------------------------------
\* set_pid_srv_callback.

\* mutable_config()->mutable_..._pid(): absent gains become zeros.
Touched(g) == IF g = Unset THEN Default ELSE g

RefusalOverwrites(g) == Default
AfterRefusal(g) == Touched(g)

\* The ROS thread is in no handler and not in command_callback.
RosIsFree == ~sending /\ setting = NoGroup /\ rosLed = Unset

SetPid(g) ==
    /\ RosIsFree
    /\ connected
    /\ gains' = Touched(gains)
    /\ setting' = g /\ asked' = TRUE
    /\ UNCHANGED <<external, led, connected, sending, frame, ecu, reported, gui, rosLed,
                   accepted, ledAsked, apart>>

\* set_k_p, then the others, into what may have become the page's in between.
SetPidWrites(group) ==
    /\ setting[group] # Unset
    /\ group = "i" => setting.p = Unset
    /\ gains' = [gains EXCEPT ![group] = setting[group]]
    /\ accepted' = [accepted EXCEPT ![group] = setting[group]]
    /\ setting' = [setting EXCEPT ![group] = Unset]
    /\ UNCHANGED <<external, led, connected, sending, frame, ecu, reported, gui, rosLed,
                   ledAsked, apart, asked>>

\* The loop's gains are touched before connected_ is tested.
RefusePid ==
    /\ RosIsFree
    /\ ~connected
    /\ gains' = AfterRefusal(gains)
    /\ UNCHANGED <<external, led, connected, sending, frame, ecu, reported, gui, ros,
                   history>>

-----------------------------------------------------------------------------
\* led_cmd_callback: the switch, then the LED, but for a sign that is invalid.
LedCommand(active, valid) ==
    /\ RosIsFree
    /\ external' = active
    /\ rosLed' = IF valid THEN active ELSE Unset
    /\ ledAsked' = active /\ apart' = FALSE
    /\ UNCHANGED <<gains, led, connected, sending, frame, ecu, reported, gui, setting,
                   accepted, asked>>

LedLights ==
    /\ rosLed # Unset
    /\ led' = rosLed
    /\ rosLed' = Unset
    /\ UNCHANGED <<gains, external, connected, sending, frame, ecu, reported, gui, setting,
                   history>>

-----------------------------------------------------------------------------
\* handle_gui_command, "set_pid", on the websocket thread.

Given(current, field) == IF field = Blank THEN current ELSE field

NoMerge(current, update) == update
Merge(current, update) ==
    [p |-> Given(current.p, update.p), i |-> Given(current.i, update.i)]

PageIsFree == merged = Unset /\ pageLed = Unset

PageMerges(update) ==
    /\ PageIsFree
    /\ merged' = Merge(reported, update)
    /\ UNCHANGED <<command, connected, sending, frame, ecu, reported, pageLed, ros, history>>

\* It takes the place of whatever waited there.
PageWrites ==
    /\ merged # Unset
    /\ gains' = merged
    /\ merged' = Unset
    /\ accepted' = NoGroup
    /\ asked' = TRUE
    /\ UNCHANGED <<external, led, connected, sending, frame, ecu, reported, pageLed, ros,
                   ledAsked, apart>>

\* "led_...": led_cmd_callback on this thread.  Its signs are all valid.
PageSwitches(active) ==
    /\ PageIsFree
    /\ external' = active
    /\ pageLed' = active
    /\ ledAsked' = IF sending THEN Unset ELSE active
    /\ apart' = FALSE
    /\ UNCHANGED <<gains, led, connected, sending, frame, ecu, reported, merged, ros,
                   accepted, asked>>

PageLights ==
    /\ pageLed # Unset
    /\ led' = pageLed
    /\ pageLed' = Unset
    /\ UNCHANGED <<gains, external, connected, sending, frame, ecu, reported, merged, ros,
                   history>>

-----------------------------------------------------------------------------
\* command_callback.

Serialise ==
    /\ RosIsFree
    /\ connected
    /\ sending' = TRUE
    /\ frame' = [gains |-> gains, external |-> external, led |-> led]
    /\ UNCHANGED <<command, connected, ecu, reported, gui, ros, history>>

EndTick == sending /\ sending' = FALSE /\ frame' = NoFrame

ClearForgetsLed == gains' = Unset /\ external' = Unset /\ UNCHANGED led
ClearCommand == gains' = Unset /\ external' = Unset /\ led' = Unset

\* The ECU applies the gains unless the line damages the frame.
WriteFull(arrives) ==
    /\ EndTick
    /\ ecu' = IF arrives /\ frame.gains # Unset THEN frame.gains ELSE ecu
    /\ accepted' = [k \in {"p", "i"} |->
                      IF frame.gains # Unset /\ frame.gains[k] = accepted[k]
                      THEN Unset ELSE accepted[k]]
    /\ ledAsked' = IF frame.external = ledAsked THEN Unset ELSE ledAsked
    /\ ClearCommand
    /\ apart' = (pageLed # Unset)
    /\ UNCHANGED <<connected, reported, gui, ros, asked>>

WritePartialClears ==
    /\ EndTick
    /\ ClearCommand
    /\ UNCHANGED <<connected, ecu, reported, gui, ros, history>>

WritePartial ==
    /\ EndTick
    /\ UNCHANGED <<command, connected, ecu, reported, gui, ros, history>>

WriteFails ==
    /\ EndTick
    /\ connected' = FALSE
    /\ UNCHANGED <<command, ecu, reported, gui, ros, history>>

Reconnect ==
    /\ RosIsFree
    /\ ~connected
    /\ connected' = TRUE
    /\ UNCHANGED <<command, sending, frame, ecu, reported, gui, ros, history>>

\* publish_robot_config, when a feedback message carries the parameters.
Report ==
    /\ RosIsFree
    /\ connected
    /\ reported' = ecu
    /\ UNCHANGED <<command, connected, sending, frame, ecu, gui, ros, history>>

Requests ==
    \/ \E g \in Gains : SetPid(g)
    \/ \E group \in {"p", "i"} : SetPidWrites(group)
    \/ RefusePid
    \/ \E active, valid \in BOOLEAN : LedCommand(active, valid)
    \/ LedLights
    \/ \E u \in Updates : PageMerges(u)
    \/ PageWrites
    \/ \E active \in BOOLEAN : PageSwitches(active)
    \/ PageLights

ConfigNext ==
    \/ Requests
    \/ Serialise \/ WritePartial \/ WriteFails
    \/ \E arrives \in BOOLEAN : WriteFull(arrives)
    \/ Reconnect \/ Report

ConfigSpec == ConfigInit /\ [][ConfigNext]_configVars

-----------------------------------------------------------------------------
\* Properties.

\* What set_pid has written of its gains, and the last LED switch, wait in
\* last_command_ until a whole frame carries them or the page's assignment
\* replaces the gains: through partial writes, a lost port, refused requests and
\* the other writers of the same sub-messages.  An assignment between two of
\* set_pid's writes replaces only those before it, so what is sent may be part of
\* each request.  (What the page asks for while a frame is being written may be
\* cleared with it.)
AcceptedIsSent ==
    /\ \A k \in {"p", "i"} :
          accepted[k] # Unset => gains # Unset /\ gains[k] = accepted[k]
    /\ ledAsked # Unset => external = ledAsked

\* An LED request waits with the switch that makes the ECU heed it, unless a
\* frame was cleared between the page's writes of the two.
LedIsControlled == led # Unset => external # Unset \/ apart

\* README.md l. 50: success=false while the ECU is not connected.  A node whose
\* clients' requests for gains were all refused sends none.
RefusedIsNotSent == frame.gains # Unset => asked
=============================================================================
