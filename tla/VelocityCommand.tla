-------------------------- MODULE VelocityCommand ---------------------------
(***************************************************************************)
(* The velocity that RobotSerial sends to the base.  A cmd_vel message and *)
(* the page's joystick both write last_command_.velocities, which is never *)
(* cleared: every command frame carries it.  Each leaves its time in a     *)
(* timestamp; the joystick is refused while the last cmd_vel is younger    *)
(* than 2 s, and the command timer puts zeros in the command once cmd_vel  *)
(* is older than 2 s and the joystick older than 500 ms.                   *)
(*                                                                         *)
(* cmd_vel and the timer run on the ROS executor, the joystick's handler   *)
(* on the websocket thread, with no common lock: its test, its write of    *)
(* the velocity and its write of the timestamp are three steps.            *)
(***************************************************************************)
EXTENDS Naturals

CONSTANTS
    CmdLimit,   \* 2000 ms, in the model's units of time
    VirtLimit   \* 500 ms, likewise

ASSUME LimitsAssumption ==
    CmdLimit \in Nat /\ VirtLimit \in Nat /\ VirtLimit <= CmdLimit

\* Who asked for the motion; "stop" is a zero velocity, whoever wrote it.
Velocities == {"cmd_vel", "joystick", "stop"}

\* An age past both limits; older ones are not told apart.
Old  == CmdLimit + 1
Ages == 0 .. Old

VARIABLES
    velocity,   \* last_command_.velocities
    cmdAge,     \* timeSince(last_cmd_vel_time_)
    virtAge,    \* timeSince(last_virtual_cmd_time_)
    gui,        \* where the websocket thread is in set_velocity_command
    asked,      \* the velocity it carries
    tick,       \* where the command timer is
    connected,  \* connected_
    frame,      \* the velocity serialised, and how old it was
    ecu,        \* the velocity the ECU got last
    held,       \* history: the age of `velocity'
    latest,     \* history: the last cmd_vel
    overrides   \* history: joystick commands written over it (2: several)

ages == <<cmdAge, virtAge, held>>
page == <<gui, asked>>
history == <<latest, overrides>>
vars == <<velocity, ages, page, tick, connected, frame, ecu, history>>

NoFrame == [velocity |-> "stop", age |-> 0]

TypeOK ==
    /\ velocity \in Velocities
    /\ cmdAge \in Ages /\ virtAge \in Ages /\ held \in Ages
    /\ gui \in {"idle", "checked", "written"}
    /\ asked \in {"joystick", "stop"}
    /\ tick \in {"idle", "guarded", "serialised"}
    /\ connected \in BOOLEAN
    /\ frame \in [velocity : Velocities, age : Ages]
    /\ ecu \in Velocities
    /\ latest \in {"cmd_vel", "stop"}
    /\ overrides \in 0 .. 2

\* The two time points start at the clock's epoch.
Init ==
    /\ velocity = "stop"
    /\ cmdAge = Old /\ virtAge = Old /\ held = Old
    /\ gui = "idle" /\ asked = "stop"
    /\ tick = "idle"
    /\ connected \in BOOLEAN
    /\ frame = NoFrame
    /\ ecu = "stop"
    /\ latest = "stop" /\ overrides = 0

-----------------------------------------------------------------------------
\* Commands.

\* cmd_vel_callback and cmd_vel_stamped_callback.
CmdVel(v) ==
    /\ tick = "idle"
    /\ velocity' = v
    /\ cmdAge' = 0
    /\ held' = 0
    /\ latest' = v /\ overrides' = 0
    /\ UNCHANGED <<virtAge, page, tick, connected, frame, ecu>>

\* handle_gui_command, "set_velocity_command": its test.  A refused command
\* writes nothing.
AlwaysAccepted(v) ==
    /\ gui = "idle"
    /\ gui' = "checked"
    /\ asked' = v
    /\ UNCHANGED <<velocity, ages, tick, connected, frame, ecu, history>>

RefusedStamps(v) ==
    /\ gui = "idle"
    /\ IF cmdAge > CmdLimit
       THEN gui' = "checked" /\ asked' = v /\ UNCHANGED virtAge
       ELSE virtAge' = 0 /\ UNCHANGED page
    /\ UNCHANGED <<velocity, cmdAge, held, tick, connected, frame, ecu, history>>

JoystickTest(v) ==
    /\ gui = "idle"
    /\ cmdAge > CmdLimit
    /\ gui' = "checked"
    /\ asked' = v
    /\ UNCHANGED <<velocity, ages, tick, connected, frame, ecu, history>>

JoystickWrites ==
    /\ gui = "checked"
    /\ velocity' = asked
    /\ held' = 0
    /\ gui' = "written"
    /\ overrides' = IF cmdAge <= CmdLimit /\ overrides < 2 THEN overrides + 1
                    ELSE overrides
    /\ UNCHANGED <<cmdAge, virtAge, asked, tick, connected, frame, ecu, latest>>

JoystickStamps ==
    /\ gui = "written"
    /\ virtAge' = 0
    /\ gui' = "idle"
    /\ UNCHANGED <<velocity, cmdAge, held, asked, tick, connected, frame, ecu, history>>

-----------------------------------------------------------------------------
\* command_callback.

\* Nobody commands the base.
SilentForgotten == FALSE
SilentLimitsSwapped == virtAge > CmdLimit /\ cmdAge > VirtLimit
Silent == virtAge > VirtLimit /\ cmdAge > CmdLimit

Guard ==
    /\ tick = "idle"
    /\ connected
    /\ IF Silent
       THEN velocity' = "stop" /\ held' = 0
       ELSE UNCHANGED <<velocity, held>>
    /\ tick' = "guarded"
    /\ UNCHANGED <<cmdAge, virtAge, page, connected, frame, ecu, history>>

Serialise ==
    /\ tick = "guarded"
    /\ frame' = [velocity |-> velocity, age |-> held]
    /\ tick' = "serialised"
    /\ UNCHANGED <<velocity, ages, page, connected, ecu, history>>

EndTick == tick = "serialised" /\ tick' = "idle" /\ frame' = NoFrame

WriteFull ==
    /\ EndTick
    /\ ecu' = frame.velocity
    /\ UNCHANGED <<velocity, ages, page, connected, history>>

WritePartial ==
    /\ EndTick
    /\ UNCHANGED <<velocity, ages, page, connected, ecu, history>>

WriteFails ==
    /\ EndTick
    /\ connected' = FALSE
    /\ UNCHANGED <<velocity, ages, page, ecu, history>>

Reconnect ==
    /\ tick = "idle"
    /\ ~connected
    /\ connected' = TRUE
    /\ UNCHANGED <<velocity, ages, page, tick, frame, ecu, history>>

-----------------------------------------------------------------------------
\* One unit of time.  A callback and the joystick's handler take far less.
OlderUncapped(n) == n + 1
Older(n) == IF n = Old THEN Old ELSE n + 1

TimePasses ==
    /\ tick = "idle" /\ gui = "idle"
    /\ cmdAge' = Older(cmdAge)
    /\ virtAge' = Older(virtAge)
    /\ held' = Older(held)
    /\ UNCHANGED <<velocity, page, tick, connected, frame, ecu, history>>

Commands ==
    \/ \E v \in {"cmd_vel", "stop"} : CmdVel(v)
    \/ \E v \in {"joystick", "stop"} : JoystickTest(v)

Page == JoystickWrites \/ JoystickStamps

CommandCallback == Guard \/ Serialise \/ WriteFull \/ WritePartial \/ WriteFails

Next == Commands \/ Page \/ CommandCallback \/ Reconnect \/ TimePasses

Spec == Init /\ [][Next]_vars

\* The joystick's handler has no wait in it, and time passes.
FairSpec == Spec /\ WF_vars(Page) /\ SF_vars(TimePasses)

-----------------------------------------------------------------------------
\* Properties.

\* No frame moves the base on a command that nobody renewed for 2 s, whether
\* the port was closed meanwhile, a write failed, or the two sources raced.
MotionIsFresh ==
    frame.velocity # "stop" => frame.age <= CmdLimit

\* The joystick's motion ends 500 ms after its last command, except that one
\* overtaken by a cmd_vel between its test and its write lasts as long as
\* that cmd_vel would: the watchdog cannot tell whose velocity it keeps.
JoystickIsReleased ==
    frame.velocity = "joystick" => frame.age <= VirtLimit \/ frame.age = cmdAge

\* While cmd_vel is alive (a message in the last 2 s) the frames carry it: the
\* watchdog leaves it alone, and of the joystick's commands at most the one
\* that had passed its test before the message came is written over it.
CmdVelPrevails ==
    /\ overrides <= 1
    /\ tick = "serialised" /\ cmdAge <= CmdLimit /\ overrides = 0 =>
          frame.velocity = latest

\* When the commands cease while frames still get through, the base is told to
\* stop and never to move again.
RobotStops ==
    <>[][~Commands]_vars /\ []<><<WriteFull>>_vars => <>[](ecu = "stop")
=============================================================================
