---------------------------- MODULE MotionProofs ----------------------------
(***************************************************************************)
(* Theorems about the two ways the node moves the base: the velocity that  *)
(* command_callback sends (VelocityCommand) and the routes that            *)
(* NavigationTester gives to follow_waypoints.                             *)
(*                                                                         *)
(* VelocityCommand, for any two limits with VirtLimit not above CmdLimit:  *)
(* what makes the properties inductive is where the age of the velocity in *)
(* the command can be read off.  It is cmdAge while cmd_vel is alive, and  *)
(* otherwise the age of whoever wrote it last.                             *)
(*                                                                         *)
(* NavigationTester, for any poses and drawings: GoalIsLatest needs to     *)
(* follow a route from the file back to the poses.  What start() has       *)
(* pushed and what it has still to push make up the last drawing, as long  *)
(* as no drawing is taken meanwhile.                                       *)
(***************************************************************************)
EXTENDS VelocityCommand, NavigationTester, TLAPS

AliveAge    == cmdAge <= CmdLimit => held = cmdAge
CmdVelAge   == velocity = "cmd_vel" =>
                   /\ held = cmdAge
                   /\ cmdAge <= virtAge
                   /\ gui = "written" => cmdAge = 0
JoystickAge == velocity = "joystick" =>
                   IF gui = "written" THEN held = 0 ELSE held = virtAge
\* Time stands while the joystick's handler runs: the message that overtakes
\* it is of this instant.
Tested      == gui # "idle" => cmdAge = 0 \/ cmdAge > CmdLimit
\* What Guard leaves behind, until the frame is serialised.
Guarded     == tick = "guarded" =>
                   /\ velocity # "stop" => held <= CmdLimit
                   /\ velocity = "joystick" => held <= VirtLimit \/ held = cmdAge
NotSerialised == tick # "serialised" => frame = NoFrame
\* The handler is past its test at most once while cmd_vel is alive.
Override    == cmdAge <= CmdLimit =>
                   /\ overrides = 0 => velocity = latest
                   /\ overrides <= 1
                   /\ gui = "checked" => overrides = 0
Overrides   == overrides <= 1

VelInv ==
    /\ TypeOK
    /\ AliveAge /\ CmdVelAge /\ JoystickAge /\ Tested /\ Guarded /\ NotSerialised
    /\ Override /\ Overrides /\ MotionIsFresh /\ JoystickIsReleased /\ CmdVelPrevails

-----------------------------------------------------------------------------
\* The variables keep their types in every step.
LEMMA TypeStep == TypeOK /\ [Next]_vars => TypeOK'
<1> SUFFICES ASSUME TypeOK, [Next]_vars PROVE TypeOK'
  OBVIOUS
<1> USE LimitsAssumption DEF TypeOK, Velocities, Ages, Old, ages, page, history, NoFrame
<1>1. ASSUME NEW v \in {"cmd_vel", "stop"}, CmdVel(v) PROVE TypeOK'
  BY <1>1 DEF CmdVel
<1>2. ASSUME NEW v \in {"joystick", "stop"}, JoystickTest(v) PROVE TypeOK'
  BY <1>2 DEF JoystickTest
<1>3. CASE JoystickWrites
  BY <1>3 DEF JoystickWrites
<1>4. CASE JoystickStamps
  BY <1>4 DEF JoystickStamps
<1>5. CASE Guard
  BY <1>5 DEF Guard, Silent
<1>6. CASE Serialise
  BY <1>6 DEF Serialise
<1>7. CASE WriteFull
  BY <1>7 DEF WriteFull, EndTick
<1>8. CASE WritePartial
  BY <1>8 DEF WritePartial, EndTick
<1>9. CASE WriteFails
  <2>1. frame' \in [velocity : Velocities, age : Ages]
    BY <1>9 DEF WriteFails, EndTick
  <2>2. connected' \in BOOLEAN
    BY <1>9 DEF WriteFails
  <2> QED
    BY <1>9, <2>1, <2>2 DEF WriteFails, EndTick
<1>10. CASE Reconnect
  BY <1>10 DEF Reconnect
<1>11. CASE TimePasses
  BY <1>11 DEF TimePasses, Older
<1>12. CASE UNCHANGED vars
  BY <1>12 DEF vars
<1> QED
  BY <1>1, <1>2, <1>3, <1>4, <1>5, <1>6, <1>7, <1>8, <1>9, <1>10, <1>11, <1>12
     DEF Next, Commands, Page, CommandCallback

-----------------------------------------------------------------------------
\* The strengthening holds at the start and is kept by every step.
LEMMA VelInvInit == Init => VelInv
BY LimitsAssumption DEF Init, VelInv, TypeOK, Velocities, Ages, Old, NoFrame, AliveAge,
   CmdVelAge, JoystickAge, Tested, Guarded, NotSerialised, Override, Overrides, MotionIsFresh,
   JoystickIsReleased, CmdVelPrevails

LEMMA VelInvStep == VelInv /\ [Next]_vars => VelInv'
<1> SUFFICES ASSUME VelInv, [Next]_vars PROVE VelInv'
  OBVIOUS
<1> DEFINE Rest == /\ AliveAge /\ CmdVelAge /\ JoystickAge /\ Tested /\ Guarded
                   /\ NotSerialised /\ Override /\ Overrides /\ MotionIsFresh /\ JoystickIsReleased
                   /\ CmdVelPrevails
<1>type. TypeOK'
  BY TypeStep DEF VelInv
<1> USE LimitsAssumption DEF VelInv, TypeOK, Velocities, Ages, Old, ages, page, history,
      NoFrame, AliveAge, CmdVelAge, JoystickAge, Tested, Guarded, NotSerialised, Override,
      Overrides, MotionIsFresh, JoystickIsReleased, CmdVelPrevails
<1>1. ASSUME NEW v \in {"cmd_vel", "stop"}, CmdVel(v) PROVE Rest'
  <2>1. AliveAge'
    BY <1>1 DEF CmdVel
  <2>2. CmdVelAge'
    BY <1>1 DEF CmdVel
  <2>3. JoystickAge'
    BY <1>1 DEF CmdVel
  <2>4. Tested'
    BY <1>1 DEF CmdVel
  <2>5. Guarded'
    BY <1>1 DEF CmdVel
  <2>11. NotSerialised'
    BY <1>1 DEF CmdVel
  <2>6. Override'
    BY <1>1 DEF CmdVel
  <2>7. Overrides'
    BY <1>1 DEF CmdVel
  <2>8. MotionIsFresh'
    BY <1>1 DEF CmdVel
  <2>9. JoystickIsReleased'
    BY <1>1 DEF CmdVel
  <2>10. CmdVelPrevails'
    BY <1>1 DEF CmdVel
  <2> QED
    BY <2>1, <2>2, <2>3, <2>4, <2>5, <2>6, <2>7, <2>8, <2>9, <2>10, <2>11
<1>2. ASSUME NEW v \in {"joystick", "stop"}, JoystickTest(v) PROVE Rest'
  BY <1>2 DEF JoystickTest
<1>3. ASSUME JoystickWrites PROVE Rest'
  BY <1>3 DEF JoystickWrites
<1>4. ASSUME JoystickStamps PROVE Rest'
  BY <1>4 DEF JoystickStamps
<1>5. ASSUME Guard PROVE Rest'
  <2>1. AliveAge'
    BY <1>5 DEF Guard, Silent
  <2>2. CmdVelAge'
    BY <1>5 DEF Guard, Silent
  <2>3. JoystickAge'
    BY <1>5 DEF Guard, Silent
  <2>4. Tested'
    BY <1>5 DEF Guard, Silent
  <2>5. Guarded'
    <3>1. CASE Silent
      BY <1>5, <3>1 DEF Guard
    <3>2. CASE cmdAge <= CmdLimit
      BY <1>5, <3>2 DEF Guard, Silent
    <3>3. CASE virtAge <= VirtLimit /\ cmdAge > CmdLimit
      BY <1>5, <3>3 DEF Guard, Silent
    <3> QED
      BY <3>1, <3>2, <3>3 DEF Silent
  <2>11. NotSerialised'
    BY <1>5 DEF Guard, Silent
  <2>6. Override'
    BY <1>5 DEF Guard, Silent
  <2>7. Overrides'
    BY <1>5 DEF Guard, Silent
  <2>8. MotionIsFresh'
    BY <1>5 DEF Guard, Silent
  <2>9. JoystickIsReleased'
    BY <1>5 DEF Guard, Silent
  <2>10. CmdVelPrevails'
    BY <1>5 DEF Guard, Silent
  <2> QED
    BY <2>1, <2>2, <2>3, <2>4, <2>5, <2>6, <2>7, <2>8, <2>9, <2>10, <2>11
<1>6. ASSUME Serialise PROVE Rest'
  BY <1>6 DEF Serialise
<1>7. ASSUME WriteFull PROVE Rest'
  BY <1>7 DEF WriteFull, EndTick
<1>8. ASSUME WritePartial PROVE Rest'
  BY <1>8 DEF WritePartial, EndTick
<1>9. ASSUME WriteFails PROVE Rest'
  BY <1>9 DEF WriteFails, EndTick
<1>10. ASSUME Reconnect PROVE Rest'
  BY <1>10 DEF Reconnect
<1>11. ASSUME TimePasses PROVE Rest'
  <2>1. AliveAge'
    BY <1>11 DEF TimePasses, Older
  <2>2. CmdVelAge'
    BY <1>11 DEF TimePasses, Older
  <2>3. JoystickAge'
    BY <1>11 DEF TimePasses, Older
  <2>4. Tested'
    BY <1>11 DEF TimePasses, Older
  <2>5. Guarded'
    BY <1>11 DEF TimePasses, Older
  <2>11. NotSerialised'
    BY <1>11 DEF TimePasses, Older
  <2>6. Override'
    BY <1>11 DEF TimePasses, Older
  <2>7. Overrides'
    BY <1>11 DEF TimePasses, Older
  <2>8. MotionIsFresh'
    BY <1>11 DEF TimePasses, Older
  <2>9. JoystickIsReleased'
    BY <1>11 DEF TimePasses, Older
  <2>10. CmdVelPrevails'
    BY <1>11 DEF TimePasses, Older
  <2> QED
    BY <2>1, <2>2, <2>3, <2>4, <2>5, <2>6, <2>7, <2>8, <2>9, <2>10, <2>11
<1>12. ASSUME UNCHANGED vars PROVE Rest'
  BY <1>12 DEF vars
<1> QED
  BY <1>type, <1>1, <1>2, <1>3, <1>4, <1>5, <1>6, <1>7, <1>8, <1>9, <1>10, <1>11, <1>12
     DEF Next, Commands, Page, CommandCallback

\* The invariant that the theorems below read off.
LEMMA VelInvAlways == Spec => []VelInv
BY VelInvInit, VelInvStep, PTL DEF Spec

\* The variables keep their types, for any two limits.
THEOREM TypeCorrect == Spec => []TypeOK
<1>1. VelInv => TypeOK
  BY DEF VelInv
<1> QED
  BY <1>1, VelInvAlways, PTL

(***************************************************************************)
(* No frame moves the base on a command older than CmdLimit                *)
(* (command_callback's watchdog), for any two limits, whatever the races,  *)
(* failed writes and disconnections.                                       *)
(***************************************************************************)
THEOREM NoStaleMotion == Spec => []MotionIsFresh
<1>1. VelInv => MotionIsFresh
  BY DEF VelInv
<1> QED
  BY <1>1, VelInvAlways, PTL

\* The joystick's motion ends VirtLimit after its last command, unless a
\* cmd_vel overtook it in its handler.
THEOREM JoystickEnds == Spec => []JoystickIsReleased
<1>1. VelInv => JoystickIsReleased
  BY DEF VelInv
<1> QED
  BY <1>1, VelInvAlways, PTL

\* At most one joystick command is written over a live cmd_vel, and the
\* watchdog never is.
THEOREM LiveCmdVelPrevails == Spec => []CmdVelPrevails
<1>1. VelInv => CmdVelPrevails
  BY DEF VelInv
<1> QED
  BY <1>1, VelInvAlways, PTL

-----------------------------------------------------------------------------
\* The routes.

\* Between drawings the file holds what the last one left, and without a file
\* nothing has been drawn.
FileIsDrawn ==
    drawing = Nothing /\ writable =>
        /\ file = drawn
        /\ file = NoFile \/ file = Foreign => poses = <<>>

\* start() alone has the route between what it pushed and what it has to push.
RouteIsWhole ==
    alone /\ at # "idle" =>
        /\ drawing = Nothing
        /\ writable /\ at = "reading" => poses \o unread = drawn
        /\ writable /\ at # "reading" => poses = drawn

ReadingHasFile == at = "reading" => file # NoFile /\ file # Foreign

\* Nothing is in the file but the last drawing until the next one opens it.
OpensLast ==
    drawing # Nothing =>
        /\ drawing.open => drawing.rest = <<>>
        /\ writable /\ ~drawing.open => file = drawn

NavInv == FileIsDrawn /\ RouteIsWhole /\ ReadingHasFile /\ OpensLast

-----------------------------------------------------------------------------
LEMMA TakenType ==
    ASSUME NEW s \in Routes, NEW marker \in Poses \cup {Arrow}
    PROVE  Taken(s, marker) \in Routes
BY DEF Taken, Routes

LEMMA TakenRecord ==
    ASSUME NavTypeOK, TakeMarker
    PROVE  drawing' \in Taking /\ poses' \in Routes
<1>1. /\ drawing.rest \in Seq(Poses \cup {Arrow}) /\ drawing.saved \in Routes
      /\ Head(drawing.rest) \in Poses \cup {Arrow}
      /\ Tail(drawing.rest) \in Seq(Poses \cup {Arrow})
  BY DEF NavTypeOK, TakeMarker, Taking
<1>2. /\ Taken(poses, Head(drawing.rest)) \in Routes
      /\ Taken(drawing.saved, Head(drawing.rest)) \in Routes
  BY <1>1, TakenType DEF NavTypeOK
<1> QED
  BY <1>1, <1>2 DEF TakeMarker, Taking

\* Pushing the next pose of the file keeps the route.
LEMMA PushKeeps ==
    ASSUME NEW s \in Routes, NEW t \in Routes, t # <<>>
    PROVE  /\ Append(s, Head(t)) \o Tail(t) = s \o t
           /\ Append(s, Head(t)) \in Routes /\ Tail(t) \in Routes
BY DEF Routes

LEMMA EmptyRoute ==
    /\ <<>> \in Routes
    /\ \A s \in Routes : s \o <<>> = s /\ <<>> \o s = s
BY DEF Routes

LEMMA Apart ==
    /\ NoFile \notin Routes /\ Torn \notin Routes /\ Foreign \notin Routes /\ Nothing \notin Routes
    /\ Torn # NoFile /\ Torn # Foreign
    /\ Nothing \notin Taking
    /\ \A markers \in Drawings : markers \in Seq(Poses \cup {Arrow})
BY NavigationAssumption

LEMMA RouteTypeInit == NavInit => NavTypeOK
BY EmptyRoute DEF NavInit, NavTypeOK

LEMMA RouteTypeStep ==
    ASSUME NavTypeOK, [NavNext]_navVars
    PROVE  NavTypeOK'
<1> USE DEF NavTypeOK, Taking, recorder, starter
<1>1. ASSUME NEW markers \in Drawings, StartDrawing(markers) PROVE NavTypeOK'
  BY <1>1, EmptyRoute, Apart DEF StartDrawing
<1>2. CASE TakeMarker
  BY <1>2, TakenRecord DEF TakeMarker
<1>3. CASE OpenFile
  BY <1>3 DEF OpenFile
<1>4. CASE WriteFile
  BY <1>4 DEF WriteFile
<1>5. ASSUME NEW enabled \in BOOLEAN, RecordPoses(enabled) PROVE NavTypeOK'
  BY <1>5 DEF RecordPoses
<1>6. CASE StartReads
  BY <1>6, EmptyRoute DEF StartReads, ReadsFile, Begins
<1>7. CASE StartThrows
  BY <1>7 DEF StartThrows, Begins
<1>8. CASE StartRefused
  BY <1>8 DEF StartRefused, Begins
<1>9. CASE StartsFromMemory
  BY <1>9 DEF StartsFromMemory, Begins
<1>10. CASE ReadPose
  BY <1>10, PushKeeps DEF ReadPose
<1>11. CASE ReadEnds
  BY <1>11 DEF ReadEnds
<1>12. CASE ServerIsReady
  BY <1>12 DEF ServerIsReady
<1>13. CASE ServerIsMissing
  BY <1>13 DEF ServerIsMissing
<1>14. CASE SendGoal
  BY <1>14 DEF SendGoal
<1>15. CASE ServerChanges
  BY <1>15 DEF ServerChanges
<1>16. CASE GoalEnds
  BY <1>16 DEF GoalEnds
<1>17. CASE UNCHANGED navVars
  BY <1>17 DEF navVars
<1> QED
  BY <1>1, <1>2, <1>3, <1>4, <1>5, <1>6, <1>7, <1>8, <1>9, <1>10, <1>11, <1>12, <1>13,
     <1>14, <1>15, <1>16, <1>17 DEF NavNext, Drawing, Starting

\* The variables keep their types in every behaviour: no marker that is not a
\* pose gets into a route.
THEOREM RoutesCorrect == NavSpec => []NavTypeOK
<1>1. NavTypeOK /\ [NavNext]_navVars => NavTypeOK'
  BY RouteTypeStep
<1> QED
  BY <1>1, RouteTypeInit, PTL DEF NavSpec

-----------------------------------------------------------------------------
LEMMA NavStarts == NavInit => NavInv
BY DEF NavInit, NavInv, FileIsDrawn, RouteIsWhole, ReadingHasFile, OpensLast

LEMMA NavStep ==
    ASSUME NavInv, NavTypeOK, [NavNext]_navVars
    PROVE  NavInv'
<1> USE DEF NavInv, FileIsDrawn, RouteIsWhole, ReadingHasFile, OpensLast, NavTypeOK,
            recorder, starter
<1>1. ASSUME NEW markers \in Drawings, StartDrawing(markers) PROVE NavInv'
  BY <1>1 DEF StartDrawing
<1>2. CASE TakeMarker
  <2>1. drawing' \in Taking
    BY <1>2, TakenRecord DEF TakeMarker
  <2> QED
    BY <1>2, <2>1, Apart DEF TakeMarker, Taking
<1>3. CASE OpenFile
  <2>1. drawing' \in Taking /\ drawing'.open /\ drawing'.rest = <<>>
    BY <1>3 DEF OpenFile, Taking
  <2> QED
    BY <1>3, <2>1, Apart DEF OpenFile
<1>4. CASE WriteFile
  BY <1>4, Apart DEF WriteFile, Taking
<1>5. ASSUME NEW enabled \in BOOLEAN, RecordPoses(enabled) PROVE NavInv'
  BY <1>5 DEF RecordPoses
<1>6. CASE StartReads
  <2>1. file # NoFile /\ file # Foreign /\ poses' = <<>> /\ unread' = file
    BY <1>6, Apart DEF StartReads, ReadsFile
  <2>2. poses' \o unread' = file
    BY <1>6, <2>1, EmptyRoute DEF StartReads, ReadsFile
  <2> QED
    BY <1>6, <2>1, <2>2 DEF StartReads, ReadsFile, Begins
<1>7. CASE StartThrows
  BY <1>7 DEF StartThrows, Begins
<1>8. CASE StartRefused
  BY <1>8 DEF StartRefused, Begins
\* A file that was drawn could have been read.
<1>9. CASE StartsFromMemory
  <2>1. ~(drawing = Nothing /\ writable)
    BY <1>9 DEF StartsFromMemory, NothingToRead
  <2>2. ~(alone' /\ writable')
    BY <1>9, <2>1 DEF StartsFromMemory, Begins
  <2>3. FileIsDrawn' /\ OpensLast' /\ ReadingHasFile'
    BY <1>9 DEF StartsFromMemory
  <2>4. RouteIsWhole'
    BY <1>9, <2>2 DEF StartsFromMemory, Begins
  <2> QED
    BY <2>3, <2>4
<1>10. CASE ReadPose
  BY <1>10, PushKeeps DEF ReadPose
<1>11. CASE ReadEnds
  BY <1>11, EmptyRoute DEF ReadEnds
<1>12. CASE ServerIsReady
  BY <1>12 DEF ServerIsReady
<1>13. CASE ServerIsMissing
  BY <1>13 DEF ServerIsMissing
<1>14. CASE SendGoal
  BY <1>14 DEF SendGoal
<1>15. CASE ServerChanges
  BY <1>15 DEF ServerChanges
<1>16. CASE GoalEnds
  BY <1>16 DEF GoalEnds
<1>17. CASE UNCHANGED navVars
  BY <1>17 DEF navVars
<1> QED
  BY <1>1, <1>2, <1>3, <1>4, <1>5, <1>6, <1>7, <1>8, <1>9, <1>10, <1>11, <1>12, <1>13,
     <1>14, <1>15, <1>16, <1>17 DEF NavNext, Drawing, Starting

LEMMA GoalStep ==
    NavInv /\ NavTypeOK /\ [NavNext]_navVars =>
        [goal' \notin {goal, Nothing} /\ alone /\ writable => goal' = drawn]_navVars
<1> SUFFICES ASSUME NavInv, NavTypeOK, NavNext, goal' \notin {goal, Nothing},
                    alone, writable
             PROVE  goal' = drawn
  OBVIOUS
\* No other step sets a goal.
<1>1. SendGoal
  BY DEF NavNext, Drawing, Starting, StartDrawing, TakeMarker,
     OpenFile, WriteFile, RecordPoses, StartReads, ReadsFile,
     StartThrows, StartRefused, StartsFromMemory, ReadPose, ReadEnds,
     ServerIsReady, ServerIsMissing, ServerChanges, GoalEnds
<1> QED
  BY <1>1 DEF SendGoal, NavInv, RouteIsWhole

\* The goal sent is the route drawn last, for any poses and drawings, unless a
\* drawing came in between or the file cannot be written.
THEOREM LatestIsSent == NavSpec => GoalIsLatest
<1>1. NavInv /\ NavTypeOK /\ [NavNext]_navVars => NavInv'
  BY NavStep
<1>2. NavSpec => []NavTypeOK
  BY RoutesCorrect
<1> QED
  BY <1>1, <1>2, NavStarts, GoalStep, PTL DEF NavSpec, GoalIsLatest
=============================================================================
