--------------------------- MODULE NavigationTester ---------------------------
(***************************************************************************)
(* The recorder and tester of navigation routes.  While recording,         *)
(* waypoints_callback (ROS thread) takes the poses of each MarkerArray     *)
(* drawn in rviz and saves them in a file.  start() (websocket thread)     *)
(* reads the file, waits for the follow_waypoints server and sends it the  *)
(* poses as a goal.  Both work on acummulated_poses_ and on the file, and  *)
(* nothing keeps one out while the other is at work.                       *)
(*                                                                         *)
(* The goal handle is never saved: rclcpp::spin_until_future_complete      *)
(* throws, because main() already spins the node, and on_message catches   *)
(* the exception.  So neither stop() nor the end of a goal changes         *)
(* anything here.                                                          *)
(***************************************************************************)
EXTENDS Naturals, Sequences

CONSTANTS
    Poses,     \* the poses of markers that are spheres
    Arrow,     \* a marker of another type
    Drawings,  \* what may be drawn: sequences of markers
    NoFile,    \* the file does not exist
    Torn,      \* the file was opened, hence truncated, and not yet written
    Foreign,   \* it is JSON that has no list of waypoints
    Nothing    \* no drawing being taken, no goal being followed

Routes == Seq(Poses)

\* What waypoints_callback is doing with a drawing.
Taking == [rest : Seq(Poses \cup {Arrow}), saved : Routes, open : BOOLEAN]

ASSUME NavigationAssumption ==
    /\ Arrow \notin Poses
    /\ Drawings \subseteq Seq(Poses \cup {Arrow})
    /\ {NoFile, Torn, Foreign, Nothing} \cap Routes = {}
    /\ Torn \notin {NoFile, Foreign}
    /\ Nothing \notin Taking

VARIABLES
    poses,      \* acummulated_poses_
    file,       \* nav_waypoints.json
    writable,   \* whether the share directory can be written
    recording,  \* record_poses_
    running,    \* running_
    drawing,    \* waypoints_callback: markers left, poses for the file, file open
    at,         \* where start() is
    unread,     \* poses of the file it has still to push
    server,     \* the follow_waypoints server is there
    goal,       \* the goal it follows
    drawn,      \* history: what the last drawing left for the file
    alone       \* history: no drawing was taken while start() was under way

recorder == <<file, recording, drawing, drawn>>
starter  == <<running, at, unread>>
navVars  == <<poses, recorder, starter, writable, server, goal, alone>>

NavTypeOK ==
    /\ poses \in Routes
    /\ file \in Routes \cup {NoFile, Torn, Foreign}
    /\ drawn \in Routes \cup {NoFile, Torn, Foreign}
    /\ drawing \in Taking \cup {Nothing}
    /\ at \in {"idle", "reading", "waiting", "sending"}
    /\ unread \in Routes
    /\ goal \in Routes \cup {Nothing}
    /\ writable \in BOOLEAN /\ recording \in BOOLEAN /\ running \in BOOLEAN
    /\ server \in BOOLEAN /\ alone \in BOOLEAN

\* The file is what an earlier run of the node left, killed or not, or another's.
NavInit ==
    /\ poses = <<>>
    /\ file \in {NoFile, Torn, Foreign} \cup (Drawings \cap Routes)
    /\ writable \in BOOLEAN
    /\ recording = FALSE /\ running = FALSE
    /\ drawing = Nothing
    /\ at = "idle" /\ unread = <<>>
    /\ server \in BOOLEAN /\ goal = Nothing
    /\ drawn = file /\ alone = TRUE

-----------------------------------------------------------------------------
\* waypoints_callback, on the ROS thread.

StartDrawing(markers) ==
    /\ drawing = Nothing
    /\ recording
    /\ poses' = <<>>
    /\ drawing' = [rest |-> markers, saved |-> <<>>, open |-> FALSE]
    /\ alone' = FALSE
    /\ UNCHANGED <<file, recording, drawn, starter, writable, server, goal>>

TakenAny(s, marker) == Append(s, marker)
Taken(s, marker) == IF marker = Arrow THEN s ELSE Append(s, marker)

\* Each sphere is pushed to the poses and to the document.
TakeMarker ==
    /\ drawing # Nothing
    /\ drawing.rest # <<>>
    /\ poses' = Taken(poses, Head(drawing.rest))
    /\ drawing' = [rest  |-> Tail(drawing.rest),
                   saved |-> Taken(drawing.saved, Head(drawing.rest)),
                   open  |-> FALSE]
    /\ UNCHANGED <<file, recording, drawn, starter, writable, server, goal, alone>>

\* The ofstream truncates the file.
OpenFile ==
    /\ drawing # Nothing
    /\ drawing.rest = <<>> /\ ~drawing.open
    /\ drawing' = [drawing EXCEPT !.open = TRUE]
    /\ file' = IF writable THEN Torn ELSE file
    /\ UNCHANGED <<poses, recording, drawn, starter, writable, server, goal, alone>>

\* The document reaches the file in one write, when the stream is flushed.
WriteFile ==
    /\ drawing # Nothing
    /\ drawing.open
    /\ drawing' = Nothing
    /\ file' = IF writable THEN drawing.saved ELSE file
    /\ drawn' = drawing.saved
    /\ UNCHANGED <<poses, recording, starter, writable, server, goal, alone>>

-----------------------------------------------------------------------------
\* "record_poses" and "test_nav", on the websocket thread.

RecordPoses(enabled) ==
    /\ at = "idle"
    /\ recording' = enabled
    /\ UNCHANGED <<poses, file, drawing, drawn, starter, writable, server, goal, alone>>

Begins == at = "idle" /\ alone' = (drawing = Nothing)

ReadsFile ==
    /\ Begins
    /\ file \in Routes
    /\ unread' = file
    /\ at' = "reading"
    /\ UNCHANGED <<recorder, running, writable, server, goal>>

\* read_waypoints_file clears the poses and pushes those of the file.
StartReadsOn == ReadsFile /\ UNCHANGED poses
StartReads == ReadsFile /\ poses' = <<>>

\* json_file >> waypoints throws.
StartThrows ==
    /\ Begins
    /\ file = Torn
    /\ UNCHANGED <<poses, recorder, starter, writable, server, goal>>

\* read_waypoints_file returns false and leaves the poses alone.
NothingToRead == file \in {NoFile, Foreign}

\* "Nenhuma pose definida para o trajeto!"
StartRefused ==
    /\ Begins
    /\ NothingToRead /\ poses = <<>>
    /\ UNCHANGED <<poses, recorder, starter, writable, server, goal>>

\* Then the poses drawn since the node started are used.
StartsFromMemory ==
    /\ Begins
    /\ NothingToRead /\ poses # <<>>
    /\ running' = TRUE
    /\ at' = "waiting"
    /\ UNCHANGED <<poses, recorder, unread, writable, server, goal>>

ReadPose ==
    /\ at = "reading"
    /\ unread # <<>>
    /\ poses' = Append(poses, Head(unread))
    /\ unread' = Tail(unread)
    /\ UNCHANGED <<recorder, running, at, writable, server, goal, alone>>

ReadEnds ==
    /\ at = "reading"
    /\ unread = <<>>
    /\ running' = TRUE
    /\ at' = "waiting"
    /\ UNCHANGED <<poses, recorder, unread, writable, server, goal, alone>>

ServerIsReady ==
    /\ at = "waiting"
    /\ server
    /\ at' = "sending"
    /\ UNCHANGED <<poses, recorder, running, unread, writable, server, goal, alone>>

ServerIsWaitedFor == at = "waiting" /\ ~server /\ UNCHANGED navVars
\* After five seconds; running_ stays set.
ServerIsMissing ==
    /\ at = "waiting"
    /\ ~server
    /\ at' = "idle"
    /\ UNCHANGED <<poses, recorder, running, unread, writable, server, goal, alone>>

\* The goal is sent, and then spin_until_future_complete throws.
SendGoal ==
    /\ at = "sending"
    /\ goal' = poses
    /\ at' = "idle"
    /\ UNCHANGED <<poses, recorder, running, unread, writable, server, alone>>

-----------------------------------------------------------------------------
\* The follow_waypoints server (nav2): it comes and goes, and goals end.

ServerChanges ==
    /\ server' = ~server
    /\ goal' = IF server THEN Nothing ELSE goal
    /\ UNCHANGED <<poses, recorder, starter, writable, alone>>

GoalEnds ==
    /\ goal # Nothing
    /\ goal' = Nothing
    /\ UNCHANGED <<poses, recorder, starter, writable, server, alone>>

Drawing == TakeMarker \/ OpenFile \/ WriteFile

Starting ==
    \/ ReadPose \/ ReadEnds
    \/ ServerIsReady \/ ServerIsMissing
    \/ SendGoal

NavNext ==
    \/ \E markers \in Drawings : StartDrawing(markers)
    \/ Drawing
    \/ \E enabled \in BOOLEAN : RecordPoses(enabled)
    \/ StartReads \/ StartThrows \/ StartRefused \/ StartsFromMemory
    \/ Starting
    \/ ServerChanges \/ GoalEnds

NavSpec == NavInit /\ [][NavNext]_navVars

\* Both threads keep running, and the wait for the server is bounded.
Fairness == WF_navVars(Drawing) /\ WF_navVars(Starting)

NavFairSpec == NavSpec /\ Fairness

-----------------------------------------------------------------------------
\* Properties.

\* start(): the goal is the route drawn last, whole and alone, recorded in this
\* run of the node or in an earlier one, unless a drawing was taken meanwhile
\* or the file cannot be written.
GoalIsLatest ==
    [][goal' \notin {goal, Nothing} /\ alone /\ writable => goal' = drawn]_navVars

\* start() gives the websocket thread back, with the server missing too.
StartReturns == at # "idle" ~> at = "idle"
=============================================================================
