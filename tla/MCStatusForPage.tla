--------------------------- MODULE MCStatusForPage ---------------------------
\* StatusForPage for TLC: reports of the ECU's data, of two sets of gains, and
\* of neither.
EXTENDS StatusForPage

SomeReports ==
    {[info |-> TRUE,  gains |-> "g1",    charging |-> FALSE],
     [info |-> FALSE, gains |-> "g2",    charging |-> TRUE],
     [info |-> FALSE, gains |-> NoGains, charging |-> TRUE]}

\* A bound: sounds are explored while no page has been opened, and a page while
\* they are muted.  Only the ROS thread has to do with both.
OneAtATime == (page = Loaded /\ line = <<>>) \/ (mute /\ sound = NoSound)
=============================================================================
