--------------------------- MODULE MCRobotActions ---------------------------
\* RobotActions for TLC: small counters and links; maxRetries 2 instead of 20
\* and a counter modulo 4 instead of 256.
EXTENDS RobotActions

RosOnly   == {"ros"}
RosAndGui == {"ros", "gui"}

\* What only the ROS thread takes: two actions whose requests carry a value, the
\* acknowledgement, which a queued emergency stop does not refuse, and docking.
RosRequests == [ros |-> {"JumpToBoot", "EmergencyStop", AckFault, "DOCKING"}]

\* What the page's buttons ask too: an action of each thread, and both may be
\* queued.
GuiRequests == [ros |-> {"Reboot"}, gui |-> {"EnterStandBy"}]
=============================================================================
