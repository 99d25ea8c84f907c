\* Handlers called by the ROS executor alone.
SPECIFICATION Spec
CONSTANTS
    Threads <- RosOnly
    Requests <- RosRequests
    MaxRetries = 2
    SentModulus = 4
    Garbage = {}
    MaxLink = 1
INVARIANTS
    CommandIsAsRequested
PROPERTIES
    Promise
    NothingClearedUnsent
