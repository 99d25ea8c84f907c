\* Handlers called by the ROS executor and by the websocket server's thread.
SPECIFICATION FairSpec
CONSTANTS
    Threads <- RosAndGui
    Requests <- GuiRequests
    MaxRetries = 1
    SentModulus = 3
    Garbage = {}
    MaxLink = 1
PROPERTIES
    QueuedIsResolved
    NothingClearedUnsent
