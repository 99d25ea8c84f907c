SPECIFICATION FairSpec
CONSTANTS
    CmdLimit = 4
    VirtLimit = 1
INVARIANTS
    MotionIsFresh
    JoystickIsReleased
    CmdVelPrevails
PROPERTIES
    RobotStops
