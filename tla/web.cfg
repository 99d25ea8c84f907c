SPECIFICATION FairSpec
CONSTANTS
    p1 = p1
    p2 = p2
    Pages = {p1, p2}
    Drivers = {p1}
    Typists = {p2}
    Conns = {c1, c2}
    MaxInbox = 2
    None = None
INVARIANTS
    WelcomeFirst
    JoystickEndsInStop
PROPERTIES
    BroadcastReaches
    AskedIsAnswered
