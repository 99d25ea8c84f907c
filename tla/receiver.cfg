SPECIFICATION Spec
CONSTANTS
    Packets = 4
    Body = 2
    MaxPacket = 6
    Burst = 4
    MaxDamage = 1
    MaxFailures = 1
    Heap <- MCHeap
PROPERTIES
    InOrderOnce
    ReadIsDecoded
CHECK_DEADLOCK FALSE
