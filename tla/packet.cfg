SPECIFICATION Spec
CONSTANTS
    MaxByte = 255
    MaxCode = 4
    MaxPayload = 5
    DstLen = 9
    Table <- crcTable
    NoPayload = NoPayload
    Payloads <- SomePayloads
    Noise <- SomeNoise
    Damaged <- SomeDamaged
INVARIANTS
    InBuffer
    NoZeroInside
    FrameFits
    RoundTrip
    CrcIsRemainder
    DamageIsRejected
\* A packet ends.
CHECK_DEADLOCK FALSE
