SPECIFICATION FairSpec
CONSTANTS
    MaxMessages = 4
    MaxBad = 1
    MaxFails = 1
    CountModulus = 3
INVARIANTS
    PublishedOnce
    NewestIsPublished
    AnswersInOrder
PROPERTIES
    WaitingIsAnswered
    WaitingIsKept
