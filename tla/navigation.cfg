SPECIFICATION NavFairSpec
CONSTANTS
    p1 = p1
    p2 = p2
    Poses = {p1, p2}
    Arrow = Arrow
    Drawings <- SomeDrawings
    NoFile = NoFile
    Torn = Torn
    Foreign = Foreign
    Nothing = Nothing
PROPERTIES
    GoalIsLatest
    StartReturns
