SPECIFICATION Spec
CONSTANTS
    Chunks = {c1, c2}
    NoSound = NoSound
    Gains = {"g1", "g2"}
    NoGains = "none"
    Zeros = "zeros"
    Reports <- SomeReports
    MaxLine = 1
CONSTRAINT OneAtATime
INVARIANTS
    SoundsAreSafe
    GainsAreThoseMerged
PROPERTIES
    FlagSettles
    IndicatorIsExact
