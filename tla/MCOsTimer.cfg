CONSTANTS
    TmrMax = 3
    Spokes = 2
    M = 4
    MaxWait = 3
    Kinds <- MCKinds
    MaxSig = 1

SPECIFICATION TmrSpec

INVARIANTS
    WheelSound
    WalkReachesDue

PROPERTIES
    OnTime
    RunningEnds
