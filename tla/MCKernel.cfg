CONSTANTS
    N = 2
    Event <- MCEvent
    Kind <- MCKind
    Limit <- MCLimit
    Several <- MCSeveral
    MaxDly = 2
    MaxNest = 1

SPECIFICATION Spec

INVARIANTS
    EventsSound
    TokensConserved
    HighestRuns
    NoLostWakeup

PROPERTIES
    SuspensionHolds
    TimeoutEnds
