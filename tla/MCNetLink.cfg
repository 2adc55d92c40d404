CONSTANTS
    QLen = 2
    TryMod = 3
    ReqTries = 1
    RebindTries = 1

SPECIFICATION Spec

INVARIANTS
    LinkSound
    UserTold

PROPERTIES
    ComesUp
    Rejoins
    LeaseEnds
