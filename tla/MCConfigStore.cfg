CONSTANTS
    Reachable = {"up"}
    Dead = {"dead"}
    Failures = 0
    MaxToken = 2
    MaxConfig = 1
    MaxLoss = 1
    MaxError = 1

SPECIFICATION Spec

INVARIANTS
    StoreSound

PROPERTIES
    TokenNeverBack
    FindsCloud
