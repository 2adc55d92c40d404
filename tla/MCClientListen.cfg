SPECIFICATION Spec
CONSTANTS
    NClient = 2
    NFd = 4
INVARIANTS
    IdleListens
