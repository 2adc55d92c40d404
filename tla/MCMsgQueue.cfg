CONSTANTS
    N = 3
    NULL = NULL
    Msg = {m1, m2, m3, m4}
SPECIFICATION QueueSpec
INVARIANTS
    RingConsistent
PROPERTY
    RefinesFifo
