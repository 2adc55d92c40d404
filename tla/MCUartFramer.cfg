SPECIFICATION UartSpec
CONSTANTS
    HeadLen = 2
    MaxLen = 4
    MaxChunk = 4
    MaxByte = 3
INVARIANTS
    UartSound
    Framed
PROPERTIES
    Returns
