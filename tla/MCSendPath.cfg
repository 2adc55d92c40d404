CONSTANTS
    NBuf = 2
    MaxConn = 2
    MaxMsg = 5

SPECIFICATION Spec

INVARIANTS
    BuffersSound
    SendStable

PROPERTIES
    NoStaleMessage
    InOrder
    BufferFreed
