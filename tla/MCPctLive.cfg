CONSTANTS
    NTimer = 5
    OsTimers = 5
    MaxStale = 1
    MaxResend = 1
    NSock = 1
    Kinds = {"HANDSHAKE_2", "HANDSHAKE_4", "EVENT"}

SPECIFICATION FairSpec

PROPERTIES
    Reconnects
    HandshakeEnds
    EventsDrain
