CONSTANTS
    NTimer = 5
    OsTimers = 5
    MaxStale = 1
    MaxResend = 2
    NSock = 2
    Kinds = {"HANDSHAKE_2", "HANDSHAKE_4", "ACCESS_POINT_RSP", "EVENT", "RESET_NETWORK", "OTHER"}

SPECIFICATION Spec

INVARIANTS
    TypeOK
    SessionAuthentic
    SocketUse
    TimersSound
