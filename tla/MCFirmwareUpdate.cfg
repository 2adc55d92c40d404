CONSTANTS
    Tasks = {"cloud"}
    HdrLen = 2
    ReqLen = 1
    MaxChunk = 3
    SectorSize = 3
    SlotSectors = 3
    TotalLens = {4, 6}
    FileLens = {3, 4}
    Payloads = {0, 1, 2, 3, 4, 5}
    Word = 32
SPECIFICATION FairSpec
\* A device that lost power while the boot footer was rewritten does not start.
CHECK_DEADLOCK FALSE
INVARIANTS
    BootSafe
    UpdateSound
PROPERTY RequestReturns
