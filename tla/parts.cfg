SPECIFICATION PartsSpec
CONSTANTS
    Images <- MCImages
    Page = 24
    StorageBlock = 8
    SparseHeader = 4
    ChunkHeader = 6
    FillCache = 8
    Wrap = 256
    Room = 40
    MaxInfos = 1
    Timers = {t1, t2}
    Delays = {0, 2}
    Half = 5
    TickEvery = 1
    MaxLate = 0
    MaxCalls = 2
    HeapBase = 2
    HeapLen = 40
    Pointer = 2
    AllocStruct = 6
    FreeChunk = 6
    MinAlign = 8
    Sizes = {0, 3, 10}
    Alignments = {0, 16}
    RankInfo <- MCRanks
    Protected <- MCProtected
    ReservedMax = 4
    BlockMax = 6
    ReserveSizes = {1, 2}
    Aligns = {1, 2}
    Limits = {6, 9, 20}
    Callers = {a, b}
    Requests <- MCRequests
    BlockSize = 3
    DeviceSize = 21
    Names = {x, y, z}
    NameLength = 2
    Values = {0, 1, 3}
    DataSize = 15
    Writers = {boot, io}
    LogStoreSize = 5
    OffPl = 2
    PlSizes = {1, 2, 3}
    MaxChars = 4
    MaxConfigs = 2
    LogSettings = {uart, ratelimit}
    MmcRequests <- MCTransfers
    MaxPhysSegs = 2
    MaxTunes = 1
    MaxHalvings = 1
    MaxFaults = 2
INVARIANTS BuffersHold ImageArrives RequestOwned InStep TimersSound HeapSound MapSound BytesExact EnvKept LogSound SuccessIsMoved
PROPERTIES PackagesEnd CommandEnds TimersFire PartsBoot RequestsEnd
CHECK_DEADLOCK FALSE
