\* The tables of acars.c (a downlink and an uplink), miam.c and ohma.c.
CONSTANTS
    k1 = k1
    k2 = k2
    k3 = k3
    k4 = k4
    k5 = k5
    k6 = k6
    a = a
    empty = empty
    NULL = NULL
    Down = {k1}
    Up = {k2}
    File = {k3, k4}
    Ohma = {k5, k6}
    Tables = {{k1, k2}, {k3, k4}, {k5, k6}}
    OhmaPayloads = {a}
    LastSeq = 2
    Long = {k5}
    Seconds = {0, 1, 2}
    Usecs = {0}
    TimeoutUsec = 0
    MaxFragments = 3
    CleanupInterval = 1
    Keys <- MCKeys
    Payloads <- MCPayloads
    PayloadLen <- MCPayloadLen
    Protocol <- MCProtocol
    FragmentInfos <- MCFragmentInfos
SPECIFICATION MCSpec
INVARIANTS
    TypeOK
    InOrderGapless
    CompleteIsReady
    NothingLeftBehind
    DuplicateIsStored
    NoStaleMix
    OutOfOrderSorted
    TotalsMatchList
PROPERTIES
    OthersUntouched
    FragmentsKept
