\* A timeout of 1.6 s: microseconds that carry into the seconds.
CONSTANTS
    k1 = k1
    k2 = k2
    a = a
    empty = empty
    NULL = NULL
    Down = {k1, k2}
    Up = {}
    File = {}
    Ohma = {}
    Tables = {{k1, k2}}
    OhmaPayloads = {a}
    LastSeq = 1
    Long = {}
    Seconds = {0, 1, 2}
    Usecs = {0, 600000}
    TimeoutUsec = 600000
    MaxFragments = 3
    CleanupInterval = 1
    Keys <- MCKeys
    Payloads <- MCPayloads
    PayloadLen <- MCPayloadLen
    Protocol <- MCProtocol
    FragmentInfos <- MCFragmentInfos
SPECIFICATION MCSpec
INVARIANT ExpiredMeansOutlived
