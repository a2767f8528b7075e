\* Messages whose fragments are all empty.
CONSTANTS
    k1 = k1
    k2 = k2
    a = a
    empty = empty
    NULL = NULL
    Down = {}
    Up = {}
    File = {}
    Ohma = {k1, k2}
    Tables = {{k1, k2}}
    OhmaPayloads = {empty}
    LastSeq = 2
    Long = {}
    Seconds = {0, 1, 2}
    Usecs = {0}
    TimeoutUsec = 0
    MaxFragments = 3
    CleanupInterval = 1
    Keys <- MCKeys
    Payloads <- MCPayloads
    PayloadLen <- MCPayloadLen
    Protocol <- MCProtocol
    FragmentInfos <- MCFragmentInfos
SPECIFICATION MCSpec
PROPERTY PayloadGetRemoves
