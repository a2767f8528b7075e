\* An orderly link: every message arrives.
CONSTANTS
    kd = kd
    ku = ku
    ko = ko
    d1 = d1
    d2 = d2
    u1 = u1
    u2 = u2
    o1 = o1
    o2 = o2
    NULL = NULL
    Groups = {{d1, d2, u1}}
    Keys = {kd, ku}
    Messages = {d1, d2, u1}
    Timeout = 1
    Lifetime = 1
    MaxTime = 3
    CleanupInterval = 1
    MsgKey <- MCMsgKey
    MsgLen <- MCMsgLen
    MsgStart <- MCMsgStart
    Payloads <- MCPayloads
    PayloadLen <- MCPayloadLen
    Protocol <- MCProtocol
    FragmentInfos <- MCFragmentInfos
SPECIFICATION OrderlySpec
PROPERTIES
    EveryMessageArrives
CHECK_DEADLOCK FALSE
