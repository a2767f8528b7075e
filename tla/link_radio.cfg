\* A lossy link: downlinks with one number beside an uplink, uplinks that
\* follow each other at once, or an OHMA conversation used by two messages.
CONSTANTS
    kd = kd
    ku = ku
    ko = ko
    d1 = d1
    d2 = d2
    u1 = u1
    u2 = u2
    o1 = o1
    o2 = o2
    NULL = NULL
    Groups = {{d1, d2, u1}, {u1, u2}, {o1, o2}}
    Keys = {kd, ku, ko}
    Messages = {d1, d2, u1, u2, o1, o2}
    Timeout = 1
    Lifetime = 1
    MaxTime = 3
    CleanupInterval = 1
    MsgKey <- MCMsgKey
    MsgLen <- MCMsgLen
    MsgStart <- MCMsgStart
    Payloads <- MCPayloads
    PayloadLen <- MCPayloadLen
    Protocol <- MCProtocol
    FragmentInfos <- MCFragmentInfos
SPECIFICATION MCRadioSpec
INVARIANTS
    LinkInv
PROPERTIES
    OnlyWholeMessages
CHECK_DEADLOCK FALSE
