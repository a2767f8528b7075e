\* A lossy link: two downlink files under one identifier, or two uplink files.
CONSTANTS
    f = f
    g = g
    u = u
    v = v
    NULL = NULL
    SameId = TRUE
    TwoSegments = {f, g}
    Groups = {{f, g}, {u, v}}
    Files = {f, g, u, v}
    DecodeFragments = {FALSE}
    Bearers = {"vhf", "hfdl"}
    MiamTimeout = 1
    AcarsInterval = 1
    MiamInterval = 1
    Lifetime = 1
    MaxTime = 3
    FileId <- MCFileId
    Frames <- MCFrames
    FrameKind <- MCFrameKind
    FileOf <- MCFileOf
    SegmentId <- MCSegmentId
    Blocks <- MCBlocks
    MsgKey <- MCMsgKey
    Header <- MCHeader
    Profile <- MCProfile
SPECIFICATION MCRadioSpec
INVARIANTS
    DecoderInv
PROPERTIES
    OnlyWholeFiles
CHECK_DEADLOCK FALSE
