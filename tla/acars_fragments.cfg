\* The same with decode_fragments on: a file is lost.
CONSTANTS
    f = f
    g = g
    u = u
    v = v
    NULL = NULL
    SameId = FALSE
    TwoSegments = {f}
    Groups = {{f, g}}
    Files = {f, g}
    DecodeFragments = {TRUE}
    Bearers = {"vhf"}
    MiamTimeout = 1
    AcarsInterval = 1
    MiamInterval = 1
    Lifetime = 1
    MaxTime = 2
    FileId <- MCFileId
    Frames <- MCFrames
    FrameKind <- MCFrameKind
    FileOf <- MCFileOf
    SegmentId <- MCSegmentId
    Blocks <- MCBlocks
    MsgKey <- MCMsgKey
    Header <- MCHeader
    Profile <- MCProfile
SPECIFICATION OrderlySpec
PROPERTIES
    EveryFileDecoded
CHECK_DEADLOCK FALSE
