\* vstring: appends of all lengths up to a limit of 31 octets, with a size_t
\*     as on i686 (twice the limit fits) and a wider one.
\* json: chains of up to three nodes.
\* bitstream: up to 20 bits.
\* base85: two words, texts of up to 20 characters.
\* inflate: up to 50 octets, with a limit of 36.
\* config: two options, one with a default; three cells for texts.
CONSTANTS
    InitialSize = 4
    SizeMax = 31
    SizeModuli = {64, 128}
    Lengths <- MCLengths
    MaxNodes = 3
    MaxCalls = 3
    MaxDepth = 2
    OctetCounts = {0, 2}
    StreamSizes = {8, 20}
    Chunks <- MCChunks
    ChunkWidths = {3, 8}
    ReadWidths = {1, 5, 12}
    WordModulus = 64
    Base85Words = {w1, w2}
    Base85Texts <- MCTexts
    Base85Sent <- MCSentWords
    Zero = Zero
    Garbage = Garbage
    InflateInputs = {1, 3, 10}
    Contents <- MCContents
    MaxInflatedLen = 36
    bearer = bearer
    callsign = callsign
    v0 = v0
    v1 = v1
    x = x
    y = y
    NULL = NULL
    Names = {bearer, callsign}
    Cells = {c1, c2, c3}
    Values <- MCValues
    Defaults <- MCDefaults
SPECIFICATION UtilitiesSpec
INVARIANTS
    InBuffer
    JsonInv
    OutputInBuffer
    SecondTimeFits
    OutputFits
    Base85RoundTrip
    SuccessIsWhole
    TextsOwned
PROPERTIES
    IsBitQueue
    LoopsEnd
    IsStore
CHECK_DEADLOCK FALSE
