\* Rows of one or two ADS-C reports, cut anywhere.
CONSTANTS
    AdscPayloads <- MCPayloads
    Sendings <- MCSendings
SPECIFICATION MCSpec
INVARIANTS
    AdscReadsInside
    OnlyFailedTagLeaks
    ArincAsSent
    AllAsSent
    CpdlcAsSent
    MiamAsSent
    OhmaAsSent
    MediaAsSent
PROPERTIES
    AdscEnds
