SPECIFICATION LaunchSpec
CONSTANTS
    MinFreeContext = 2
    IdRank <- MCIdRank
    Launches <- MCLaunches
    Catalogues <- MCCatalogues
    EvidenceFor <- MCEvidenceFor
INVARIANT AnswererIsRequested
CHECK_DEADLOCK FALSE
