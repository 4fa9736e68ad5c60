SPECIFICATION LaunchSpec
CONSTANTS
    MinFreeContext = 2
    IdRank <- MCIdRank
    Launches <- MCLaunches
    Catalogues <- MCCatalogues
    EvidenceFor <- MCEvidenceFor
INVARIANTS
    LaunchTypeOK
    ChildRunsParentsRound
    PickIsVetted
    FreeStaysOut
    CleanMeansProven
    AddedCodesAreEarned
CHECK_DEADLOCK FALSE
