SPECIFICATION MCSpec
CONSTANTS
    DataActions = {"gap", "reset", "grow"}
    TrialBoots = {1, 2}
    Overlap = TRUE
INVARIANTS
    TypeOK
    TableSurvives
    TrialIsBootableAlone
    RemovedOnce
    ResetIsAuthorised
    ArmsAsAsked
    CompletedIsRemovedAlone
