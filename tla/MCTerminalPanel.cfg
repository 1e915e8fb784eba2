CONSTANTS
    MaxGen = 3
    Gen <- MCGen
    IdleMinutes = 1
SPECIFICATION FairSpec
INVARIANT TypeOK
INVARIANT NothingLeftBehind
INVARIANT PanelTellsTheTruth
INVARIANT OneNoticePerLoss
PROPERTY HalfOpenIsNoticed
CHECK_DEADLOCK FALSE
