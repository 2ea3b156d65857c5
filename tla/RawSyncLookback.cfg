CONSTANTS
    MaxIssue = 3
    Synced = {1, 2}
    PageSize = 1
    Lookback = 1
    LegacySearch = FALSE
    MaxTime = 4
SPECIFICATION Spec
PROPERTY LookbackRecovers
CHECK_DEADLOCK FALSE
