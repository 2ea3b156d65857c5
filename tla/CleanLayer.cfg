CONSTANTS
    Nothing = Nothing
    i1 = i1
    i2 = i2
    Sprints = {A, B}
    Versions = {"v"}
    Columns = {"todo", "done"}
    StatusIds = {1, 2}
    NameCount = 3
    Worlds <- PassingWorlds
SYMMETRY Symmetry
SPECIFICATION Spec
INVARIANTS
    TypeOK
    ChecksPass
    
    NoStatusChangeIsLost
    MembershipIsJiras
    HistoryExplainsMembership
    ColumnsKeepTheirStatuses
    LogsEndAtCurrent
CHECK_DEADLOCK FALSE
