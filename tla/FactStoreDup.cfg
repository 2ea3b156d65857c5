CONSTANTS
    p1 = p1
    p2 = p2
    r1 = r1
    v1 = v1
    v2 = v2
    NoRule = NoRule
    NoValue = NoValue
    Writers = {w1, w2}
    Metrics <- PartialScopeMetrics
    Projects <- MCProjects
    Rules = {r1}
    Values = {v1}
    MaxTime = 2
    Plans <- PartialScopes
    UseAdvisoryLock = TRUE
    MaxWrites = 2
SPECIFICATION Spec
INVARIANT NoDuplicateFacts
CHECK_DEADLOCK FALSE
