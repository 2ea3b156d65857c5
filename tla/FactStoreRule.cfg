CONSTANTS
    p1 = p1
    p2 = p2
    r1 = r1
    v1 = v1
    v2 = v2
    NoRule = NoRule
    NoValue = NoValue
    Writers = {w1, w2}
    Metrics <- MCMetrics
    Projects <- MCProjects
    Rules = {r1}
    Values = {v1}
    MaxTime = 2
    Plans <- Throughput
    UseAdvisoryLock = TRUE
    MaxWrites = 3
SPECIFICATION Spec
INVARIANT NullRuleMeansUnsliced
CHECK_DEADLOCK FALSE
