SPECIFICATION Spec
CONSTANTS
    Nothing = Nothing
    i1 = i1
    i2 = i2
    PerDay = 2
    DaysPerWeek = 2
    DaysBack = 1
    Estimates = {1, 2}
    Worlds <- MCWorlds
    Board <- MCBoard
    Categories <- MCCategories
    RuleSpans <- MCRuleSpans
SYMMETRY Symmetry
CHECK_DEADLOCK FALSE
INVARIANTS
    TypeOK
    LeadTimeIsOfTheCurrentStay
    
    BacklogFlowsBalance
    
    FlowTimesAreTrue
    EpicIsDeliveredWhenAllAreDone
    BlockedTimeIsTrue
    CommitmentIsTheSprintAtStart
    CompletedIsWhatTheSprintFinished
    PlannedPointsAreThoseAtStart
    ScopeChangesBalance
    BurndownIsTrue
    ActivatedHaveLeftTheInitialStatus
    SlicesAddUp
    
    AgeBecomesLeadTime
