CONSTANTS
    Sensors <- StagedSensors
    Schedules = {}
    AdminJobs = {}
    Instants <- StagedNight
    MaxConcurrentRuns = 2
    RunRecordLimit = 3
    MaxRuns = 3
    MaxOrphans = 0
    None = None
SPECIFICATION Spec
INVARIANT LightAndHeavyApart
CHECK_DEADLOCK FALSE
