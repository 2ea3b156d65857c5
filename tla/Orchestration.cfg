CONSTANTS
    Sensors <- LegacySensors
    Schedules = {"daily_jira_sync_schedule", "hourly_metrics_refresh_schedule", "weekly_ghost_cleanup_schedule"}
    AdminJobs = {"metrics_refresh_job"}
    Instants <- Night
    MaxConcurrentRuns = 2
    RunRecordLimit = 3
    MaxRuns = 3
    MaxOrphans = 1
    None = None
SPECIFICATION FairSpec
INVARIANTS
    TypeOK
    OneRunPerBucket
    GuardsHoldAmongSensors
    LightAndHeavyApart
PROPERTY EveryQueuedRunLeaves
CHECK_DEADLOCK FALSE
