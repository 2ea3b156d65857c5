------------------------------ MODULE Orchestration ------------------------------
(****************************************************************************)
(* What starts the pipeline's runs, and what keeps them apart: the guarded  *)
(* sensors, the cron schedules, the admin API and the run queue of Dagster. *)
(*                                                                          *)
(* The sensor daemon evaluates one sensor at a time: it reads the clock,    *)
(* the sensor's cursor and the active runs (Evaluate), then requests the    *)
(* run (Submit) and saves the cursor (SaveCursor). Between these steps the  *)
(* schedules and the admin API launch runs unguarded, and the daemon may    *)
(* die and start over. Dagster's own parts (queue, run_key, cursor storage) *)
(* are modelled from how schedules.py and dagster.yaml use them.            *)
(****************************************************************************)
EXTENDS Naturals, Sequences, FiniteSets

CONSTANTS
    Sensors,            \* the guarded sensors an operator has switched on
    Schedules,          \* the schedules an operator has switched on
    AdminJobs,          \* jobs the admin API launches in the behaviour
    Instants,           \* the minutes of the behaviour: [day, hour, minute]
    MaxConcurrentRuns,  \* max_concurrent_runs of dagster.yaml
    RunRecordLimit,     \* limit=200 of _get_active_run_ids_by_job
    MaxRuns,            \* bound on the number of runs of a behaviour
    MaxOrphans,         \* bound on the runs whose process dies unnoticed
    None

ASSUME OrchestrationAssumption ==
    /\ Instants \in Seq([day : Nat, hour : 0 .. 23, minute : 0 .. 59])
    /\ Instants # <<>>
    /\ MaxConcurrentRuns \in Nat \ {0}
    /\ {RunRecordLimit, MaxRuns, MaxOrphans} \subseteq Nat

VARIABLES
    clock,   \* index of the current minute in Instants
    runs,    \* run storage, in order of creation
    cursor,  \* the cursor of each sensor
    tick     \* what the sensor daemon is doing

vars == <<clock, runs, cursor, tick>>

-----------------------------------------------------------------------------
\* The four sensors: the job each requests, the minute it waits for (the hour of
\* the light refresh is every hour), how its cursor divides time and the jobs
\* that block it.
Light == "guarded_hourly_metrics_light_refresh_sensor"
Heavy == "guarded_nightly_metrics_heavy_refresh_sensor"
HeavyCfd == "guarded_nightly_metrics_heavy_cfd_sensor"
HeavyBacklogAging == "guarded_nightly_metrics_heavy_backlog_aging_sensor"

GuardedSensors == {Light, Heavy, HeavyCfd, HeavyBacklogAging}

JobOf(s) == CASE s = Light -> "metrics_light_refresh_job"
              [] s = Heavy -> "metrics_heavy_refresh_job"
              [] s = HeavyCfd -> "metrics_heavy_cfd_job"
              [] s = HeavyBacklogAging -> "metrics_heavy_backlog_aging_job"

InWindow(s, t) == CASE s = Light -> t.minute = 5
                    [] s \in {Heavy, HeavyCfd} -> t.hour = 2 /\ t.minute = 35
                    [] s = HeavyBacklogAging -> t.hour = 3 /\ t.minute = 20

Bucket(s, t) == IF s = Light THEN <<t.day, t.hour>> ELSE <<t.day>>

\* Mutant: the sensors look out for the sync and for their own job only.
BlockingJobsOneWay(s) ==
    {"jira_sync_job", "jira_clean_job", JobOf(s)}

BlockingJobs(s) ==
    {"jira_sync_job", "jira_clean_job",
     "metrics_light_refresh_job", "metrics_heavy_refresh_job"}
    \cup IF s \in {Light, Heavy} THEN {}
         ELSE {"metrics_heavy_backlog_aging_job", "metrics_heavy_cfd_job"}

LightJobs == {JobOf(Light)}
HeavyJobs == {JobOf(Heavy), JobOf(HeavyCfd), JobOf(HeavyBacklogAging)}

\* The unguarded schedules: the job of each and its minute of the day or hour.
AllSchedules == {"daily_jira_sync_schedule", "hourly_metrics_refresh_schedule",
                 "weekly_ghost_cleanup_schedule"}

ScheduledJob(c) ==
    CASE c = "daily_jira_sync_schedule" -> "jira_sync_job"
      [] c = "hourly_metrics_refresh_schedule" -> "metrics_light_refresh_job"
      [] c = "weekly_ghost_cleanup_schedule" -> "jira_ghost_cleanup_job"

ASSUME SwitchedOnAssumption ==
    /\ Sensors \subseteq GuardedSensors /\ None \notin Sensors
    /\ Schedules \subseteq AllSchedules

\* Day 7 is a Sunday.
CronMatches(c, t) ==
    /\ t.minute = 0
    /\ c = "daily_jira_sync_schedule" => t.hour = 6
    /\ c = "weekly_ghost_cleanup_schedule" => t.hour = 2 /\ t.day % 7 = 0

-----------------------------------------------------------------------------
\* ORPHANED: recorded as STARTED, but the process of the run is gone and no
\* run_monitoring is configured to notice.
InProgressStatuses == {"STARTED", "ORPHANED", "CANCELING"}

ActiveStatuses == {"QUEUED"} \cup InProgressStatuses

InProgress == {i \in DOMAIN runs : runs[i].status \in InProgressStatuses}

\* Mutant: the filter on the run records forgets the queued runs.
ActiveIfStarted == InProgress

Active == {i \in DOMAIN runs : runs[i].status \in ActiveStatuses}

\* get_run_records returns the newest records first, up to the limit.
ActiveRunsSeen ==
    {i \in Active : Cardinality({j \in Active : j > i}) < RunRecordLimit}

Now == Instants[clock]

Idle == [sensor |-> None, bucket |-> <<>>, submitted |-> FALSE]

NewRun(job, key) == [job |-> job, key |-> key, status |-> "QUEUED"]

NoKey == <<>>

Init ==
    /\ clock = 1
    /\ runs = <<>>
    /\ cursor = [s \in Sensors |-> <<>>]
    /\ tick = Idle

PassTime ==
    /\ clock < Len(Instants)
    /\ clock' = clock + 1
    /\ UNCHANGED <<runs, cursor, tick>>

\* The function of the sensor. A SkipReason changes nothing.
Evaluate(s) ==
    /\ tick = Idle
    /\ InWindow(s, Now)
    /\ cursor[s] # Bucket(s, Now)
    /\ \A i \in ActiveRunsSeen : runs[i].job \notin BlockingJobs(s)
    /\ tick' = [sensor |-> s, bucket |-> Bucket(s, Now), submitted |-> FALSE]
    /\ UNCHANGED <<clock, runs, cursor>>

\* Mutant: the run_key is left out of the RunRequest.
SubmitWithoutKey ==
    /\ tick.sensor # None /\ ~tick.submitted
    /\ Len(runs) < MaxRuns
    /\ runs' = Append(runs, NewRun(JobOf(tick.sensor), <<tick.sensor>> \o tick.bucket))
    /\ tick' = [tick EXCEPT !.submitted = TRUE]
    /\ UNCHANGED <<clock, cursor>>

\* The RunRequest: no run is created for a run_key that already has one.
Submit ==
    LET key == <<tick.sensor>> \o tick.bucket
    IN  /\ tick.sensor # None /\ ~tick.submitted
        /\ IF \E i \in DOMAIN runs : runs[i].key = key
           THEN runs' = runs
           ELSE /\ Len(runs) < MaxRuns
                /\ runs' = Append(runs, NewRun(JobOf(tick.sensor), key))
        /\ tick' = [tick EXCEPT !.submitted = TRUE]
        /\ UNCHANGED <<clock, cursor>>

\* context.update_cursor takes effect when the tick ends.
SaveCursor ==
    /\ tick.submitted
    /\ cursor' = [cursor EXCEPT ![tick.sensor] = tick.bucket]
    /\ tick' = Idle
    /\ UNCHANGED <<clock, runs>>

\* The daemon dies in the middle of a tick and is restarted.
RestartDaemon ==
    /\ tick # Idle
    /\ tick' = Idle
    /\ UNCHANGED <<clock, runs, cursor>>

Create(job, key) ==
    /\ Len(runs) < MaxRuns
    /\ runs' = Append(runs, NewRun(job, key))
    /\ UNCHANGED <<clock, cursor, tick>>

\* The scheduler creates one run for each minute of the cron expression.
FireSchedule(c) ==
    LET key == <<c, clock>>
    IN  /\ CronMatches(c, Now)
        /\ \A i \in DOMAIN runs : runs[i].key # key
        /\ Create(ScheduledJob(c), key)

\* launch_admin_job, launch_metric_batch, trigger_sync. The run is created even
\* when the answer is lost and the API reports a failed launch.
AdminLaunch(job) == Create(job, NoKey)

SetStatus(i, status) ==
    /\ runs' = [runs EXCEPT ![i].status = status]
    /\ UNCHANGED <<clock, cursor, tick>>

\* Mutant: a run starts only when no other is in progress.
DequeueAlone(i) ==
    /\ runs[i].status = "QUEUED"
    /\ \A j \in 1 .. i - 1 : runs[j].status # "QUEUED"
    /\ InProgress = {}
    /\ SetStatus(i, "STARTED")

\* Mutant: the slots are not counted.
DequeueAny(i) ==
    /\ runs[i].status = "QUEUED"
    /\ \A j \in 1 .. i - 1 : runs[j].status # "QUEUED"
    /\ SetStatus(i, "STARTED")

\* The queue hands out the oldest queued run while slots are free.
Dequeue(i) ==
    /\ runs[i].status = "QUEUED"
    /\ \A j \in 1 .. i - 1 : runs[j].status # "QUEUED"
    /\ Cardinality(InProgress) < MaxConcurrentRuns
    /\ SetStatus(i, "STARTED")

\* Success or failure.
EndRun(i) ==
    /\ runs[i].status \in {"STARTED", "CANCELING"}
    /\ SetStatus(i, "ENDED")

Cancel(i) ==
    /\ runs[i].status \in {"QUEUED", "STARTED"}
    /\ SetStatus(i, IF runs[i].status = "QUEUED" THEN "ENDED" ELSE "CANCELING")

\* The process of a run is killed, out of memory for one, and nobody is told.
Orphan(i) ==
    /\ runs[i].status = "STARTED"
    /\ Cardinality({j \in DOMAIN runs : runs[j].status = "ORPHANED"}) < MaxOrphans
    /\ SetStatus(i, "ORPHANED")

Next ==
    \/ PassTime
    \/ \E s \in Sensors : Evaluate(s)
    \/ Submit
    \/ SaveCursor
    \/ RestartDaemon
    \/ \E c \in Schedules : FireSchedule(c)
    \/ \E job \in AdminJobs : AdminLaunch(job)
    \/ \E i \in DOMAIN runs : Dequeue(i) \/ EndRun(i) \/ Cancel(i) \/ Orphan(i)

Spec == Init /\ [][Next]_vars

\* The queue daemon keeps looking and runs whose process lives come to an end.
\* Nothing forces the clock, the sensors or the launches.
Fairness ==
    /\ WF_vars(\E i \in DOMAIN runs : Dequeue(i))
    /\ \A n \in 1 .. MaxRuns : WF_vars(n \in DOMAIN runs /\ EndRun(n))

FairSpec == Spec /\ Fairness

-----------------------------------------------------------------------------
Jobs == {JobOf(s) : s \in GuardedSensors} \cup {ScheduledJob(c) : c \in AllSchedules}
        \cup AdminJobs

\* Every variable has its type; the runs being executed fit in the slots.
TypeOK ==
    /\ clock \in DOMAIN Instants
    /\ \A i \in DOMAIN runs : /\ runs[i].job \in Jobs
                              /\ runs[i].status \in ActiveStatuses \cup {"ENDED"}
    /\ Len(runs) <= MaxRuns
    /\ DOMAIN cursor = Sensors
    /\ tick.sensor \in Sensors \cup {None}
    /\ Cardinality(InProgress) <= MaxConcurrentRuns

\* A sensor requests at most one run for a bucket of its cursor (an hour, or a
\* day), though the daemon may die between the request and saving the cursor and
\* evaluate the sensor again in the same minute; a schedule one for each minute.
OneRunPerBucket ==
    \A i, j \in DOMAIN runs :
        runs[i].key = runs[j].key /\ runs[i].key # NoKey => i = j

BySensor(i) == runs[i].key # NoKey /\ Head(runs[i].key) \in GuardedSensors

\* Among the runs that sensors requested and that are not over, a later one was
\* never requested by a sensor that an earlier one blocks: neither the queue nor
\* a restart of the daemon hides a run from the guards.
GuardsHoldAmongSensors ==
    \A i, j \in Active :
        i < j /\ BySensor(i) /\ BySensor(j) =>
            runs[i].job \notin BlockingJobs(Head(runs[j].key))

\* "guarded sensors for non-overlapping light/heavy metrics refresh runs": no
\* light and heavy refresh requested by sensors are in progress together.
LightAndHeavyApart ==
    \A i, j \in InProgress :
        BySensor(i) /\ BySensor(j) /\ runs[i].job \in LightJobs =>
            runs[j].job \notin HeavyJobs

\* A run that is queued leaves the queue, also when the process of another run
\* has died and its slot is never freed.
EveryQueuedRunLeaves ==
    \A n \in 1 .. MaxRuns :
        (n \in DOMAIN runs) ~> (n \in DOMAIN runs /\ runs[n].status # "QUEUED")
=============================================================================
