-------------------------- MODULE OrchestrationProofs --------------------------
(****************************************************************************)
(* Proofs about module Orchestration, for any sensors and schedules that    *)
(* are switched on, any minutes and any number of runs.                     *)
(*                                                                          *)
(* The invariant of the guards says what a tick of the sensor daemon knows  *)
(* between Evaluate and Submit: no sensor's run that blocks the one it is   *)
(* about to request has become active meanwhile, because only schedules and *)
(* the admin API create runs in between.                                    *)
(****************************************************************************)
EXTENDS Orchestration, FiniteSetTheorems, SequenceTheorems, TLAPS

RunKeys == Seq(GuardedSensors \cup AllSchedules \cup Nat)

RunType == [job : Jobs, key : RunKeys, status : ActiveStatuses \cup {"ENDED"}]

DaemonType ==
    /\ clock \in 1 .. Len(Instants)
    /\ DOMAIN cursor = Sensors
    /\ tick \in [sensor : Sensors \cup {None}, bucket : Seq(Nat), submitted : BOOLEAN]
    /\ tick.submitted => tick.sensor # None

TypeInv ==
    /\ DaemonType
    /\ runs \in Seq(RunType) /\ Len(runs) <= MaxRuns
    /\ Cardinality(InProgress) <= MaxConcurrentRuns

-----------------------------------------------------------------------------
\* The three ways in which a step treats the runs: it leaves them, creates one, or gives
\* one that is active another status.
Created(job, key) ==
    /\ Len(runs) < MaxRuns
    /\ runs' = Append(runs, NewRun(job, key))

Changed(i, status) ==
    /\ i \in DOMAIN runs /\ runs[i].status \in ActiveStatuses
    /\ runs' = [runs EXCEPT ![i].status = status]

\* The runs that were there keep their place, and the new one is queued behind them.
LEMMA CreatedRuns ==
    ASSUME runs \in Seq(RunType), NEW job \in Jobs, NEW key \in RunKeys, Created(job, key)
    PROVE  /\ runs' \in Seq(RunType) /\ Len(runs') = Len(runs) + 1
           /\ DOMAIN runs = 1 .. Len(runs) /\ DOMAIN runs' = 1 .. Len(runs) + 1
           /\ \A j \in DOMAIN runs : runs'[j] = runs[j]
           /\ runs'[Len(runs) + 1] = [job |-> job, key |-> key, status |-> "QUEUED"]
  <1>1. NewRun(job, key) \in RunType
    BY DEF NewRun, RunType, ActiveStatuses
  <1> QED
    BY <1>1 DEF Created, NewRun

\* Only the status of the one run is another.
LEMMA ChangedRuns ==
    ASSUME runs \in Seq(RunType), NEW i, NEW status \in ActiveStatuses \cup {"ENDED"},
           Changed(i, status)
    PROVE  /\ runs' \in Seq(RunType) /\ Len(runs') = Len(runs)
           /\ DOMAIN runs' = DOMAIN runs
           /\ \A j \in DOMAIN runs : /\ runs'[j].job = runs[j].job
                                     /\ runs'[j].key = runs[j].key
                                     /\ runs'[j].status =
                                            IF j = i THEN status ELSE runs[j].status
  <1>1. i \in 1 .. Len(runs) /\ runs[i] \in RunType
    BY DEF Changed
  <1>2. [runs[i] EXCEPT !.status = status] \in RunType
    BY <1>1 DEF RunType
  <1>3. runs' = [runs EXCEPT ![i] = [runs[i] EXCEPT !.status = status]]
    BY DEF Changed
  <1>4. runs' \in Seq(RunType) /\ Len(runs') = Len(runs)
    BY <1>1, <1>2, <1>3, ExceptSeq
  <1>5. \A j \in 1 .. Len(runs) :
            runs'[j] = IF j = i THEN [runs[i] EXCEPT !.status = status] ELSE runs[j]
    BY <1>1, <1>2, <1>3, ExceptSeq
  <1>6. \A j \in 1 .. Len(runs) : runs[j] \in RunType
    OBVIOUS
  <1> QED
    BY <1>4, <1>5, <1>6 DEF RunType

\* The key that a tick of a sensor asks for begins with the sensor.
LEMMA SensorKey ==
    ASSUME NEW s \in GuardedSensors, NEW b \in Seq(Nat)
    PROVE  /\ <<s>> \o b \in RunKeys
           /\ <<s>> \o b # NoKey
           /\ Head(<<s>> \o b) = s
  <1> DEFINE S == GuardedSensors \cup AllSchedules \cup Nat
  <1>1. <<s>> \in Seq(S) /\ Len(<<s>>) = 1 /\ <<s>>[1] = s
    OBVIOUS
  <1>2. b \in Seq(S)
    BY SeqMonotonic
  <1> HIDE DEF S
  <1>3. /\ <<s>> \o b \in Seq(S)
        /\ Len(<<s>> \o b) = 1 + Len(b)
        /\ (<<s>> \o b)[1] = s
    BY <1>1, <1>2, ConcatProperties
  <1>4. Len(b) \in Nat
    BY <1>2
  <1>5. <<s>> \o b # <<>>
    BY <1>3, <1>4
  <1> QED
    BY <1>3, <1>5 DEF NoKey, RunKeys, S

\* The bucket of a minute is made of numbers.
LEMMA BucketType ==
    ASSUME TypeInv, NEW s
    PROVE  Bucket(s, Now) \in Seq(Nat)
  <1> DEFINE Minutes == [day : Nat, hour : 0 .. 23, minute : 0 .. 59]
  <1>1. Instants \in Seq(Minutes) /\ clock \in 1 .. Len(Instants)
    BY OrchestrationAssumption DEF TypeInv, DaemonType
  <1>2. Now \in Minutes
    <2> HIDE DEF Minutes
    <2> QED
      BY <1>1, ElementOfSeq DEF Now
  <1>3. Now.day \in Nat /\ Now.hour \in Nat
    BY <1>2
  <1> QED
    BY <1>3 DEF Bucket

-----------------------------------------------------------------------------
\* How each action treats the runs. Evaluate, SaveCursor, RestartDaemon and PassTime leave
\* them; Submit and the launches create one, and the queue changes one.
LEMMA SubmitRuns ==
    ASSUME TypeInv, Submit
    PROVE  /\ tick.sensor \in Sensors /\ tick.sensor \in GuardedSensors
           /\ <<tick.sensor>> \o tick.bucket \in RunKeys
           /\ \/ runs' = runs
              \/ /\ \A i \in DOMAIN runs : runs[i].key # <<tick.sensor>> \o tick.bucket
                 /\ Created(JobOf(tick.sensor), <<tick.sensor>> \o tick.bucket)
  <1>1. tick.sensor \in Sensors /\ tick.bucket \in Seq(Nat)
    BY DEF TypeInv, DaemonType, Submit
  <1>2. tick.sensor \in GuardedSensors
    BY <1>1, SwitchedOnAssumption
  <1>3. <<tick.sensor>> \o tick.bucket \in RunKeys
    BY <1>1, <1>2, SensorKey
  <1> QED
    BY <1>1, <1>2, <1>3 DEF Submit, Created

\* The scheduler creates one for a minute that has none.
LEMMA ScheduleRuns ==
    ASSUME TypeInv, NEW c \in Schedules, FireSchedule(c)
    PROVE  /\ <<c, clock>> \in RunKeys /\ <<c, clock>> # NoKey
           /\ Head(<<c, clock>>) \notin GuardedSensors
           /\ ScheduledJob(c) \in Jobs
           /\ \A i \in DOMAIN runs : runs[i].key # <<c, clock>>
           /\ Created(ScheduledJob(c), <<c, clock>>)
  <1>1. c \in AllSchedules
    BY SwitchedOnAssumption
  <1>2. clock \in Nat
    BY OrchestrationAssumption DEF TypeInv, DaemonType
  <1>3. <<c, clock>> \in RunKeys /\ <<c, clock>> # NoKey
    BY <1>1, <1>2 DEF RunKeys, NoKey
  <1>4. Head(<<c, clock>>) = c
    OBVIOUS
  <1>5. c \notin GuardedSensors
    BY <1>1 DEF AllSchedules, GuardedSensors, Light, Heavy, HeavyCfd, HeavyBacklogAging
  <1>6. ScheduledJob(c) \in Jobs
    BY <1>1 DEF Jobs
  <1> QED
    BY <1>3, <1>4, <1>5, <1>6 DEF FireSchedule, Create, Created

\* A launch of the API creates one that has no key.
LEMMA LaunchRuns ==
    ASSUME NEW job \in AdminJobs, AdminLaunch(job)
    PROVE  job \in Jobs /\ NoKey \in RunKeys /\ Created(job, NoKey)
  BY DEF AdminLaunch, Create, Created, Jobs, NoKey, RunKeys

QueueStep(i) == Dequeue(i) \/ EndRun(i) \/ Cancel(i) \/ Orphan(i)

\* The queue, an operator or the end of its process give an active run another status.
LEMMA QueueRuns ==
    ASSUME NEW i \in DOMAIN runs, QueueStep(i)
    PROVE  /\ \E status \in ActiveStatuses \cup {"ENDED"} : Changed(i, status)
           /\ UNCHANGED <<clock, cursor, tick>>
  BY DEF QueueStep, Dequeue, EndRun, Cancel, Orphan, SetStatus, Changed,
         ActiveStatuses, InProgressStatuses

\* So the history of the runs only grows, and the key of a new run is new unless it has none.
LEMMA RunsStep ==
    ASSUME TypeInv, [Next]_vars
    PROVE  \/ runs' = runs
           \/ \E job \in Jobs, key \in RunKeys :
                /\ key = NoKey \/ \A i \in DOMAIN runs : runs[i].key # key
                /\ Created(job, key)
           \/ \E i \in DOMAIN runs : /\ QueueStep(i)
                                     /\ \E status \in ActiveStatuses \cup {"ENDED"} :
                                            Changed(i, status)
  <1>1. CASE Submit
    <2>1. tick.sensor \in GuardedSensors
      BY <1>1, SubmitRuns
    <2>2. JobOf(tick.sensor) \in Jobs
      BY <2>1 DEF Jobs
    <2> QED
      BY <1>1, <2>2, SubmitRuns
  <1>2. CASE \E c \in Schedules : FireSchedule(c)
    BY <1>2, ScheduleRuns
  <1>3. CASE \E job \in AdminJobs : AdminLaunch(job)
    BY <1>3, LaunchRuns
  <1>4. CASE \E i \in DOMAIN runs : QueueStep(i)
    BY <1>4, QueueRuns
  <1>5. CASE PassTime \/ (\E s \in Sensors : Evaluate(s)) \/ SaveCursor \/ RestartDaemon
    BY <1>5 DEF PassTime, Evaluate, SaveCursor, RestartDaemon
  <1>6. CASE UNCHANGED vars
    BY <1>6 DEF vars
  <1> QED
    BY <1>1, <1>2, <1>3, <1>4, <1>5, <1>6 DEF Next, QueueStep

-----------------------------------------------------------------------------
\* The runs in progress are numbered, and so finitely many.
LEMMA InProgressFinite ==
    ASSUME runs \in Seq(RunType)
    PROVE  IsFiniteSet(InProgress) /\ Cardinality(InProgress) \in Nat
  <1>1. InProgress \subseteq 1 .. Len(runs) /\ Len(runs) \in Nat
    BY DEF InProgress
  <1>2. IsFiniteSet(1 .. Len(runs))
    BY <1>1, FS_Interval
  <1> QED
    BY <1>1, <1>2, FS_Subset, FS_CardinalityType

\* Only Dequeue fills a slot, and only a free one.
LEMMA SlotsStep ==
    ASSUME TypeInv, [Next]_vars
    PROVE  Cardinality(InProgress)' <= MaxConcurrentRuns
  <1>1. IsFiniteSet(InProgress) /\ Cardinality(InProgress) \in Nat
    BY InProgressFinite DEF TypeInv
  <1>2. SUFFICES \/ InProgress' \subseteq InProgress
                 \/ \E i : /\ InProgress' \subseteq InProgress \cup {i}
                           /\ Cardinality(InProgress) < MaxConcurrentRuns
    <2>1. CASE InProgress' \subseteq InProgress
      <3>1. Cardinality(InProgress') <= Cardinality(InProgress) /\ IsFiniteSet(InProgress')
        BY <1>1, <2>1, FS_Subset
      <3> QED
        BY <1>1, <3>1, FS_CardinalityType, OrchestrationAssumption DEF TypeInv
    <2>2. ASSUME NEW i, InProgress' \subseteq InProgress \cup {i},
                 Cardinality(InProgress) < MaxConcurrentRuns
          PROVE  Cardinality(InProgress') <= MaxConcurrentRuns
      <3>1. /\ IsFiniteSet(InProgress \cup {i})
            /\ Cardinality(InProgress \cup {i}) =
                    IF i \in InProgress THEN Cardinality(InProgress)
                    ELSE Cardinality(InProgress) + 1
        BY <1>1, FS_AddElement
      <3>2. /\ Cardinality(InProgress') <= Cardinality(InProgress \cup {i})
            /\ Cardinality(InProgress') \in Nat
        BY <2>2, <3>1, FS_Subset, FS_CardinalityType
      <3> QED
        BY <1>1, <2>2, <3>1, <3>2, OrchestrationAssumption
    <2> QED
      BY <1>2, <2>1, <2>2
  <1>3. CASE runs' = runs
    BY <1>3 DEF InProgress
  <1>4. CASE \E job \in Jobs, key \in RunKeys : Created(job, key)
    <2>1. PICK job \in Jobs, key \in RunKeys : Created(job, key)
      BY <1>4
    <2> runs \in Seq(RunType)
      BY DEF TypeInv
    <2>2. /\ DOMAIN runs = 1 .. Len(runs) /\ DOMAIN runs' = 1 .. Len(runs) + 1
          /\ \A j \in DOMAIN runs : runs'[j] = runs[j]
          /\ runs'[Len(runs) + 1] = [job |-> job, key |-> key, status |-> "QUEUED"]
      BY <2>1, CreatedRuns
    <2>3. \A j \in DOMAIN runs' : j \in DOMAIN runs \/ j = Len(runs) + 1
      BY <2>2
    <2> QED
      BY <2>2, <2>3 DEF InProgress, InProgressStatuses
  <1>5. ASSUME NEW i \in DOMAIN runs, QueueStep(i)
        PROVE  \/ InProgress' \subseteq InProgress
               \/ /\ InProgress' \subseteq InProgress \cup {i}
                  /\ Cardinality(InProgress) < MaxConcurrentRuns
    <2>1. \E status \in ActiveStatuses \cup {"ENDED"} : Changed(i, status)
      BY <1>5, QueueRuns
    <2>2. /\ DOMAIN runs' = DOMAIN runs
          /\ \A j \in DOMAIN runs \ {i} : runs'[j].status = runs[j].status
      BY <2>1, ChangedRuns DEF TypeInv
    <2>3. InProgress' \subseteq InProgress \cup {i}
      BY <2>2 DEF InProgress
    <2>4. CASE Dequeue(i)
      BY <2>3, <2>4 DEF Dequeue
    <2>5. CASE EndRun(i) \/ Orphan(i)
      <3>1. i \in InProgress
        BY <2>5 DEF EndRun, Orphan, InProgress, InProgressStatuses
      <3> QED
        BY <2>3, <3>1
    <2>6. CASE Cancel(i)
      <3>1. CASE runs[i].status = "STARTED"
        <4>1. i \in InProgress
          BY <3>1 DEF InProgress, InProgressStatuses
        <4> QED
          BY <2>3, <4>1
      <3>2. CASE runs[i].status = "QUEUED"
        <4>1. Changed(i, "ENDED")
          BY <2>6, <3>2 DEF Cancel, SetStatus, Changed, ActiveStatuses
        <4>2. runs'[i].status = "ENDED"
          BY <4>1, ChangedRuns DEF TypeInv
        <4>3. i \notin InProgress'
          BY <4>2 DEF InProgress, InProgressStatuses
        <4> QED
          BY <2>3, <4>3
      <3> QED
        BY <2>6, <3>1, <3>2 DEF Cancel
    <2> QED
      BY <1>5, <2>4, <2>5, <2>6 DEF QueueStep
  <1> QED
    BY <1>3, <1>4, <1>5, RunsStep

-----------------------------------------------------------------------------
\* At first nothing runs and no sensor is evaluated.
LEMMA TypeInit == Init => TypeInv
  <1> SUFFICES ASSUME Init
               PROVE  TypeInv
    OBVIOUS
  <1>1. runs \in Seq(RunType) /\ Len(runs) = 0 /\ InProgress = {}
    BY DEF Init, InProgress
  <1>2. Cardinality(InProgress) = 0
    BY <1>1, FS_EmptySet
  <1>3. Len(Instants) \in Nat \ {0}
    BY OrchestrationAssumption, EmptySeq
  <1> QED
    BY <1>1, <1>2, <1>3, OrchestrationAssumption DEF Init, TypeInv, DaemonType, Idle

\* A tick of the daemon goes from Evaluate to Submit to SaveCursor, or ends before.
LEMMA DaemonStep ==
    ASSUME TypeInv, [Next]_vars
    PROVE  DaemonType'
  <1>1. DaemonType
    BY DEF TypeInv
  <1>2. Len(Instants) \in Nat
    BY OrchestrationAssumption
  <1>3. CASE PassTime
    BY <1>1, <1>2, <1>3 DEF PassTime, DaemonType
  <1>4. ASSUME NEW s \in Sensors, Evaluate(s)
        PROVE  DaemonType'
    <2>1. Bucket(s, Now) \in Seq(Nat)
      BY BucketType
    <2> QED
      BY <1>1, <1>4, <2>1 DEF Evaluate, DaemonType
  <1>5. CASE Submit
    BY <1>1, <1>5 DEF Submit, DaemonType
  <1>6. CASE SaveCursor
    BY <1>1, <1>6 DEF SaveCursor, Idle, DaemonType
  <1>7. CASE RestartDaemon
    BY <1>1, <1>7 DEF RestartDaemon, Idle, DaemonType
  <1>8. CASE UNCHANGED <<clock, cursor, tick>>
    BY <1>1, <1>8 DEF DaemonType
  <1>9. CASE \/ \E c \in Schedules : FireSchedule(c)
             \/ \E job \in AdminJobs : AdminLaunch(job)
             \/ \E i \in DOMAIN runs : QueueStep(i)
             \/ UNCHANGED vars
    BY <1>8, <1>9, QueueRuns DEF FireSchedule, AdminLaunch, Create, vars
  <1> QED
    BY <1>3, <1>4, <1>5, <1>6, <1>7, <1>9 DEF Next, QueueStep

\* All of it together.
LEMMA TypeStep == TypeInv /\ [Next]_vars => TypeInv'
  <1> SUFFICES ASSUME TypeInv, [Next]_vars
               PROVE  TypeInv'
    OBVIOUS
  <1>1. runs' \in Seq(RunType) /\ Len(runs') <= MaxRuns
    <2> runs \in Seq(RunType) /\ Len(runs) <= MaxRuns /\ MaxRuns \in Nat
      BY OrchestrationAssumption DEF TypeInv, DaemonType
    <2>1. ASSUME NEW job \in Jobs, NEW key \in RunKeys, Created(job, key)
          PROVE  runs' \in Seq(RunType) /\ Len(runs') <= MaxRuns
      <3>1. runs' \in Seq(RunType) /\ Len(runs') = Len(runs) + 1
        BY <2>1, CreatedRuns
      <3>2. Len(runs) < MaxRuns /\ Len(runs) \in Nat
        BY <2>1 DEF Created
      <3> QED
        BY <3>1, <3>2
    <2>2. ASSUME NEW i, NEW status \in ActiveStatuses \cup {"ENDED"}, Changed(i, status)
          PROVE  runs' \in Seq(RunType) /\ Len(runs') <= MaxRuns
      BY <2>2, ChangedRuns
    <2> QED
      BY <2>1, <2>2, RunsStep
  <1> QED
    BY <1>1, DaemonStep, SlotsStep DEF TypeInv

\* Every variable keeps its type and the runs in progress their slots, for any sensors,
\* schedules, minutes and numbers of runs.
THEOREM OrchestrationTypeCorrect == Spec => []TypeOK
  <1>1. TypeInv => TypeOK
    <2> SUFFICES ASSUME TypeInv
                 PROVE  TypeOK
      OBVIOUS
    <2>1. \A i \in DOMAIN runs : runs[i] \in RunType
      BY DEF TypeInv
    <2>2. clock \in DOMAIN Instants
      BY OrchestrationAssumption DEF TypeInv, DaemonType
    <2> QED
      BY <2>1, <2>2 DEF TypeInv, DaemonType, TypeOK, RunType
  <1> QED
    BY TypeInit, TypeStep, <1>1, PTL DEF Spec

-----------------------------------------------------------------------------
\* A restart of the daemon between Submit and SaveCursor makes it ask for the run again,
\* but no second run comes of it: a bucket of a sensor has one run, a minute of a schedule
\* one (schedules.py: run_key of the RunRequest).
THEOREM OneRunForABucket == Spec => []OneRunPerBucket
  <1>1. Init => OneRunPerBucket
    BY DEF Init, OneRunPerBucket
  <1>2. TypeInv /\ OneRunPerBucket /\ [Next]_vars => OneRunPerBucket'
    <2> SUFFICES ASSUME TypeInv, OneRunPerBucket, [Next]_vars
                 PROVE  OneRunPerBucket'
      OBVIOUS
    <2> runs \in Seq(RunType)
      BY DEF TypeInv
    <2>1. CASE runs' = runs
      BY <2>1 DEF OneRunPerBucket
    <2>2. ASSUME NEW job \in Jobs, NEW key \in RunKeys, Created(job, key),
                 key = NoKey \/ \A i \in DOMAIN runs : runs[i].key # key
          PROVE  OneRunPerBucket'
      <3>1. /\ DOMAIN runs = 1 .. Len(runs) /\ DOMAIN runs' = 1 .. Len(runs) + 1
            /\ \A j \in DOMAIN runs : runs'[j] = runs[j]
            /\ runs'[Len(runs) + 1] = [job |-> job, key |-> key, status |-> "QUEUED"]
        BY <2>2, CreatedRuns
      <3>2. runs'[Len(runs) + 1].key = key
        BY <3>1
      <3>3. \A j \in DOMAIN runs' : j \in DOMAIN runs \/ j = Len(runs) + 1
        BY <3>1
      <3> QED
        BY <2>2, <3>1, <3>2, <3>3 DEF OneRunPerBucket
    <2>3. ASSUME NEW i, NEW status \in ActiveStatuses \cup {"ENDED"}, Changed(i, status)
          PROVE  OneRunPerBucket'
      BY <2>3, ChangedRuns DEF OneRunPerBucket
    <2> QED
      BY <2>1, <2>2, <2>3, RunsStep
  <1> QED
    BY <1>1, <1>2, TypeInit, TypeStep, PTL DEF Spec

-----------------------------------------------------------------------------
\* Between Evaluate and Submit none of the active runs of sensors blocks the request.
PendingIsUnblocked ==
    tick.sensor # None /\ ~tick.submitted =>
        \A i \in Active : BySensor(i) => runs[i].job \notin BlockingJobs(tick.sensor)

GuardInv == PendingIsUnblocked /\ GuardsHoldAmongSensors

\* The sensors see every active run, if there are never more runs than they ask for.
LEMMA AllAreSeen ==
    ASSUME MaxRuns <= RunRecordLimit, TypeInv
    PROVE  ActiveRunsSeen = Active
  <1> SUFFICES ASSUME NEW i \in Active
               PROVE  Cardinality({j \in Active : j > i}) < RunRecordLimit
    BY DEF ActiveRunsSeen
  <1> DEFINE later == {j \in Active : j > i}
  <1>1. Len(runs) \in Nat /\ Len(runs) <= MaxRuns /\ DOMAIN runs = 1 .. Len(runs)
    BY DEF TypeInv
  <1>2. i \in 1 .. Len(runs) /\ later \subseteq (i + 1) .. Len(runs)
    BY <1>1 DEF Active
  <1>3. /\ IsFiniteSet((i + 1) .. Len(runs))
        /\ Cardinality((i + 1) .. Len(runs)) =
                IF i + 1 > Len(runs) THEN 0 ELSE Len(runs) - (i + 1) + 1
    <2>1. i + 1 \in Int /\ Len(runs) \in Int
      BY <1>1, <1>2
    <2> HIDE DEF later
    <2> QED
      BY ONLY <2>1, FS_Interval
  <1>4. /\ IsFiniteSet(later)
        /\ Cardinality(later) <= Cardinality((i + 1) .. Len(runs))
    BY <1>2, <1>3, FS_Subset
  <1>5. Cardinality(later) \in Nat
    BY <1>4, FS_CardinalityType
  <1> HIDE DEF later
  <1>6. Cardinality(later) < RunRecordLimit
    BY <1>1, <1>2, <1>3, <1>4, <1>5, OrchestrationAssumption
  <1> QED
    BY <1>6 DEF later

\* A step that creates no run of a sensor and evaluates none leaves the guards in place.
LEMMA OthersKeepGuards ==
    ASSUME GuardInv, DOMAIN runs \subseteq DOMAIN runs',
           tick' = tick \/ tick'.sensor = None \/ tick'.submitted,
           \A i \in Active' : BySensor(i)' =>
                /\ i \in Active /\ BySensor(i)
                /\ runs'[i].job = runs[i].job /\ runs'[i].key = runs[i].key
    PROVE  GuardInv'
  <1>1. PendingIsUnblocked'
    BY DEF GuardInv, PendingIsUnblocked, BlockingJobs
  <1>2. GuardsHoldAmongSensors'
    BY DEF GuardInv, GuardsHoldAmongSensors, BlockingJobs
  <1> QED
    BY <1>1, <1>2 DEF GuardInv

\* What the steps of the queue make active was active.
LEMMA QueueKeepsGuards ==
    ASSUME TypeInv, GuardInv, NEW i \in DOMAIN runs, QueueStep(i)
    PROVE  GuardInv'
  <1>1. PICK status \in ActiveStatuses \cup {"ENDED"} : Changed(i, status)
    BY QueueRuns
  <1>2. /\ DOMAIN runs' = DOMAIN runs
        /\ \A j \in DOMAIN runs : /\ runs'[j].job = runs[j].job
                                  /\ runs'[j].key = runs[j].key
                                  /\ j # i => runs'[j].status = runs[j].status
    BY <1>1, ChangedRuns DEF TypeInv
  <1>3. i \in Active
    BY <1>1 DEF Changed, Active
  <1>4. \A j \in Active' : j \in Active
    BY <1>2, <1>3 DEF Active
  <1>5. \A j \in Active' : BySensor(j)' => BySensor(j)
    BY <1>2 DEF BySensor, Active
  <1>6. tick' = tick
    BY QueueRuns
  <1>7. \A j \in Active' : j \in DOMAIN runs
    BY <1>2 DEF Active
  <1> QED
    BY <1>2, <1>4, <1>5, <1>6, <1>7, OthersKeepGuards

\* The runs of schedules and of the API are not those of a sensor.
LEMMA LaunchKeepsGuards ==
    ASSUME TypeInv, GuardInv, NEW job \in Jobs, NEW key \in RunKeys, Created(job, key),
           key = NoKey \/ Head(key) \notin GuardedSensors, tick' = tick
    PROVE  GuardInv'
  <1> runs \in Seq(RunType)
    BY DEF TypeInv
  <1>1. /\ DOMAIN runs = 1 .. Len(runs) /\ DOMAIN runs' = 1 .. Len(runs) + 1
        /\ \A j \in DOMAIN runs : runs'[j] = runs[j]
        /\ runs'[Len(runs) + 1] = [job |-> job, key |-> key, status |-> "QUEUED"]
    BY CreatedRuns
  <1>2. runs'[Len(runs) + 1].key = key
    BY <1>1
  <1>3. \A j \in Active' : j \in DOMAIN runs \/ j = Len(runs) + 1
    BY <1>1 DEF Active
  <1>4. \A j \in Active' : BySensor(j)' => j \in DOMAIN runs
    BY <1>2, <1>3 DEF BySensor
  <1>5. \A j \in Active' : BySensor(j)' => j \in Active /\ BySensor(j)
    BY <1>1, <1>4 DEF BySensor, Active
  <1>6. DOMAIN runs \subseteq DOMAIN runs'
    BY <1>1
  <1> QED
    BY <1>1, <1>4, <1>5, <1>6, OthersKeepGuards

\* The run that a sensor requests was not blocked by a sensor's run when it was evaluated,
\* and so is not now.
LEMMA SubmitKeepsGuards ==
    ASSUME TypeInv, GuardInv, Submit
    PROVE  GuardInv'
  <1> runs \in Seq(RunType)
    BY DEF TypeInv
  <1> DEFINE s == tick.sensor
             key == <<s>> \o tick.bucket
  <1>1. tick'.submitted
    BY DEF Submit, TypeInv, DaemonType
  <1>2. CASE runs' = runs
    BY <1>1, <1>2, OthersKeepGuards DEF Active, BySensor
  <1>3. CASE Created(JobOf(s), key)
    <2>1. s \in GuardedSensors /\ key \in RunKeys /\ tick.bucket \in Seq(Nat)
      BY SubmitRuns DEF TypeInv, DaemonType
    <2>2. key # NoKey /\ Head(key) = s
      BY <2>1, SensorKey
    <2>3. JobOf(s) \in Jobs
      BY <2>1 DEF Jobs
    <2> HIDE DEF key
    <2>4. /\ DOMAIN runs = 1 .. Len(runs) /\ DOMAIN runs' = 1 .. Len(runs) + 1
          /\ \A j \in DOMAIN runs : runs'[j] = runs[j]
          /\ runs'[Len(runs) + 1] = [job |-> JobOf(s), key |-> key, status |-> "QUEUED"]
      BY <1>3, <2>1, <2>3, CreatedRuns
    <2>5. runs'[Len(runs) + 1].key = key
      BY <2>4
    <2>6. SUFFICES ASSUME NEW i \in Active', NEW j \in Active', i < j,
                          BySensor(i)', BySensor(j)'
                   PROVE  runs'[i].job \notin BlockingJobs(Head(runs'[j].key))
      BY <1>1, <2>6 DEF GuardInv, PendingIsUnblocked, GuardsHoldAmongSensors, BlockingJobs
    <2>7. i \in 1 .. Len(runs) + 1 /\ j \in 1 .. Len(runs) + 1 /\ Len(runs) \in Nat
      BY <2>4 DEF Active
    <2>8. i \in DOMAIN runs
      BY <2>4, <2>6, <2>7
    <2>9. i \in Active /\ BySensor(i)
      BY <2>4, <2>6, <2>8 DEF Active, BySensor
    <2>10. CASE j = Len(runs) + 1
      BY <2>2, <2>4, <2>5, <2>8, <2>9, <2>10 DEF GuardInv, PendingIsUnblocked, Submit
    <2>11. CASE j # Len(runs) + 1
      <3>1. j \in DOMAIN runs
        BY <2>4, <2>7, <2>11
      <3>2. j \in Active /\ BySensor(j)
        BY <2>4, <2>6, <3>1 DEF Active, BySensor
      <3> QED
        BY <2>4, <2>6, <2>8, <2>9, <3>1, <3>2 DEF GuardInv, GuardsHoldAmongSensors
    <2> QED
      BY <2>10, <2>11
  <1> QED
    BY <1>2, <1>3, SubmitRuns

\* No sensor requests a run while a run of a sensor that blocks it is active, however the
\* queue, the schedules and the API act between the look at the active runs and the request,
\* and though the daemon may start over; as long as there are no more runs than a sensor
\* reads (schedules.py: _get_active_run_ids_by_job, limit=200).
THEOREM GuardsHold ==
    ASSUME MaxRuns <= RunRecordLimit
    PROVE  Spec => []GuardsHoldAmongSensors
  <1>1. Init => GuardInv
    BY DEF Init, GuardInv, PendingIsUnblocked, GuardsHoldAmongSensors, Active, Idle
  <1>2. TypeInv /\ GuardInv /\ [Next]_vars => GuardInv'
    <2> SUFFICES ASSUME TypeInv, GuardInv, [Next]_vars
                 PROVE  GuardInv'
      OBVIOUS
    <2>1. ASSUME NEW s \in Sensors, Evaluate(s)
          PROVE  GuardInv'
      <3>1. ActiveRunsSeen = Active
        BY AllAreSeen
      <3>2. /\ \A i \in Active : runs[i].job \notin BlockingJobs(s)
            /\ tick'.sensor = s /\ runs' = runs
        BY <2>1, <3>1 DEF Evaluate
      <3>3. PendingIsUnblocked'
        BY <3>2 DEF PendingIsUnblocked, Active, BlockingJobs
      <3>4. GuardsHoldAmongSensors'
        BY <3>2 DEF GuardInv, GuardsHoldAmongSensors, Active, BySensor, BlockingJobs
      <3> QED
        BY <3>3, <3>4 DEF GuardInv
    <2>2. CASE PassTime \/ SaveCursor \/ RestartDaemon \/ UNCHANGED vars
      <3>1. runs' = runs /\ (tick' = tick \/ tick'.sensor = None)
        BY <2>2 DEF PassTime, SaveCursor, RestartDaemon, Idle, vars
      <3> QED
        BY <3>1, OthersKeepGuards DEF Active, BySensor
    <2>3. ASSUME NEW c \in Schedules, FireSchedule(c)
          PROVE  GuardInv'
      <3>1. tick' = tick
        BY <2>3 DEF FireSchedule, Create
      <3> QED
        BY <2>3, <3>1, ScheduleRuns, LaunchKeepsGuards
    <2>4. ASSUME NEW job \in AdminJobs, AdminLaunch(job)
          PROVE  GuardInv'
      <3>1. tick' = tick
        BY <2>4 DEF AdminLaunch, Create
      <3> QED
        BY <2>4, <3>1, LaunchRuns, LaunchKeepsGuards
    <2> QED
      BY <2>1, <2>2, <2>3, <2>4, SubmitKeepsGuards, QueueKeepsGuards DEF Next, QueueStep
  <1>3. GuardInv => GuardsHoldAmongSensors
    BY DEF GuardInv
  <1> QED
    BY <1>1, <1>2, <1>3, TypeInit, TypeStep, PTL DEF Spec

-----------------------------------------------------------------------------
\* A run that a sensor requested has that sensor's job.
SensorRuns ==
    \A i \in DOMAIN runs : BySensor(i) =>
        /\ Head(runs[i].key) \in Sensors
        /\ runs[i].job = JobOf(Head(runs[i].key))

LEMMA SensorRunsStep ==
    ASSUME TypeInv, SensorRuns, [Next]_vars
    PROVE  SensorRuns'
  <1> runs \in Seq(RunType)
    BY DEF TypeInv
  <1>1. ASSUME NEW job \in Jobs, NEW key \in RunKeys, Created(job, key),
               key # NoKey /\ Head(key) \in GuardedSensors =>
                    Head(key) \in Sensors /\ job = JobOf(Head(key))
        PROVE  SensorRuns'
    <2>1. /\ DOMAIN runs = 1 .. Len(runs) /\ DOMAIN runs' = 1 .. Len(runs) + 1
          /\ \A j \in DOMAIN runs : runs'[j] = runs[j]
          /\ runs'[Len(runs) + 1] = [job |-> job, key |-> key, status |-> "QUEUED"]
      BY <1>1, CreatedRuns
    <2>2. \A j \in DOMAIN runs' : j \in DOMAIN runs \/ j = Len(runs) + 1
      BY <2>1
    <2>3. runs'[Len(runs) + 1].job = job /\ runs'[Len(runs) + 1].key = key
      BY <2>1
    <2> QED
      BY <1>1, <2>1, <2>2, <2>3 DEF SensorRuns, BySensor
  <1>2. ASSUME NEW i \in DOMAIN runs, QueueStep(i)
        PROVE  SensorRuns'
    <2>1. PICK status \in ActiveStatuses \cup {"ENDED"} : Changed(i, status)
      BY <1>2, QueueRuns
    <2>2. /\ DOMAIN runs' = DOMAIN runs
          /\ \A j \in DOMAIN runs : runs'[j].job = runs[j].job /\ runs'[j].key = runs[j].key
      BY <2>1, ChangedRuns
    <2> QED
      BY <2>2 DEF SensorRuns, BySensor
  <1>3. CASE runs' = runs
    BY <1>3 DEF SensorRuns, BySensor
  <1>4. CASE Submit
    <2> DEFINE s == tick.sensor
               key == <<s>> \o tick.bucket
    <2>1. /\ s \in Sensors /\ s \in GuardedSensors /\ key \in RunKeys
          /\ runs' = runs \/ Created(JobOf(s), key)
      BY <1>4, SubmitRuns
    <2>2. tick.bucket \in Seq(Nat)
      BY DEF TypeInv, DaemonType
    <2>3. key # NoKey /\ Head(key) = s /\ JobOf(s) \in Jobs
      BY <2>1, <2>2, SensorKey DEF Jobs
    <2> QED
      BY <1>1, <1>3, <2>1, <2>3
  <1>5. ASSUME NEW c \in Schedules, FireSchedule(c)
        PROVE  SensorRuns'
    BY <1>1, <1>5, ScheduleRuns
  <1>6. ASSUME NEW job \in AdminJobs, AdminLaunch(job)
        PROVE  SensorRuns'
    BY <1>1, <1>6, LaunchRuns
  <1>7. CASE UNCHANGED vars \/ PassTime \/ SaveCursor \/ RestartDaemon
             \/ \E s \in Sensors : Evaluate(s)
    BY <1>3, <1>7 DEF vars, PassTime, SaveCursor, RestartDaemon, Evaluate
  <1> QED
    BY <1>2, <1>4, <1>5, <1>6, <1>7 DEF Next, QueueStep

\* No light and heavy refresh requested by sensors are in progress together, as long as the
\* staged sensors, which the light one does not look out for, are switched off, as they are
\* by default (schedules.py: METRICS_LIGHT_REFRESH_JOB_NAME, DefaultSensorStatus.STOPPED).
THEOREM LightAndHeavyStayApart ==
    ASSUME MaxRuns <= RunRecordLimit, Sensors \subseteq {Light, Heavy}
    PROVE  Spec => []LightAndHeavyApart
  <1>1. Init => SensorRuns
    BY DEF Init, SensorRuns
  <1>2. TypeInv /\ SensorRuns /\ [Next]_vars => SensorRuns'
    BY SensorRunsStep
  <1>3. TypeInv /\ SensorRuns /\ GuardsHoldAmongSensors => LightAndHeavyApart
    <2> SUFFICES ASSUME TypeInv, SensorRuns, GuardsHoldAmongSensors,
                        NEW i \in InProgress, NEW j \in InProgress,
                        BySensor(i), BySensor(j),
                        runs[i].job \in LightJobs, runs[j].job \in HeavyJobs
                 PROVE  FALSE
      BY DEF LightAndHeavyApart
    <2>1. i \in Active /\ j \in Active /\ i \in DOMAIN runs /\ j \in DOMAIN runs
      BY DEF Active, InProgress, ActiveStatuses
    <2>2. /\ JobOf(Light) = "metrics_light_refresh_job"
          /\ JobOf(Heavy) = "metrics_heavy_refresh_job"
      BY DEF JobOf, Light, Heavy, HeavyCfd, HeavyBacklogAging
    <2>3. runs[i].job = JobOf(Light) /\ runs[j].job # JobOf(Light)
      BY <2>2 DEF LightJobs, HeavyJobs, JobOf, Light, Heavy, HeavyCfd, HeavyBacklogAging
    <2>4. /\ Head(runs[i].key) = Light /\ Head(runs[j].key) = Heavy
          /\ runs[j].job = JobOf(Heavy)
      BY <2>1, <2>2, <2>3 DEF SensorRuns
    <2>5. i < j \/ j < i
      BY <2>1, <2>2, <2>3, <2>4 DEF TypeInv
    <2> QED
      BY <2>1, <2>2, <2>3, <2>4, <2>5 DEF GuardsHoldAmongSensors, BlockingJobs
  <1> QED
    BY <1>1, <1>2, <1>3, GuardsHold, TypeInit, TypeStep, PTL DEF Spec
================================================================================
