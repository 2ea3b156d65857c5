----------------------------- MODULE MetricReports -----------------------------
(****************************************************************************)
(* What the calculations make of a history of work. People create issues,   *)
(* move them, plan them into a sprint and estimate them while time passes;  *)
(* `past` remembers how things stood. `tables` is what the clean layer      *)
(* makes of the present, with the statements of CleanTables, and the        *)
(* properties compare what the calculations find in it with what was the    *)
(* case.                                                                    *)
(****************************************************************************)
EXTENDS FlowCalculations, SprintCalculations

CONSTANTS
    Worlds,     \* records of what MCMetricReports!World has
    Board,      \* the columns of the board
    Categories, \* status -> category
    RuleSpans,  \* the pairs of columns a commitment rule may name
    Estimates,  \* positive numbers
    DaysBack    \* the days of the cumulative flow diagram before today

VARIABLES
    world,   \* the world of this behaviour
    jira,    \* the issues, with their histories
    tables,  \* the clean tables, which a run makes of jira whenever it changes
    rules,   \* commitment rules
    now,
    past,    \* what jira was at the end of each tick that is over
    events   \* number of changes so far

vars == <<world, jira, tables, rules, now, past, events>>

Clean == INSTANCE CleanTables

Statuses == DOMAIN Categories
Initial == Min(Statuses)

ASSUME ReportsAssumption ==
    /\ Statuses \subseteq Nat /\ Statuses # {} /\ Categories[Initial] = "to_do"
    /\ StatusesOf(Board) = Statuses
    /\ Estimates \subseteq Nat \ {0} /\ DaysBack \in Nat
    /\ \A w \in Worlds : w.known \subseteq Statuses /\ {w.maxNow, w.maxEvents} \subseteq Nat
                         /\ {w.sprint.start, w.sprint.end} \subseteq Nat
                         /\ w.sprint.start <= w.sprint.end
    /\ Nothing \notin Nat /\ Nothing \notin {"project", "board", "epic"}

\* A column has one position, and Jira keeps a status in one column of a board.
ASSUME BoardAssumption ==
    \A c, d \in Board :
        /\ c.position \in Nat
        /\ c.id = d.id => c.position = d.position
        /\ c.status = d.status /\ c.status # Nothing => c.id = d.id

ASSUME FiniteBoardAssumption == IsFiniteSet(Board)

\* The column of the category is NOT NULL.
ASSUME CategoryAssumption == \A s \in Statuses : Categories[s] # Nothing

-----------------------------------------------------------------------------
\* The clean tables when the raw tables hold `issues`. w.known are the statuses that
\* earlier runs have found.
Cleaned(w, issues) ==
    LET raw == [issues |-> issues, tables |-> {"items"}]
        known == [issue_statuses |-> [s \in w.known |-> s]]
        t == [issues |-> [i \in DOMAIN issues |-> issues[i].status],
              issue_statuses |-> Clean!CleanIssueStatuses(known, raw).issue_statuses,
              status_changelog |-> <<>>,
              sprints |-> [s \in {"sprint"} |-> "active"], sprint_issues |-> <<>>,
              sprint_issues_changelog |-> {}]
    IN  Clean!CleanSprintIssuesChangelog(
            Clean!CleanSprintIssues(Clean!CleanStatusChangelog(t, raw), raw), raw)

\* The last estimate; one that was cleared stays.
KeptPoints(issue) ==
    LET cleared == {c \in issue.pointChanges : c.to = Nothing}
    IN  IF issue.points = Nothing /\ cleared # {} THEN LastChange(cleared).from
        ELSE issue.points

TablesOf(w, issues, at) ==
    LET t == Cleaned(w, issues)
        log == t.status_changelog
    IN  [issues |-> [i \in DOMAIN issues |->
            [created |-> issues[i].created, resolved |-> issues[i].resolved,
             status |-> issues[i].status, points |-> KeptPoints(issues[i]),
             type |-> i, parent |-> "epic"]],
         status_changelog |->
            {[issue |-> k[1], from |-> log[k], to |-> k[2], at |-> k[3]] : k \in DOMAIN log},
         sprint_issues |-> {k[2] : k \in DOMAIN t.sprint_issues},
         sprint_issues_changelog |-> t.sprint_issues_changelog,
         points_changelog |-> UNION {{[issue |-> i, old |-> c.from, new |-> c.to, at |-> c.at] :
                                      c \in issues[i].pointChanges} : i \in DOMAIN issues},
         columns |-> Board,
         category |-> [s \in DOMAIN t.issue_statuses |-> Categories[s]],
         sprint |-> w.sprint, daysBack |-> DaysBack, now |-> at]

-----------------------------------------------------------------------------
Init ==
    /\ world \in Worlds
    /\ jira = <<>> /\ rules = {}
    /\ tables = TablesOf(world, <<>>, 0)
    /\ now = 0 /\ past = <<>> /\ events = 0

-----------------------------------------------------------------------------
Tick ==
    /\ now < world.maxNow
    /\ now' = now + 1
    /\ past' = Append(past, jira)
    /\ tables' = TablesOf(world, jira, now + 1)
    /\ UNCHANGED <<world, jira, rules, events>>

Event(kind) == /\ kind \in world.kinds /\ events < world.maxEvents
               /\ events' = events + 1
               /\ UNCHANGED <<world, now, past>>

CreateIssue(i, planned, points) ==
    /\ Event("create")
    /\ i \in world.issues \ DOMAIN jira
    /\ planned => "plan" \in world.kinds
    /\ points # Nothing => "estimate" \in world.kinds
    /\ jira' = [j \in DOMAIN jira \cup {i} |-> IF j # i THEN jira[j] ELSE
            [created |-> now, status |-> Initial, statusName |-> Initial, changes |-> {},
             sprints |-> IF planned THEN {"sprint"} ELSE {}, moves |-> {},
             points |-> points, pointChanges |-> {}, resolved |-> Nothing]]
    /\ tables' = TablesOf(world, jira', now)
    /\ UNCHANGED rules

\* A tick has at most one change of a kind of an issue, and none is the one of its creation.
Change(i, old, issue) == /\ jira[i].created < now
                         /\ \A c \in old : c.at < now
                         /\ jira' = [jira EXCEPT ![i] = issue]
                         /\ tables' = TablesOf(world, jira', now)
                         /\ UNCHANGED rules

IsDone(status) == Categories[status] = "done"

\* Where workflows resolve issues they do when an issue becomes done, and clear it after.
Resolution(issue, status) ==
    IF ~world.resolves \/ ~IsDone(status) THEN Nothing
    ELSE IF IsDone(issue.status) THEN issue.resolved ELSE now

MoveIssue(i, status) ==
    LET old == jira[i]
    IN  /\ Event("move")
        /\ i \in DOMAIN jira /\ status # old.status
        /\ Change(i, old.changes, [old EXCEPT
                !.status = status, !.statusName = status,
                !.resolved = Resolution(old, status),
                !.changes = @ \cup {[at |-> now, from |-> old.status, to |-> status,
                                     name |-> status]}])

\* Into the sprint or out of it, perhaps when it is over.
PlanIssue(i) ==
    LET old == jira[i]
        new == {"sprint"} \ old.sprints
    IN  /\ Event("plan")
        /\ i \in DOMAIN jira
        /\ Change(i, old.moves, [old EXCEPT
                !.sprints = new,
                !.moves = @ \cup {[at |-> now, from |-> old.sprints, to |-> new]}])

EstimateIssue(i, points) ==
    LET old == jira[i]
    IN  /\ Event("estimate")
        /\ i \in DOMAIN jira /\ points # old.points
        /\ Change(i, old.pointChanges, [old EXCEPT
                !.points = points,
                !.pointChanges = @ \cup {[at |-> now, from |-> old.points, to |-> points]}])

\* Mutant: the old rule stays.
InsertRule(rule) ==
    /\ Event("rule")
    /\ rule \notin rules
    /\ rules' = rules \cup {rule}
    /\ UNCHANGED <<jira, tables>>

\* One rule for a project and a board; either may be NULL.
SaveRule(rule) ==
    /\ Event("rule")
    /\ rule \notin rules
    /\ rules' = {r \in rules : <<r.project, r.board>> # <<rule.project, rule.board>>} \cup {rule}
    /\ UNCHANGED <<jira, tables>>

Rules == [project : {Nothing, "project"}, board : {Nothing, "board"}, span : RuleSpans]

Next ==
    \/ Tick
    \/ \E i \in world.issues, planned \in BOOLEAN, points \in Estimates \cup {Nothing} :
            CreateIssue(i, planned, points)
    \/ \E i \in DOMAIN jira :
            \/ \E s \in Statuses : MoveIssue(i, s)
            \/ PlanIssue(i)
            \/ \E p \in Estimates \cup {Nothing} : EstimateIssue(i, p)
    \/ \E r \in Rules :
            SaveRule([project |-> r.project, board |-> r.board,
                      start |-> r.span[1], end |-> r.span[2]])

Spec == Init /\ [][Next]_vars

-----------------------------------------------------------------------------
\* What was the case at the end of tick k.
At(k) == IF k < now THEN past[k + 1] ELSE jira

StatusAt(i, k) == At(k)[i].status
PlannedAt(i, k) == i \in DOMAIN At(k) /\ At(k)[i].sprints # {}
PointsAt(i, k) == IF i \in DOMAIN At(k) THEN At(k)[i].points ELSE Nothing

Life(i) == jira[i].created .. now
After(i) == (jira[i].created + 1) .. now

\* The ticks at which the issue came into S from another status, and out of S.
Came(i, S) == {k \in After(i) : StatusAt(i, k) \in S /\ StatusAt(i, k) # StatusAt(i, k - 1)}
Left(i, S) == {k \in After(i) : StatusAt(i, k) \notin S /\ StatusAt(i, k - 1) \in S}

Done == {s \in Statuses : IsDone(s)}
Active == {s \in Statuses : Categories[s] = "in_progress"}
Wait == {s \in Statuses : Categories[s] = "to_do"}
Reopened(i) == Left(i, Done) # {}

\* The last tick of a day, as far as it has come.
Close(d) == Min({now, d * PerDay + PerDay - 1})

ByName == identify_commitment_points_heuristic(Board)
ByRule == CommitmentPoints(rules, Board, "project", "board")

-----------------------------------------------------------------------------
\* The state has its type: histories are what changed from tick to tick, and a project and
\* board have one rule.
TypeOK ==
    /\ world \in Worlds /\ now \in 0 .. world.maxNow /\ events \in 0 .. world.maxEvents
    /\ Len(past) = now
    /\ \A r, s \in rules : <<r.project, r.board>> = <<s.project, s.board>> => r = s
    /\ \A i \in DOMAIN jira :
        /\ jira[i].created \in 0 .. now /\ jira[i].status \in Statuses
        /\ Times(jira[i].changes) = Came(i, Statuses)
        /\ \A k \in Life(i) : i \in DOMAIN At(k)

\* The lead time of an issue that is in the end statuses is that of its present stay: it
\* ends when the stay began, and starts when the issue first came into a middle status after
\* it last left the end statuses. An issue that is neither there nor resolved has none
\* (lead_time.py, with the rule that applies to the board).
LeadTimeIsOfTheCurrentStay ==
    LET t == tables
        p == ByRule
        facts == calculate_lead_time_per_issue(t, p)
    IN  \A i \in DOMAIN jira :
        IF jira[i].status \in p.end
        THEN LET since == Min({k \in Life(i) : \A j \in k .. now : StatusAt(i, j) \in p.end})
                 left == Left(i, p.end)
                 started == {k \in Came(i, p.middle) :
                                k <= since /\ (left # {} => k >= Max(left))}
             IN  IF started = {} THEN i \notin DOMAIN facts
                 ELSE i \in DOMAIN facts /\ facts[i] = Span(Min(started), since)
        ELSE jira[i].resolved = Nothing => i \notin DOMAIN facts

\* When an issue that has no rule became done, its lead time began where its age did until
\* then. Not so when it was reopened straight into a middle status: then the age began later,
\* or at the creation of the issue (aging.py asks for an entry after it left, lead_time.py for
\* one no earlier).
AgeBecomesLeadTime ==
    LET facts == calculate_lead_time_per_issue(tables, ByName)
    IN  \A i \in {i \in DOMAIN jira : jira[i].status \in ByName.end} :
        LET before == Max(Came(i, ByName.end)) - 1
            t == TablesOf(world, At(before), before)
            since == InProgressSince(t, i, ByName)
        IN  StatusAt(i, before) \notin Done /\ Left(i, Done) \cap Came(i, ByName.middle) = {}
            => IF since = Nothing THEN i \notin DOMAIN facts
               ELSE /\ i \in DOMAIN facts
                    /\ facts[i].start = calculate_work_item_aging_facts(t)[i].start

\* Each day of the diagram shows in each column the issues that were there when the day
\* ended; done columns only those first done since the diagram begins. An issue is missing
\* on the days before its first change (cumulative_flow.py).
CfdCountsAreTrue ==
    LET t == tables
        shown(i, d) == /\ jira[i].created <= Close(d)
                       /\ Came(i, Statuses) # {} => Day(Min(Came(i, Statuses))) <= d
        counted(i, d) == IsDone(StatusAt(i, Close(d))) => Day(Min(Came(i, Done))) >= From(t)
    IN  \A d \in Max({0, From(t)}) .. Day(now) :
            LET there == {i \in DOMAIN jira : shown(i, d) /\ counted(i, d)}
            IN  \A column \in {c.id : c \in Board} :
                    calculate_cumulative_flow_diagram(t, d, column) = Cardinality(
                        {i \in there : \E c \in Board :
                            c.id = column /\ c.status = StatusAt(i, Close(d))})

Open(k) == {i \in DOMAIN At(k) : ~IsDone(StatusAt(i, k))}

\* Where workflows resolve issues and all statuses are known, the size of the backlog, which
\* is made of creations and resolutions, is that of the open issues, and what the changes
\* of status let enter and exit leads to the same. Until an issue is reopened this holds
\* of every day (backlog_growth.py).
BacklogFlowsBalance ==
    LET t == tables
        entered == SumFunction([d \in 0 .. Day(now) |-> entered_backlog_count(t, d)])
        exited == SumFunction([d \in 0 .. Day(now) |-> exited_backlog_count(t, d)])
        size == total_backlog_size(t, Day(now))
    IN  world.resolves =>
        /\ size = Cardinality(Open(now))
        /\ (\A c \in t.status_changelog : c.from # Nothing) =>
                size = Cardinality(DOMAIN jira) + entered - exited
        /\ (\A i \in DOMAIN jira : ~Reopened(i)) =>
                \A d \in 0 .. Day(now) : total_backlog_size(t, d) = Cardinality(Open(Close(d)))

\* All calculations agree on when an issue that was never reopened was finished: throughput,
\* lifetime, lead time, flow efficiency and the release burnup.
FinishIsTheSameEverywhere ==
    LET t == tables
        lead == calculate_lead_time_per_issue(t, ByName)
        life == calculate_issue_lifetime(t, Done)
        flow == calculate_flow_efficiency_per_issue(t, Active, Wait, Done)
        finished == {i \in DOMAIN jira : IsDone(jira[i].status)}
        finish(i) == Min(Came(i, Done))
    IN  (\A i \in DOMAIN jira : ~Reopened(i)) =>
        /\ DOMAIN life = finished
        /\ \A i \in finished :
            /\ completion_date(t, i) = finish(i) /\ life[i].end = finish(i)
            /\ i \in DOMAIN lead => lead[i].end = finish(i) /\ lead[i].days <= life[i].days
            /\ i \in DOMAIN flow => flow[i].end = finish(i)
            /\ \A a \in Active, s \in Done :
                LET cycle == calculate_cycle_time_custom(t, a, s)
                IN  i \in DOMAIN cycle => cycle[i].end >= finish(i)
        /\ \A w \in 0 .. Week(now) :
            /\ calculate_generic_throughput(t, w) =
                    Cardinality({i \in finished : Week(finish(i)) = w})
            /\ calculate_generic_throughput(t, w) =
                    SumFunction([i \in DOMAIN jira |-> calculate_weekly_throughput(t, i, w)])
            /\ calculate_generic_throughput(t, w) <= calculate_input_flow_weekly(t, Done, w)
            /\ calculate_input_flow_weekly(t, Done, w) <=
                    SumFunction([s \in Done |-> calculate_cancellation_rate_weekly(t, {s}, w)])
        /\ \A d \in 0 .. Day(now) :
            DoneBy(t, DOMAIN jira, Done, d) = {i \in finished : Day(finish(i)) <= d}
        /\ scope_sp(t, DOMAIN jira, Day(now)) = done_sp(t, DOMAIN jira, Done, Day(now)) <=>
                \A i \in DOMAIN jira \ finished : Points(t, i) = 0

\* The active and the wait time of a finished issue are the ticks it spent in such statuses
\* from its first change to its first completion (flow_efficiency.py).
FlowTimesAreTrue ==
    LET flow == calculate_flow_efficiency_per_issue(tables, Active, Wait, Done)
        ticks(i, S) == {k \in Min(Came(i, Statuses)) .. (Min(Came(i, Done)) - 1) :
                            StatusAt(i, k) \in S}
    IN  \A i \in DOMAIN flow :
            /\ flow[i].active = Cardinality(ticks(i, Active))
            /\ flow[i].wait = Cardinality(ticks(i, Wait))

\* An epic is delivered when all its issues are done, and took from the first start of one
\* to the last completion; so it is unless an issue was reopened: that issue counts as done
\* (cycle_time_ext.py).
EpicIsDeliveredWhenAllAreDone ==
    LET epics == calculate_epic_delivery_time(tables, ByName)
        started == UNION {Came(i, ByName.start) : i \in DOMAIN jira}
        finished == UNION {Came(i, ByName.end) : i \in DOMAIN jira}
    IN  (\A i \in DOMAIN jira : ~Reopened(i)) =>
            IF (\A i \in DOMAIN jira : IsDone(jira[i].status)) /\ started # {}
            THEN epics = [e \in {"epic"} |-> Span(Min(started), Max(finished))]
            ELSE epics = <<>>

\* The blocked time of an issue that was not created blocked is the time the field had the
\* blocked value (aging.py).
BlockedTimeIsTrue ==
    LET t == tables
    IN  \A i \in DOMAIN jira : \A v \in Estimates :
        PointsAt(i, jira[i].created) # v =>
            calculate_blocked_time(t, i, {v}) =
                Cardinality({k \in Life(i) \ {now} : PointsAt(i, k) = v})

-----------------------------------------------------------------------------
Start0 == world.sprint.start
End0 == world.sprint.end
Window == (Start0 + 1) .. End0

Closed == now > End0

Committed == {i \in DOMAIN jira : PlannedAt(i, Start0)}

\* Created or planned at the very tick the sprint starts: too close to tell.
AtTheStart(i) == jira[i].created = Start0 \/ \E m \in jira[i].moves : m.at = Start0

\* Planned after the start, and taken out again.
PassedThrough(i) ==
    i \notin Committed /\ \E j, k \in Window : j < k /\ PlannedAt(i, j) /\ ~PlannedAt(i, k)

\* Planned or taken out when the sprint was over: velocity.py does not read those events, and
\* so takes an issue with a row in sprint_issues for one that was always in the sprint.
Retroactive(i) == jira[i].created > End0 \/ \E m \in jira[i].moves : m.at > End0

\* Created in the sprint, and taken out later: the creation has left no event in the history.
CreationForgotten(i) == PlannedAt(i, jira[i].created) /\ jira[i].moves # {}

\* The commitment is what was in the sprint when it started, whatever became of it later;
\* only issues that were planned after the start and taken out again are taken for
\* committed as well (velocity.py: an issue that is removed is inferred to have been there).
CommitmentIsTheSprintAtStart ==
    LET commitment == Commitment(tables)
    IN  now > Start0 => \A i \in DOMAIN jira :
            ~AtTheStart(i) /\ ~PassedThrough(i) /\ ~Retroactive(i) => (i \in commitment <=> i \in Committed)

\* When the sprint is closed, the completed issues are those that were in it and done at its
\* end and came to done during it; what happens to them later changes nothing (velocity.py).
\* Those without an estimate are those that never had one.
CompletedIsWhatTheSprintFinished ==
    LET t == tables
        completed == {i \in DOMAIN jira :
            /\ PlannedAt(i, End0) /\ IsDone(StatusAt(i, End0))
            /\ Came(i, Done) \cap Window # {}}
    IN  Closed /\ (\A i \in DOMAIN jira : ~Retroactive(i)) =>
                  /\ Completed(t) = completed
                  /\ calculate_velocity_facts(t).completed_issues = Cardinality(completed)
                  /\ calculate_unestimated_closed(t, Done) =
                        {i \in completed : \A k \in Life(i) : PointsAt(i, k) = Nothing}

\* The planned points of a committed issue are those it had when the sprint started, however
\* it was estimated later; so it is if it had an estimate then (velocity.py takes a later
\* one if not). The volatility of an issue that was created with an estimate is the distance
\* between that one and its last (estimation.py).
PlannedPointsAreThoseAtStart ==
    LET t == tables
        first(i) == PointsAt(i, jira[i].created)
        last(i) == PointsAt(i, Max({k \in Life(i) : PointsAt(i, k) # Nothing}))
    IN  /\ now > Start0 => \A i \in Committed :
            PointsAt(i, Start0) # Nothing => PlannedPoints(t, i) = PointsAt(i, Start0)
        /\ \A i \in DOMAIN jira : first(i) # Nothing =>
            calculate_estimate_volatility(t, i) \in {last(i) - first(i), first(i) - last(i)} \cap Nat

Counted(t, d) ==
    LET changes == calculate_sprint_scope_changes(t, d)
    IN  changes.added_count - changes.removed_count

\* What the sprint had at its start, the daily additions and removals, and what it had at its
\* end balance, unless an issue came or went more than once (velocity.py, sprint_health.py).
ScopeChangesBalance ==
    LET t == tables
    IN  Closed /\ (\A i \in DOMAIN jira :
                    /\ ~AtTheStart(i) /\ ~PassedThrough(i) /\ ~Retroactive(i)
                    /\ Cardinality({m \in jira[i].moves : m.at \in Window}) <= 2)
        => Cardinality(FinalScope(t)) = Cardinality(Commitment(t)) +
                SumFunction([d \in Day(Start0) .. Day(End0) |-> Counted(t, d)])

\* What remains on a day of the sprint is what was in it and not done when the day ended, in
\* the points of now, unless an issue was created in the sprint and moved out of it
\* (sprint_health.py).
BurndownIsTrue ==
    LET t == tables
        remaining(d) == {i \in DOMAIN At(Close(d)) :
                            PlannedAt(i, Close(d)) /\ ~IsDone(StatusAt(i, Close(d)))}
    IN  (\A i \in DOMAIN jira : ~CreationForgotten(i)) =>
            \A d \in Day(Start0) .. Min({Day(End0), Day(now)}) :
                calculate_sprint_burndown(t, Done, d) = SumFunction(
                    [i \in {i \in remaining(d) : t.issues[i].points # Nothing} |->
                        t.issues[i].points])

\* An issue counts as activated if it was committed and left the initial status during the
\* sprint, also when the clean layer does not know that status (sprint_health.py).
ActivatedHaveLeftTheInitialStatus ==
    LET t == tables
    IN  Closed =>
        /\ Activated(t, {Initial}, Day(End0)) =
            {i \in identify_sprint_commitment(t, t.sprint_issues_changelog) :
                Left(i, {Initial}) \cap (Start0 .. End0) # {}}
        /\ \A d \in Day(Start0) .. Day(End0) :
            calculate_activation_velocity(t, {Initial}, d)
                <= calculate_activation_velocity(t, {Initial}, Day(End0))

\* The velocity of the slices by type adds up to the velocity of the sprint, although each
\* slice is calculated from its own issues and their changes only (velocity.py,
\* slicing_utils.py).
SlicesAddUp ==
    LET facts == calculate_velocity_facts(tables)
        slices == apply_slicing(tables)
    IN  \A fact \in DOMAIN facts :
            facts[fact] = SumFunction([v \in DOMAIN slices |-> slices[v][fact]])

\* The backward moves, the entries into a status and the changes of a field that are counted
\* for the sprint are those during it, of issues that were ever in it, and so is the share of
\* a value among them (quality.py, flow_dynamics.py, sprint_health.py).
SprintCountsAreTrue ==
    LET t == tables
        ever == {i \in DOMAIN jira : \E k \in Life(i) : PlannedAt(i, k)}
        moves == UNION {{<<i, k>> : k \in Came(i, Statuses) \cap Window} : i \in ever}
        back(m) == Position(t, StatusAt(m[1], m[2])) < Position(t, StatusAt(m[1], m[2] - 1))
    IN  /\ calculate_backflow_rate(t).backward = Cardinality({m \in moves : back(m)})
        /\ \A s \in Statuses : \A d \in 0 .. Day(now) :
            calculate_daily_status_entry(t, s, d) = Cardinality(
                {m \in moves : StatusAt(m[1], m[2]) = s /\ Day(m[2]) = d})
        /\ calculate_field_change_count(t) = Cardinality(
            UNION {{<<i, k>> : k \in {k \in After(i) \cap Window :
                        PointsAt(i, k) # PointsAt(i, k - 1)}} : i \in ever})
        /\ \A v \in Estimates : calculate_field_value_sprint_pct(t, v) =
            [match |-> Cardinality({i \in ever : KeptPoints(jira[i]) = v}),
             total |-> Cardinality(ever)]
=============================================================================
