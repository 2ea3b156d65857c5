--------------------------- MODULE SprintCalculations ---------------------------
(****************************************************************************)
(* The calculations about sprints (pipelines/calculations/velocity.py,      *)
(* sprint_health.py, quality.py, flow_dynamics.py), for one sprint that has *)
(* started. Sub-tasks are left out of all of them and of the model.         *)
(****************************************************************************)
EXTENDS Calculations

\* complete_date, or else end_date.
End(t) == t.sprint.end
Start(t) == t.sprint.start

InSprint(t, at) == Start(t) < at /\ at <= End(t)

EventsOf(events, i) == {e \in events : e.issue = i}
InScopeAfter(events) == events # {} /\ \A e \in events :
    (\A f \in events : f.at <= e.at) => e.action = "added"

\* The changes of the sprint that the velocity asset reads: none after the sprint closed.
VelocityEvents(t) == {e \in t.sprint_issues_changelog : e.at <= End(t)}

\* Rows of sprint_issues, and those without any event.
Members(t) == t.sprint_issues \cap DOMAIN t.issues
Unlogged(t, events) == {i \in Members(t) : EventsOf(events, i) = {}}

\* Events of the issues a calculation is given.
Known(t, events) == {e \in events : e.issue \in DOMAIN t.issues}

-----------------------------------------------------------------------------
\* velocity.py.

\* The statuses of the rightmost column, or else those of done columns, or else those of
\* the category.
get_done_status_ids(t) ==
    LET ids == get_done_column_ids(t.columns)
    IN  IF ids # {} THEN ids ELSE {s \in DOMAIN t.category : t.category[s] = "done"}

identify_sprint_final_scope(t, events) ==
    {e.issue : e \in {e \in Known(t, events) : InScopeAfter(EventsOf(events, e.issue))}}
    \cup Unlogged(t, events)

\* In the sprint when it started, by the log.
AtCutoff(t, events) ==
    {e.issue : e \in {e \in Known(t, events) :
        InScopeAfter({f \in EventsOf(events, e.issue) : f.at <= Start(t)})}}

OlderThanSprint(t, ids) == {i \in ids : t.issues[i].created < Start(t)}

\* Removed in the sprint: inferred to have been in it at the start.
Ghosts(t, events) ==
    OlderThanSprint(t, {e.issue : e \in
        {e \in Known(t, events) : e.action = "removed" /\ e.at >= Start(t)}})

\* Mutant: only what the log says of the start.
CommitmentByLog(t, events) ==
    AtCutoff(t, events) \cup OlderThanSprint(t, Unlogged(t, events))

identify_sprint_commitment(t, events) ==
    IF events = {} THEN Members(t)
    ELSE AtCutoff(t, events) \cup OlderThanSprint(t, Unlogged(t, events)) \cup Ghosts(t, events)

PointChanges(t, i) == {c \in t.points_changelog : c.issue = i}

\* Mutant: the value after the next change.
PointsAfter(t, i, at) ==
    LET after == {c \in PointChanges(t, i) : c.at > at}
        before == {c \in PointChanges(t, i) : c.at <= at}
    IN  Coalesce(IF after = {} THEN Nothing ELSE FirstChange(after).new,
                 Coalesce(IF before = {} THEN Nothing ELSE LastChange(before).new,
                          Coalesce(t.issues[i].points, 0)))

\* The old value of the next change, the new value of the last one, or the value now,
\* whichever is the first to be a number.
determine_story_points_at_date(t, i, at) ==
    LET after == {c \in PointChanges(t, i) : c.at > at}
        before == {c \in PointChanges(t, i) : c.at <= at}
    IN  Coalesce(IF after = {} THEN Nothing ELSE FirstChange(after).old,
                 Coalesce(IF before = {} THEN Nothing ELSE LastChange(before).new,
                          Coalesce(t.issues[i].points, 0)))

\* The highest value the issue was ever given or had taken away.
historic_max_sp(t, i) ==
    LET values == (UNION {{c.old, c.new} : c \in PointChanges(t, i)}) \ {Nothing, 0}
    IN  IF values = {} THEN 0 ELSE Max(values)

PositiveOr(points, fallback) == IF points > 0 THEN points ELSE fallback

PlannedPoints(t, i) ==
    PositiveOr(determine_story_points_at_date(t, i, Start(t)), historic_max_sp(t, i))

\* Done when the sprint ended: by the last change before, by the first one after, or by the
\* status now.
DoneAtEnd(t, i, done) ==
    LET changes == ChangesOf(t, i)
        before == {c \in changes : c.at <= End(t)}
    IN  IF before # {} THEN LastChange(before).to \in done
        ELSE IF changes # {} THEN FirstChange(changes).from \in done
        ELSE t.issues[i].status \in done

DoneInSprint(t, i, done) ==
    \/ \E at \in Times(Entries(t, i, done)) : InSprint(t, at)
    \/ t.issues[i].resolved # Nothing /\ InSprint(t, t.issues[i].resolved)

\* Mutant: by the status now.
CompletedByNow(t, scope, done) ==
    {i \in scope : t.issues[i].status \in done /\ DoneInSprint(t, i, done)}

\* Without any history of statuses, by the status now and the resolution.
identify_completed_issues(t, scope, done) ==
    IF t.status_changelog = {} \/ done = {}
    THEN {i \in scope : /\ t.issues[i].status \in done
                        /\ t.issues[i].resolved # Nothing /\ InSprint(t, t.issues[i].resolved)}
    ELSE {i \in scope : DoneAtEnd(t, i, done) /\ DoneInSprint(t, i, done)}

Commitment(t) == identify_sprint_commitment(t, VelocityEvents(t))
FinalScope(t) == identify_sprint_final_scope(t, VelocityEvents(t))
Completed(t) == identify_completed_issues(t, FinalScope(t), get_done_status_ids(t))

CompletedPoints(t, i) ==
    LET planned == IF i \in Commitment(t) THEN PlannedPoints(t, i) ELSE 0
    IN  PositiveOr(determine_story_points_at_date(t, i, End(t)),
                   PositiveOr(planned, historic_max_sp(t, i)))

calculate_velocity_facts(t) ==
    [planned_issues |-> Cardinality(Commitment(t)),
     planned_story_points |-> SumFunction([i \in Commitment(t) |-> PlannedPoints(t, i)]),
     completed_issues |-> Cardinality(Completed(t)),
     completed_story_points |-> SumFunction([i \in Completed(t) |-> CompletedPoints(t, i)])]

\* Mutant: every slice is of all issues.
AllIssues(t, ids) == t

\* What a slice is given: some issues and their changes, but all changes of the sprint.
Sliced(t, ids) ==
    [t EXCEPT !.issues = [i \in ids |-> t.issues[i]],
              !.status_changelog = {c \in @ : c.issue \in ids},
              !.points_changelog = {c \in @ : c.issue \in ids}]

\* apply_slicing by the type of the issues (slicing_utils.py).
apply_slicing(t) ==
    [v \in {t.issues[i].type : i \in DOMAIN t.issues} |->
        calculate_velocity_facts(Sliced(t, {i \in DOMAIN t.issues : t.issues[i].type = v}))]

-----------------------------------------------------------------------------
\* sprint_health.py. These assets read the changes after the sprint as well.

\* Mutant: also before the sprint.
FirstEver(t, action) ==
    LET events == {e \in t.sprint_issues_changelog : e.action = action}
    IN  {e \in events : \A f \in EventsOf(events, e.issue) : e.at <= f.at}

\* The first addition, and the first removal, of each issue in the sprint.
FirstOf(t, action) ==
    LET events == {e \in t.sprint_issues_changelog : e.action = action /\ InSprint(t, e.at)}
    IN  {e \in events : \A f \in EventsOf(events, e.issue) : e.at <= f.at}

ScopeChangesOn(t, action, d) == {e \in FirstOf(t, action) : Day(e.at) = d}

\* The points of an issue at an event: an old value that is no number is 0 here.
determine_story_points_at_event_time(t, i, at) ==
    LET after == {c \in PointChanges(t, i) : c.at > at}
    IN  IF after = {} THEN Coalesce(t.issues[i].points, 0) ELSE Coalesce(FirstChange(after).old, 0)

calculate_sprint_scope_changes(t, d) ==
    LET points(events) == SumFunction(
            [e \in events |-> determine_story_points_at_event_time(t, e.issue, e.at)])
        added == ScopeChangesOn(t, "added", d)
        removed == ScopeChangesOn(t, "removed", d)
    IN  [added_count |-> Cardinality(added), added_sp |-> points(added),
         removed_count |-> Cardinality(removed), removed_sp |-> points(removed)]

\* scope(D): without any change of the sprint, the rows of sprint_issues.
BurndownScope(t, d) ==
    LET events == t.sprint_issues_changelog
        until(i) == {e \in EventsOf(events, i) : Day(e.at) <= d}
    IN  IF events = {} THEN Members(t)
        ELSE {i \in {e.issue : e \in Known(t, events)} : InScopeAfter(until(i))}

\* Mutant: done once, done for ever.
DoneOnce(t, i, done, d) == \E at \in Times(Entries(t, i, done)) : Day(at) <= d

\* done(D).
DoneOn(t, i, done, d) ==
    LET until == {c \in ChangesOf(t, i) : Day(c.at) <= d}
    IN  until # {} /\ LastChange(until).to \in done

\* remaining(D), in the points of now.
calculate_sprint_burndown(t, done, d) ==
    SumFunction([i \in {i \in BurndownScope(t, d) : ~DoneOn(t, i, done, d)} |->
                    Coalesce(t.issues[i].points, 0)])

\* Mutant: unknown statuses are not initial.
MovesFromKnownInitial(t, i, initial) ==
    {c \in ChangesOf(t, i) : Start(t) <= c.at /\ c.at <= End(t) /\ c.from \in initial}

\* The first change of a committed issue in the sprint out of an initial status, or out of
\* an unknown one.
MovesFromInitial(t, i, initial) ==
    {c \in ChangesOf(t, i) : /\ Start(t) <= c.at /\ c.at <= End(t)
                             /\ c.from \in initial \cup {Nothing}}

Activated(t, initial, d) ==
    {i \in identify_sprint_commitment(t, t.sprint_issues_changelog) \cap t.sprint_issues :
        LET moves == MovesFromInitial(t, i, initial)
        IN  moves # {} /\ Day(FirstChange(moves).at) <= d}

\* Without points planned it is 0 percent; more than 100 is 100.
calculate_activation_velocity(t, initial, d) ==
    LET planned == SumFunction([i \in identify_sprint_commitment(t, t.sprint_issues_changelog) |->
                        determine_story_points_at_date(t, i, Start(t))])
        activated == SumFunction([i \in Activated(t, initial, d) |->
                        determine_story_points_at_event_time(t, i,
                            FirstChange(MovesFromInitial(t, i, initial)).at)])
    IN  IF planned = 0 THEN 0 ELSE Min({100, (activated * 100) \div planned})

\* Completed without an estimate.
calculate_unestimated_closed(t, done) ==
    LET scope == identify_sprint_final_scope(t, t.sprint_issues_changelog)
    IN  {i \in identify_completed_issues(t, scope, done) : Coalesce(t.issues[i].points, 0) = 0}

\* The rows of the sprint with a value of the field, of all of them.
calculate_field_value_sprint_pct(t, value) ==
    [match |-> Cardinality({i \in t.sprint_issues : t.issues[i].points = value}),
     total |-> Cardinality(t.sprint_issues)]

-----------------------------------------------------------------------------
\* quality.py, flow_dynamics.py.
Position(t, status) == (CHOOSE c \in t.columns : c.status = status).position

\* Mutant: also those before and after the sprint.
ChangesOfMembers(t) == {c \in t.status_changelog : c.issue \in t.sprint_issues}

\* The changes in the sprint of issues with a row of sprint_issues.
ChangesInSprint(t) ==
    {c \in t.status_changelog : InSprint(t, c.at) /\ c.issue \in t.sprint_issues}

\* Those of which the board has both statuses.
OnBoard(t) == {c \in ChangesInSprint(t) : {c.from, c.to} \subseteq StatusesOf(t.columns)}

calculate_backflow_rate(t) ==
    [total |-> Cardinality(OnBoard(t)),
     backward |-> Cardinality({c \in OnBoard(t) : Position(t, c.to) < Position(t, c.from)})]

calculate_daily_status_entry(t, status, d) ==
    Cardinality({c \in ChangesInSprint(t) : c.to = status /\ Day(c.at) = d})

calculate_field_change_count(t) ==
    Cardinality({c \in t.points_changelog : InSprint(t, c.at) /\ c.issue \in t.sprint_issues})
=============================================================================
