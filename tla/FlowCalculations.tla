---------------------------- MODULE FlowCalculations ----------------------------
(****************************************************************************)
(* The calculations about the flow of issues through the statuses           *)
(* (pipelines/calculations). What they return per issue is a function from  *)
(* the issues they return a row for; what they return per day or week is an *)
(* operator on the day or week. Averages, percentiles, rounding and the     *)
(* columns that are only passed on are left out.                            *)
(****************************************************************************)
EXTENDS Calculations

Issues(t) == DOMAIN t.issues

-----------------------------------------------------------------------------
\* lead_time.py: the last time the issue left the end statuses, the first entry after it,
\* and the first entry into the middle statuses between the two.
LastLeft(t, i, end) == LatestOf(Times(Exits(t, i, end)))

CommitmentEnd(t, i, end) ==
    LET left == LastLeft(t, i, end)
        entries == {at \in Times(Entries(t, i, end)) : left # Nothing => at > left}
    IN  Coalesce(EarliestOf(entries), t.issues[i].resolved)

CommitmentStart(t, i, middle, end) ==
    LET left == LastLeft(t, i, end)
    IN  EarliestOf({at \in Times(Entries(t, i, middle)) :
            at <= CommitmentEnd(t, i, end) /\ (left # Nothing => at >= left)})

Span(start, end) == [start |-> start, end |-> end, days |-> DaysBetween(start, end)]

\* Mutant: from the first entries, as if nothing had ever been reopened.
FirstEntries(t, points) ==
    LET start(i) == EarliestOf(Times(Entries(t, i, points.middle)))
        end(i) == EarliestOf(Times(Entries(t, i, points.end)))
    IN  [i \in {i \in Issues(t) : start(i) # Nothing /\ end(i) # Nothing /\ start(i) <= end(i)} |->
            Span(start(i), end(i))]

calculate_lead_time_per_issue(t, points) ==
    LET start(i) == CommitmentStart(t, i, points.middle, points.end)
        end(i) == CommitmentEnd(t, i, points.end)
    IN  IF points.middle = {} \/ points.end = {} THEN <<>>
        ELSE [i \in {i \in Issues(t) : end(i) # Nothing /\ start(i) # Nothing} |->
                Span(start(i), end(i))]

-----------------------------------------------------------------------------
\* aging.py.
\* Mutant: the first entry ever.
InProgressSinceEver(t, i, points) == EarliestOf(Times(Entries(t, i, points.middle)))

InProgressSince(t, i, points) ==
    LET left == LastLeft(t, i, points.end)
    IN  EarliestOf({at \in Times(Entries(t, i, points.middle)) : left # Nothing => at > left})

\* The issues that are not done: since when they are in progress, or else exist, and since
\* when they are in their status. The rules of commitment are not asked.
calculate_work_item_aging_facts(t) ==
    LET points == identify_commitment_points_heuristic(t.columns)
        active == {i \in Issues(t) : t.category[t.issues[i].status] # "done"}
    IN  [i \in active |->
            [start |-> Coalesce(InProgressSince(t, i, points), t.issues[i].created),
             inStatus |-> Coalesce(LatestOf(Times(ChangesOf(t, i))), t.issues[i].created)]]

\* Mutant: an issue that is still blocked is not counted.
BlockedAndReleased(t, i, blocked) ==
    LET changes == {c \in t.points_changelog : c.issue = i}
        begins == {c.at : c \in {c \in changes : c.new \in blocked /\ c.old \notin blocked}}
        ends == {c.at : c \in {c \in changes : c.new \notin blocked /\ c.old \in blocked}}
        until(b) == Coalesce(EarliestOf({e \in ends : e > b}), b)
    IN  SumFunction([b \in begins |-> until(b) - b])

\* calculate_blocked_time: pairs a change to the blocked value with the change away from it.
calculate_blocked_time(t, i, blocked) ==
    LET changes == {c \in t.points_changelog : c.issue = i}
        begins == {c.at : c \in {c \in changes : c.new \in blocked /\ c.old \notin blocked}}
        ends == {c.at : c \in {c \in changes : c.new \notin blocked /\ c.old \in blocked}}
        until(b) == Coalesce(EarliestOf({e \in ends : e > b}), t.now)
    IN  SumFunction([b \in begins |-> until(b) - b])

-----------------------------------------------------------------------------
\* cumulative_flow.py. The days of the diagram are From(t) .. Day(t.now).
From(t) == Day(t.now) - t.daysBack

\* Mutant: changes of the day itself do not count.
StatusTheDayBefore(t, i, d) ==
    LET before == {c \in ChangesOf(t, i) : Day(c.at) < d}
    IN  IF ChangesOf(t, i) = {} THEN t.issues[i].status
        ELSE IF before = {} THEN Nothing
        ELSE LastChange(before).to

\* Issues without changes keep their status; an issue all of whose changes come later has
\* no row for the day.
status_on_date(t, i, d) ==
    LET before == {c \in ChangesOf(t, i) : Day(c.at) <= d}
    IN  IF ChangesOf(t, i) = {} THEN t.issues[i].status
        ELSE IF before = {} THEN Nothing
        ELSE LastChange(before).to

BoardDone(t) == {c.status : c \in {c \in t.columns :
                    c.status \in DOMAIN t.category /\ t.category[c.status] = "done"}}

\* The day of the first change to a done status, or else, if it is done, of the creation.
FirstDone(t, i) ==
    LET first == EarliestOf(Times(Entries(t, i, BoardDone(t))))
    IN  IF first # Nothing THEN Day(first)
        ELSE IF t.issues[i].status \in BoardDone(t) THEN Day(t.issues[i].created) ELSE Nothing

\* What counts on day d in a column. The done columns count what was done since From(t).
InColumn(t, d, id) ==
    LET statuses == StatusesOf({c \in t.columns : c.id = id}) \cap DOMAIN t.category
    IN  {i \in {i \in Issues(t) : Day(t.issues[i].created) <= d} :
            /\ status_on_date(t, i, d) \in statuses
            /\ status_on_date(t, i, d) \in BoardDone(t) =>
                    FirstDone(t, i) # Nothing /\ FirstDone(t, i) >= From(t)}

calculate_cumulative_flow_diagram(t, d, id) == Cardinality(InColumn(t, d, id))

-----------------------------------------------------------------------------
\* backlog_growth.py.
CreatedOn(t, d) == {i \in Issues(t) : Day(t.issues[i].created) = d}

ResolvedOn(t, d) ==
    {i \in Issues(t) : t.issues[i].resolved # Nothing /\ Day(t.issues[i].resolved) = d}

created_daily(t, d) == Cardinality(CreatedOn(t, d))
closed_daily(t, d) == Cardinality(ResolvedOn(t, d))

\* The cumulative sum of created less resolved.
total_backlog_size(t, d) ==
    SumFunction([e \in 0 .. d |-> created_daily(t, e) - closed_daily(t, e)])

Category(t, status) ==
    IF status \in DOMAIN t.category THEN t.category[status] ELSE Nothing

\* The changes back from done, and those whose old status is not known.
entered_backlog_count(t, d) ==
    Cardinality({c \in t.status_changelog : Day(c.at) = d
        /\ \/ Category(t, c.from) = "done" /\ Category(t, c.to) # "done"
           \/ Category(t, c.from) = Nothing})

\* Mutant: moves from one done status to another count again.
EveryMoveToDone(t, d) ==
    Cardinality({c \in t.status_changelog : Day(c.at) = d
        /\ Category(t, c.from) # Nothing /\ Category(t, c.to) = "done"})

exited_backlog_count(t, d) ==
    Cardinality({c \in t.status_changelog : Day(c.at) = d
        /\ Category(t, c.from) \notin {"done", Nothing} /\ Category(t, c.to) = "done"})

-----------------------------------------------------------------------------
\* Mutant: with the last entry.
LastCompletion(t, i) ==
    Coalesce(LatestOf(Times(Entries(t, i, get_done_column_ids(t.columns)))),
             t.issues[i].resolved)

\* throughput.py: completed with the first entry to done, or else when resolved.
completion_date(t, i) ==
    Coalesce(EarliestOf(Times(Entries(t, i, get_done_column_ids(t.columns)))),
             t.issues[i].resolved)

CompletedIn(t, week) == {i \in Issues(t) : completion_date(t, i) # Nothing
                                           /\ Week(completion_date(t, i)) = week}

calculate_generic_throughput(t, week) == Cardinality(CompletedIn(t, week))

calculate_weekly_throughput(t, type, week) ==
    Cardinality({i \in CompletedIn(t, week) : t.issues[i].type = type})

-----------------------------------------------------------------------------
\* flow_efficiency.py: the first completion.
Completion(t, i, end) == EarliestOf(Times(Entries(t, i, end)))

\* When the stay ends that change c begins.
NextChange(t, c) == EarliestOf({at \in Times(ChangesOf(t, c.issue)) : at > c.at})

\* Mutant: stays are not cut off at the completion.
TimeInEver(t, i, S, end) ==
    LET stays == {c \in ChangesOf(t, i) : c.to \in S}
    IN  SumFunction([c \in stays |-> Coalesce(NextChange(t, c), Completion(t, i, end)) - c.at])

\* Ticks spent in S up to the first completion. The stay before the first change is none.
TimeIn(t, i, S, end) ==
    LET done == Completion(t, i, end)
        stays == {c \in ChangesOf(t, i) : c.to \in S /\ c.at < done}
    IN  SumFunction([c \in stays |-> Min({done, Coalesce(NextChange(t, c), done)}) - c.at])

\* Only issues with a change before the completion have a row.
calculate_flow_efficiency_per_issue(t, active, wait, end) ==
    [i \in {i \in Issues(t) : /\ Completion(t, i, end) # Nothing
                              /\ \E c \in ChangesOf(t, i) : c.at < Completion(t, i, end)} |->
        [active |-> TimeIn(t, i, active, end), wait |-> TimeIn(t, i, wait, end),
         end |-> Completion(t, i, end)]]

-----------------------------------------------------------------------------
\* cycle_time_ext.py.
calculate_issue_lifetime(t, done) ==
    LET end(i) == EarliestOf(Times(Entries(t, i, done)))
    IN  [i \in {i \in Issues(t) : end(i) # Nothing} |-> Span(t.issues[i].created, end(i))]

\* From the first entry into one status to the first entry after it into another.
calculate_cycle_time_custom(t, from, to) ==
    LET start(i) == EarliestOf(Times(Entries(t, i, {from})))
        end(i) == EarliestOf({at \in Times(Entries(t, i, {to})) : at > start(i)})
    IN  [i \in {i \in Issues(t) : start(i) # Nothing /\ end(i) # Nothing} |->
            Span(start(i), end(i))]

Children(t, epic) == {i \in Issues(t) : t.issues[i].parent = epic}

Started(t, i, points) == EarliestOf(Times(Entries(t, i, points.start)))
Finished(t, i, points) == LatestOf(Times(Entries(t, i, points.end)))

Epics(t) == {t.issues[i].parent : i \in Issues(t)} \ {Nothing}

EpicSpan(t, points, epics) ==
    LET start(e) == Min({Started(t, i, points) : i \in Children(t, e)} \ {Nothing})
        end(e) == Max({Finished(t, i, points) : i \in Children(t, e)} \ {Nothing})
    IN  [e \in {e \in epics : \E i \in Children(t, e) : Started(t, i, points) # Nothing} |->
            Span(start(e), end(e))]

\* Mutant: some child is done.
SomeChildDone(t, points) ==
    EpicSpan(t, points, {e \in Epics(t) : \E i \in Children(t, e) : Finished(t, i, points) # Nothing})

\* From the first start of a child to the last done, once all children have been done.
calculate_epic_delivery_time(t, points) ==
    LET spans == EpicSpan(t, points, {e \in Epics(t) : \A i \in Children(t, e) :
                                          Finished(t, i, points) # Nothing})
    IN  [e \in {e \in DOMAIN spans : spans[e].days >= 0} |-> spans[e]]

-----------------------------------------------------------------------------
\* delivery.py: the points of a release by day, of what was created and of what was first
\* done by then.
Points(t, i) == IF t.issues[i].points = Nothing THEN 0 ELSE t.issues[i].points

SumOfPoints(t, ids) == SumFunction([i \in ids |-> Points(t, i)])

scope_sp(t, ids, d) == SumOfPoints(t, {i \in ids : Day(t.issues[i].created) <= d})

DoneBy(t, ids, done, d) ==
    {i \in ids : \E at \in Times(Entries(t, i, done)) : Day(at) <= d}

done_sp(t, ids, done, d) == SumOfPoints(t, DoneBy(t, ids, done, d))

-----------------------------------------------------------------------------
\* input_flow.py and waste.py: the issues that enter the statuses in a week.
Entering(t, S, week) == {i \in Issues(t) : \E at \in Times(Entries(t, i, S)) : Week(at) = week}

calculate_input_flow_weekly(t, start, week) == Cardinality(Entering(t, start, week))

calculate_cancellation_rate_weekly(t, cancelled, week) == Cardinality(Entering(t, cancelled, week))

-----------------------------------------------------------------------------
\* estimation.py: the distance of the estimate from the one before the first change.
calculate_estimate_volatility(t, i) ==
    LET changes == {c \in t.points_changelog : c.issue = i}
        final == t.issues[i].points
        initial == Coalesce(IF changes = {} THEN Nothing ELSE FirstChange(changes).old, final)
        distance == Coalesce(final, 0) - Coalesce(initial, 0)
    IN  IF distance < 0 THEN -distance ELSE distance
=============================================================================
