------------------------------ MODULE Calculations ------------------------------
(****************************************************************************)
(* What the calculations share: times, and the commitment rules             *)
(* (pipelines/calculations/commitment_resolver.py).                         *)
(*                                                                          *)
(* A calculation is a function of the clean tables `t` it is given:         *)
(*   issues                 issue -> [created, resolved, status, parent,    *)
(*                          type, points]                                   *)
(*   status_changelog       [issue, from, to, at]                           *)
(*   sprint_issues          the issues with a row for the sprint            *)
(*   sprint_issues_changelog  [issue, of, at, action]                       *)
(*   points_changelog       [issue, old, new, at]: one field's changes      *)
(*   columns                [id, position, name, status]: the board         *)
(*   category               status -> "to_do", "in_progress" or "done"      *)
(*   sprint                 [start, end]                                    *)
(*   now                                                                    *)
(* A time is a number of ticks, PerDay of them to a day; the changes of one *)
(* issue in one table have different times.                                 *)
(****************************************************************************)
EXTENDS Integers, FiniteSets, Sequences, SequencesExt

CONSTANTS Nothing,      \* NULL
          PerDay,       \* ticks in a day
          DaysPerWeek

ASSUME CalendarAssumption == PerDay \in Nat \ {0} /\ DaysPerWeek \in Nat \ {0}

Day(at) == at \div PerDay
Week(at) == Day(at) \div DaysPerWeek

\* Whole days, rounded up.
DaysBetween(from, to) == (to - from + PerDay - 1) \div PerDay

EarliestOf(times) == IF times = {} THEN Nothing ELSE Min(times)
LatestOf(times) == IF times = {} THEN Nothing ELSE Max(times)
Coalesce(a, b) == IF a = Nothing THEN b ELSE a

Times(changes) == {c.at : c \in changes}
FirstChange(changes) == CHOOSE c \in changes : \A d \in changes : c.at <= d.at
LastChange(changes) == CHOOSE c \in changes : \A d \in changes : d.at <= c.at

ChangesOf(t, i) == {c \in t.status_changelog : c.issue = i}

\* The changes of an issue that enter a set of statuses, and those that leave it.
Entries(t, i, S) == {c \in ChangesOf(t, i) : c.to \in S}
Exits(t, i, S) == {c \in ChangesOf(t, i) : c.from \in S /\ c.to \notin S}

-----------------------------------------------------------------------------
\* Commitment rules: [project, board, start, end]; project and board may be NULL.
Applicable(rules, project, board) ==
    {r \in rules : r.project \in {Nothing, project} /\ r.board \in {Nothing, board}}

Score(r) ==
    (IF r.project # Nothing THEN 2 ELSE 0) + (IF r.board # Nothing THEN 1 ELSE 0)

resolve_rule_from_cache(rules, project, board) ==
    LET found == Applicable(rules, project, board)
    IN  IF found = {} THEN Nothing ELSE CHOOSE r \in found : \A s \in found : Score(s) <= Score(r)

\* ORDER BY project_id NULLS LAST, board_id NULLS LAST LIMIT 1.
NoLater(r, s) ==
    \/ r.project # Nothing /\ s.project = Nothing
    \/ r.project = s.project /\ (r.board # Nothing \/ s.board = Nothing)

resolve_commitment_columns(rules, columns, project, board) ==
    LET found == {r \in Applicable(rules, project, board) :
                    {r.start, r.end} \subseteq {c.id : c \in columns}}
    IN  IF found = {} THEN Nothing ELSE CHOOSE r \in found : \A s \in found : NoLater(r, s)

StatusesOf(columns) == {c.status : c \in columns} \ {Nothing}

Between(columns, start, end) ==
    StatusesOf({c \in columns : start <= c.position /\ c.position < end})

\* The statuses of the start column and of the end column, and those from the one up to
\* the other. A column that is not on the board stands at 0, or at 999.
identify_commitment_points_from_rule(rule, columns) ==
    LET position(id) == (CHOOSE c \in columns : c.id = id).position
        start == IF \E c \in columns : c.id = rule.start THEN position(rule.start) ELSE 0
        end == IF \E c \in columns : c.id = rule.end THEN position(rule.end) ELSE 999
    IN  [start |-> StatusesOf({c \in columns : c.id = rule.start}),
         middle |-> Between(columns, start, end),
         end |-> StatusesOf({c \in columns : c.id = rule.end})]

\* By the names of the columns: the first that tells progress and the first that tells done.
identify_commitment_points_heuristic(columns) ==
    LET first(name) == EarliestOf({c.position : c \in {c \in columns : c.name = name}})
        at(position) == StatusesOf({c \in columns : c.position = position})
        start == Coalesce(first("progress"), 0)
        found == /\ first("progress") # Nothing /\ at(start) # {}
                 /\ first("done") # Nothing /\ at(first("done")) # {}
                 /\ start < first("done")
    IN  [start |-> IF first("progress") = Nothing THEN {} ELSE at(start),
         middle |-> IF found THEN Between(columns, start, first("done")) ELSE {},
         end |-> at(first("done"))]

\* The rule for the board if there is one (the cache, then the query), else the names.
CommitmentPoints(rules, columns, project, board) ==
    LET cached == resolve_rule_from_cache(rules, project, board)
        rule == Coalesce(cached, resolve_commitment_columns(rules, columns, project, board))
    IN  IF rule # Nothing THEN identify_commitment_points_from_rule(rule, columns)
        ELSE identify_commitment_points_heuristic(columns)

\* The rightmost column, or else those whose names tell done.
get_done_column_ids(columns) ==
    LET rightmost == {c \in columns : \A d \in columns : d.position <= c.position}
    IN  IF StatusesOf(rightmost) # {} THEN StatusesOf(rightmost)
        ELSE StatusesOf({c \in columns : c.name = "done"})
=============================================================================
