------------------------------- MODULE CleanLayer -------------------------------
(****************************************************************************)
(* Runs of the clean layer while people work in Jira and loads bring what   *)
(* they did into the raw tables. A run executes the assets it has selected  *)
(* in any order its asset graph allows; an asset commits in one step, or in *)
(* two where the code commits twice; it may fail, and the process may die   *)
(* anywhere. The steps of two runs interleave. CleanTables has the          *)
(* statements. A behaviour takes place in one of the Worlds: what may be    *)
(* edited and which assets a run selects, so that tables that have nothing  *)
(* to do with each other are not interleaved.                               *)
(****************************************************************************)
EXTENDS CleanTables

CONSTANTS
    Worlds,    \* records of what MCCleanLayer!World has
    Sprints, Versions, Columns,
    StatusIds, \* natural numbers
    NameCount  \* names are 1..NameCount; the first are the names of the statuses

VARIABLES
    world,    \* the world of this behaviour
    jira,     \* Jira: issues, names of statuses and users, sprints, versions, columns
    touched,  \* issues changed since they were last loaded
    raw,      \* raw_jira
    tables,   \* clean_jira, and metrics.commitment_rules
    runs,     \* the runs started so far
    edits,    \* number of edits in Jira: its clock
    loads,    \* number of loads
    diffs     \* number of snapshots taken of the property logs: their clock

vars == <<world, jira, touched, raw, tables, runs, edits, loads, diffs>>

Names == 1 .. NameCount

\* The asset graph, transitively reduced to what a selection needs. field_keys,
\* field_values and their Sprint parts are one asset each with two commits.
Upstream ==
    [issue_types |-> {}, issue_statuses |-> {},
     issues |-> {"issue_types", "issue_statuses"},
     labels |-> {"issues"}, issue_labels |-> {"labels"},
     user_issue_roles |-> {"issues"}, issue_links |-> {"issues"},
     status_changelog |-> {"issues", "issue_statuses"},
     boards |-> {"issues"}, board_columns |-> {"boards"},
     column_statuses |-> {"board_columns", "issue_statuses"},
     sprints |-> {"issues"}, sprint_issues |-> {"sprints"},
     sprint_issues_changelog |-> {"sprint_issues"}, sprint_changelog |-> {"sprints"},
     releases |-> {"issues"}, release_issues |-> {"releases"},
     release_issues_changelog |-> {"release_issues"}, release_changelog |-> {"releases"},
     worklogs |-> {"issues"}, comments |-> {"issues"},
     field_keys |-> {"issues"}, sprint_field_key |-> {"field_keys"},
     field_values |-> {"sprint_field_key"}, sprint_values |-> {"field_values"},
     field_value_changelog |-> {"sprint_field_key"}]

\* A run that selects an asset selects what it reads from: jobs select whole groups with
\* their upstream assets. Boards, sprints and releases read raw tables only; of types and
\* statuses a world may have those it begins with.
Selectable(steps) ==
    /\ steps \subseteq DOMAIN Upstream
    /\ \A step \in steps \ {"boards", "sprints", "releases"} :
            Upstream[step] \ {"issue_types", "issue_statuses"} \subseteq steps
    /\ {"sprint_issues", "release_issues"} \cap steps # {} => "issues" \in steps

ASSUME CleanLayerAssumption ==
    /\ NameCount \in Nat /\ StatusIds \subseteq Names /\ StatusIds # {}
    /\ IsFiniteSet(Sprints)
    /\ Nothing \notin {"future", "active", "closed", "unreleased", "released"}
    /\ \A w \in Worlds : {w.maxEdits, w.maxLoads, w.maxRuns, w.maxFailures} \subseteq Nat
    /\ \A w \in Worlds : Selectable(w.steps)

\* The assets that read a log, compare and write in one statement.
Logs == {"sprint_changelog", "release_changelog"}

-----------------------------------------------------------------------------
NewRaw == [issues |-> <<>>, tables |-> world.tables, sprints |-> <<>>, versions |-> <<>>,
           columns |-> <<>>]

\* What a world does not synchronise is there already.
Before(step, rows) == IF step \in world.steps THEN <<>> ELSE rows

NewTables ==
    [issue_types |-> Before("issue_types", <<"Task">>),
     issue_statuses |-> Before("issue_statuses", [s \in StatusIds |-> s]),
     jira_users |-> <<>>, issues |-> <<>>, labels |-> {}, issue_labels |-> {},
     user_issue_roles |-> {}, issue_links |-> {}, worklogs |-> {}, comments |-> {},
     status_changelog |-> <<>>, boards |-> {}, board_columns |-> {},
     column_statuses |-> {}, rebuilds |-> 0, commitment_rules |-> {},
     sprints |-> <<>>, sprint_issues |-> <<>>, sprint_issues_changelog |-> {},
     sprint_changelog |-> {}, releases |-> <<>>, release_issues |-> <<>>,
     release_issues_changelog |-> {}, release_changelog |-> {},
     field_keys |-> {}, field_values |-> <<>>, field_value_changelog |-> {}]

\* One column holds all statuses until they are distributed otherwise.
Init ==
    /\ world \in Worlds
    /\ jira = [issues |-> <<>>,
               statusName |-> [s \in StatusIds |-> s],
               userName |-> "Ann",
               sprints |-> [s \in Sprints |-> "future"],
               versions |-> [v \in Versions |-> "unreleased"],
               columns |-> [c \in Columns |->
                            IF c = CHOOSE d \in Columns : TRUE THEN StatusIds ELSE {}]]
    /\ touched = {}
    /\ raw = NewRaw
    /\ tables = NewTables
    /\ runs = <<>>
    /\ edits = 0 /\ loads = 0 /\ diffs = 0

-----------------------------------------------------------------------------
\* People. Every edit of an issue leaves an item in its history.
Edit(kind) == /\ kind \in world.edits /\ edits < world.maxEdits
              /\ edits' = edits + 1
              /\ UNCHANGED <<world, raw, tables, runs, loads, diffs>>

Now == edits + 1

\* The first status of the workflow.
InitialStatus == CHOOSE s \in StatusIds : \A r \in StatusIds : s <= r

\* Sprint fields keep closed sprints and have at most one other.
Open(field, sprints) == {s \in field \cap DOMAIN sprints : sprints[s] # "closed"}

CreateIssue(i, sprint, version) ==
    /\ Edit("create")
    /\ i \in world.issues \ DOMAIN jira.issues
    /\ sprint \in {{}} \cup {{s} : s \in Open(Sprints, jira.sprints)}
    /\ sprint # {} => "plan" \in world.edits
    /\ version # {} => "fix" \in world.edits
    /\ jira' = [jira EXCEPT !.issues = Upserted(@, [j \in {i} |->
            [created |-> Now, type |-> <<1, "Task">>, status |-> InitialStatus, changes |-> {},
             sprints |-> sprint, moves |-> {}, versions |-> version, fixes |-> {},
             rows |-> {}, points |-> Nothing, pointChanges |-> {}, assigned |-> FALSE]])]
    /\ touched' = touched \cup {i}

Change(i, issue) == /\ i \in DOMAIN jira.issues
                    /\ jira' = [jira EXCEPT !.issues[i] = issue]
                    /\ touched' = touched \cup {i}

MoveIssue(i, status) ==
    LET old == jira.issues[i]
    IN  /\ Edit("move")
        /\ i \in DOMAIN jira.issues /\ status # old.status
        /\ Change(i, [old EXCEPT !.status = status,
                !.changes = @ \cup {[at |-> Now, from |-> old.status, to |-> status,
                                     name |-> jira.statusName[status]]}])

PlanIssue(i, sprint) ==
    LET old == jira.issues[i]
        new == (old.sprints \ Open(old.sprints, jira.sprints)) \cup sprint
    IN  /\ Edit("plan")
        /\ i \in DOMAIN jira.issues /\ new # old.sprints
        /\ sprint \in {{}} \cup {{s} : s \in Open(Sprints, jira.sprints)}
        /\ Change(i, [old EXCEPT !.sprints = new,
                !.moves = @ \cup {[at |-> Now, from |-> old.sprints, to |-> new]}])

FixIssue(i, version, action) ==
    LET old == jira.issues[i]
    IN  /\ Edit("fix")
        /\ i \in DOMAIN jira.issues
        /\ (action = "added") = (version \notin old.versions)
        /\ Change(i, [old EXCEPT
                !.versions = IF action = "added" THEN @ \cup {version} ELSE @ \ {version},
                !.fixes = @ \cup {[at |-> Now, version |-> version, action |-> action]}])

\* Labels, links, worklogs and comments come and go.
ToggleRow(i, kind) ==
    LET old == jira.issues[i]
    IN  /\ Edit("rows")
        /\ i \in DOMAIN jira.issues
        /\ Change(i, [old EXCEPT
                !.rows = IF kind \in @ THEN @ \ {kind} ELSE @ \cup {kind}])

EstimateIssue(i, points) ==
    LET old == jira.issues[i]
    IN  /\ Edit("points")
        /\ i \in DOMAIN jira.issues /\ points # old.points
        /\ Change(i, [old EXCEPT !.points = points,
                !.pointChanges = @ \cup {[at |-> Now, from |-> old.points, to |-> points]}])

AssignIssue(i) ==
    /\ Edit("assign")
    /\ i \in DOMAIN jira.issues /\ ~jira.issues[i].assigned
    /\ Change(i, [jira.issues[i] EXCEPT !.assigned = TRUE])

\* What has no issue: names, sprints, versions, the board. Issues are not touched.
RenameStatus(s, name) ==
    /\ Edit("rename")
    /\ \A r \in StatusIds : jira.statusName[r] # name
    /\ jira' = [jira EXCEPT !.statusName[s] = name]
    /\ UNCHANGED touched

RenameUser ==
    /\ Edit("rename")
    /\ jira.userName = "Ann"
    /\ jira' = [jira EXCEPT !.userName = "Anne"]
    /\ UNCHANGED touched

StartSprint(s) ==
    /\ Edit("sprint")
    /\ jira.sprints[s] = "future"
    /\ jira' = [jira EXCEPT !.sprints[s] = "active"]
    /\ UNCHANGED touched

CloseSprint(s) ==
    /\ Edit("sprint")
    /\ jira.sprints[s] = "active"
    /\ jira' = [jira EXCEPT !.sprints[s] = "closed"]
    /\ UNCHANGED touched

ReleaseVersion(v) ==
    /\ Edit("fix")
    /\ jira.versions[v] = "unreleased"
    /\ jira' = [jira EXCEPT !.versions[v] = "released"]
    /\ UNCHANGED touched

ConfigureColumn(c, s) ==
    /\ Edit("columns")
    /\ s \notin jira.columns[c]
    /\ jira' = [jira EXCEPT !.columns =
            [d \in Columns |-> IF d = c THEN @[d] \cup {s} ELSE @[d] \ {s}]]
    /\ UNCHANGED touched

\* An administrator. The unique index allows one rule for a board and a calculation.
RuleEdit == /\ "rules" \in world.edits /\ edits < world.maxEdits
            /\ edits' = edits + 1
            /\ UNCHANGED <<world, jira, touched, raw, runs, loads, diffs>>

SaveCommitmentRule(start, end) ==
    /\ RuleEdit
    /\ {start, end} \subseteq tables.board_columns
    /\ tables' = [tables EXCEPT !.commitment_rules = {[start |-> start, end |-> end]}]

DeleteCommitmentRule(rule) ==
    /\ RuleEdit
    /\ rule \in tables.commitment_rules
    /\ tables' = [tables EXCEPT !.commitment_rules = @ \ {rule}]

-----------------------------------------------------------------------------
\* Loads. An issue keeps in raw the names it was fetched with until it is fetched again.
Fetched(i) ==
    LET issue == jira.issues[i]
    IN  Upserted(issue,
            [statusName |-> jira.statusName[issue.status],
             assignee |-> IF issue.assigned THEN <<"ann", jira.userName>> ELSE Nothing])

\* The nested tables and columns an issue needs.
Nested(issue) ==
    (IF /\ issue.changes = {} /\ issue.moves = {}
        /\ issue.fixes = {} /\ issue.pointChanges = {}
     THEN {} ELSE {"items"})
    \cup (IF issue.sprints = {} THEN {} ELSE {"sprint"})
    \cup (IF issue.points = Nothing THEN {} ELSE {"points"})

Load == /\ loads < world.maxLoads
        /\ loads' = loads + 1
        /\ runs' = [r \in DOMAIN runs |-> [runs[r] EXCEPT !.stale = TRUE]]
        /\ UNCHANGED <<world, jira, tables, edits, diffs>>

LoadIssues ==
    /\ Load
    /\ touched # {} /\ touched' = {}
    /\ raw' = [raw EXCEPT
            !.issues = Upserted(@, [i \in touched |-> Fetched(i)]),
            !.tables = @ \cup UNION {Nested(jira.issues[i]) : i \in touched}]

\* Sprints, versions and board configurations are fetched whole.
LoadTables ==
    /\ Load
    /\ raw' = [raw EXCEPT !.sprints = jira.sprints, !.versions = jira.versions,
                          !.columns = jira.columns]
    /\ raw' # raw
    /\ UNCHANGED touched

-----------------------------------------------------------------------------
\* A run: the steps done and failed, whether a load has happened since it started, and
\* the rows it is about to write to a log. A failed step, or the death of its process,
\* leaves the steps after it undone.
Ready(r, step) ==
    /\ step \in world.steps \ (runs[r].done \cup runs[r].failed)
    /\ Upstream[step] \cap world.steps \subseteq runs[r].done

Ended(r) == \A step \in world.steps : ~Ready(r, step)

Complete(r) == runs[r].done = world.steps

\* Two slots.
StartRun ==
    /\ Len(runs) < world.maxRuns
    /\ Cardinality({r \in DOMAIN runs : ~Ended(r)}) < 2
    /\ runs' = Append(runs, [done |-> {}, failed |-> {}, stale |-> FALSE, diff |-> <<>>])
    /\ UNCHANGED <<world, jira, touched, raw, tables, edits, loads, diffs>>

\* What makes the statements of a step fail, whatever else may: a row hit twice, a name
\* taken, a table dlt has not created.
Executable(step) ==
    CASE step = "issue_types" -> CanUpsertNames(tables.issue_types, TypeRows(raw))
      [] step = "issue_statuses" -> CanUpsertNames(tables.issue_statuses, StatusRows(raw))
      [] step = "issues" -> ~RowTwice(UserRows(raw))
      [] step \in {"board_columns", "column_statuses"} -> raw.columns # <<>>
      [] step = "sprint_issues" -> "items" \in raw.tables => "sprint" \in raw.tables
      [] step = "sprint_issues_changelog" -> {"items", "sprint"} \subseteq raw.tables
      [] step \in {"release_issues", "release_issues_changelog"} ->
            tables.releases # <<>> => "items" \in raw.tables
      [] OTHER -> TRUE

Commit(r, step, result) ==
    /\ Ready(r, step) /\ Executable(step)
    /\ tables' = result
    /\ runs' = [runs EXCEPT ![r].done = @ \cup {step}]
    /\ UNCHANGED <<world, jira, touched, raw, edits, loads, diffs>>

\* What depends on a failed step is not executed. world.maxFailures bounds them for a run.
FailStep(r, step) ==
    /\ Ready(r, step) /\ Cardinality(runs[r].failed) < world.maxFailures
    /\ runs' = [runs EXCEPT ![r].failed = @ \cup {step}]
    /\ UNCHANGED <<world, jira, touched, raw, tables, edits, loads, diffs>>

\* INSERT ... SELECT takes its snapshot and commits later; nothing keeps another run from
\* doing the same meanwhile.
ReadLog(r, step, table) ==
    /\ Ready(r, step) /\ step \notin DOMAIN runs[r].diff
    /\ runs' = [runs EXCEPT ![r].diff =
            Upserted(@, [s \in {step} |-> SnapshotDiff(table, tables[step], diffs + 1)])]
    /\ diffs' = diffs + 1
    /\ UNCHANGED <<world, jira, touched, raw, tables, edits, loads>>

WriteLog(r, step) ==
    /\ step \in DOMAIN runs[r].diff
    /\ Commit(r, step, [tables EXCEPT ![step] = @ \cup runs[r].diff[step]])

People ==
    \/ \E i \in world.issues, p \in {{}} \cup {{x} : x \in Sprints},
          v \in {{}} \cup {{x} : x \in Versions} : CreateIssue(i, p, v)
    \/ \E i \in world.issues :
          \/ \E s \in StatusIds : MoveIssue(i, s)
          \/ \E p \in {{}} \cup {{x} : x \in Sprints} : PlanIssue(i, p)
          \/ \E v \in Versions, a \in {"added", "removed"} : FixIssue(i, v, a)
          \/ \E kind \in {"label", "link", "worklog", "comment"} : ToggleRow(i, kind)
          \/ \E points \in {Nothing, 3, 5} : EstimateIssue(i, points)
          \/ AssignIssue(i)
    \/ \E s \in StatusIds, n \in Names : RenameStatus(s, n)
    \/ RenameUser
    \/ \E s \in Sprints : StartSprint(s) \/ CloseSprint(s)
    \/ \E v \in Versions : ReleaseVersion(v)
    \/ \E c \in Columns, s \in StatusIds : ConfigureColumn(c, s)
    \/ \E a, b \in tables.board_columns : SaveCommitmentRule(a, b)
    \/ \E rule \in tables.commitment_rules : DeleteCommitmentRule(rule)

RunStep(r) ==
    \/ Commit(r, "issue_types", CleanIssueTypes(tables, raw))
    \/ Commit(r, "issue_statuses", CleanIssueStatuses(tables, raw))
    \/ Commit(r, "issues", CleanIssues(tables, raw))
    \/ Commit(r, "labels", CleanLabels(tables, raw))
    \/ Commit(r, "issue_labels", CleanIssueLabels(tables, raw))
    \/ Commit(r, "user_issue_roles", CleanUserIssueRoles(tables, raw))
    \/ Commit(r, "issue_links", CleanIssueLinks(tables, raw))
    \/ Commit(r, "status_changelog", CleanStatusChangelog(tables, raw))
    \/ Commit(r, "boards", CleanBoards(tables, raw))
    \/ Commit(r, "board_columns", CleanBoardColumns(tables, raw))
    \/ Commit(r, "column_statuses", CleanColumnStatuses(tables, raw))
    \/ Commit(r, "sprints", CleanSprints(tables, raw))
    \/ Commit(r, "sprint_issues", CleanSprintIssues(tables, raw))
    \/ Commit(r, "sprint_issues_changelog", CleanSprintIssuesChangelog(tables, raw))
    \/ ReadLog(r, "sprint_changelog", tables.sprints)
    \/ WriteLog(r, "sprint_changelog")
    \/ Commit(r, "releases", CleanReleases(tables, raw))
    \/ Commit(r, "release_issues", CleanReleaseIssues(tables, raw))
    \/ Commit(r, "release_issues_changelog", CleanReleaseIssuesChangelog(tables, raw))
    \/ ReadLog(r, "release_changelog", tables.releases)
    \/ WriteLog(r, "release_changelog")
    \/ Commit(r, "worklogs", CleanWorklogs(tables, raw))
    \/ Commit(r, "comments", CleanComments(tables, raw))
    \/ Commit(r, "field_keys", CleanFieldKeys(tables, raw))
    \/ Commit(r, "sprint_field_key", CleanSprintFieldKey(tables, raw))
    \/ Commit(r, "field_values", CleanFieldValues(tables, raw))
    \/ Commit(r, "sprint_values", CleanSprintValues(tables, raw))
    \/ Commit(r, "field_value_changelog", CleanFieldValueChangelog(tables, raw))
    \/ \E step \in world.steps : FailStep(r, step)

Next ==
    \/ People
    \/ LoadIssues \/ LoadTables
    \/ StartRun
    \/ \E r \in DOMAIN runs : RunStep(r)

Spec == Init /\ [][Next]_vars
-----------------------------------------------------------------------------
Has(step) == step \in world.steps

\* A run has finished and nothing was loaded since it started; another may still be
\* under way, or may have failed before, between or after its steps.
Settled == \E r \in DOMAIN runs : Complete(r) /\ ~runs[r].stale

Active(table, x, i) == <<x, i>> \in DOMAIN table /\ table[<<x, i>>]

Events(log, x, i) == {e \in log : e.of = x /\ e.issue = i}

\* The tables hold what they are made to hold, and runs do what their assets allow.
TypeOK ==
    /\ DOMAIN raw.issues \subseteq DOMAIN jira.issues
    /\ touched \subseteq DOMAIN jira.issues /\ DOMAIN jira.issues \subseteq world.issues
    /\ DOMAIN tables.issues \subseteq Loaded(raw)
    /\ {c[1] : c \in tables.column_statuses} \subseteq tables.board_columns
    /\ \A rule \in tables.commitment_rules : {rule.start, rule.end} \subseteq tables.board_columns
    /\ OneToOne(tables.issue_statuses)
    /\ \A r \in DOMAIN runs : runs[r].done \subseteq world.steps \ runs[r].failed

\* The asset checks. Those of references pass whenever they are executed, also in the
\* middle of overlapping runs; those of counts and of closed sprints, which raise an alarm
\* while a run is under way or after a failed one, pass once a run has finished.
ChecksPass ==
    /\ check_issue_fk_integrity(tables)
    /\ check_sprint_issues_integrity(tables)
    /\ check_release_issues_integrity(tables)
    /\ check_no_orphan_worklogs(tables)
    /\ check_field_values_fk_integrity(tables)
    /\ check_status_changelog_fk_integrity(tables)
    /\ Settled =>
            /\ Has("issues") => check_raw_clean_issue_count(tables, raw)
            /\ Has("sprints") => check_raw_clean_sprint_count(tables, raw)
            /\ Has("sprint_issues") /\ "items" \in raw.tables =>
                    check_closed_sprint_issues_inactive(tables)

\* A run that finished repairs whatever failed, overlapping or outdated runs have left:
\* what the assets upsert is then what the raw tables have, and nothing they only insert
\* is missing. (What was cleared or removed in Jira stays: see the hazards.)
CompleteRunMirrorsRaw ==
    Settled => \A i \in Loaded(raw) :
        LET issue == raw.issues[i]
        IN  /\ Has("issue_statuses") => tables.issue_statuses[issue.status] = issue.statusName
            /\ Has("issues") => /\ i \in DOMAIN tables.issues
                                /\ tables.issues[i] = issue.status
            /\ Has("issue_labels") /\ "label" \in issue.rows => i \in tables.issue_labels
            /\ Has("issue_links") /\ "link" \in issue.rows => i \in tables.issue_links
            /\ Has("worklogs") /\ "worklog" \in issue.rows => i \in tables.worklogs
            /\ Has("comments") /\ "comment" \in issue.rows => i \in tables.comments
            /\ Has("user_issue_roles") /\ issue.assignee # Nothing =>
                    <<issue.assignee[1], i>> \in tables.user_issue_roles
            /\ Has("field_values") /\ issue.points # Nothing =>
                    tables.field_values[<<i, "points">>] = issue.points
            /\ Has("sprint_values") /\ issue.sprints # {} =>
                    tables.field_values[<<i, "sprint">>] = issue.sprints
            /\ Has("field_value_changelog") /\ "points" \in raw.tables => \A c \in issue.pointChanges :
                    <<i, c>> \in tables.field_value_changelog

\* Of statuses that have gone by one name only one is kept, and the history gives each
\* change under the name of its time.
NameIsShared(c, statuses, w) ==
    \/ \E id \in DOMAIN statuses \ {c.to} : statuses[id] = c.name
    \/ \E d \in StatusChanges(w) : d.name = c.name /\ d.to # c.to

\* Every status change of the history is in the changelog after a finished run, with the
\* status it came from or none, unless its status goes by a name two statuses have had.
NoStatusChangeIsLost ==
    Settled /\ Has("status_changelog") =>
        \A i \in Loaded(raw) : \A c \in raw.issues[i].changes :
            \/ /\ <<i, c.to, c.at>> \in DOMAIN tables.status_changelog
               /\ tables.status_changelog[<<i, c.to, c.at>>] \in {c.from, Nothing}
            \/ NameIsShared(c, tables.issue_statuses, raw)

\* Jira's rule, which the tie between an addition and a removal of one time relies on;
\* sprints and issues are loaded apart, so the raw tables may break it for a while.
AtMostOneOpen(i) ==
    \A field \in {raw.issues[i].sprints} \cup UNION {{m.from, m.to} : m \in raw.issues[i].moves} :
        Cardinality(Open(field, raw.sprints)) <= 1

\* The membership that the last events leave is what the fields of the issue say: active
\* in the open sprint of its Sprint field and in no other; and, of the versions its
\* history mentions, in those it has.
MembershipIsJiras ==
    Settled => \A i \in Loaded(raw) :
        /\ (Has("sprint_issues") /\ "items" \in raw.tables /\ AtMostOneOpen(i)) =>
            \A s \in DOMAIN raw.sprints :
                Active(tables.sprint_issues, s, i) <=>
                    s \in Open(raw.issues[i].sprints, raw.sprints)
        /\ Has("release_issues") => \A f \in raw.issues[i].fixes :
                f.version \in DOMAIN raw.versions =>
                    (Active(tables.release_issues, f.version, i)
                        <=> f.version \in raw.issues[i].versions)

\* sprint_issues and its history, two readings of one changelog, agree about open
\* sprints: an issue is active in those it was last added to.
HistoryExplainsMembership ==
    Settled /\ Has("sprint_issues_changelog") =>
        \A i \in Loaded(raw), s \in Open(DOMAIN raw.sprints, raw.sprints) :
            LET events == Events(tables.sprint_issues_changelog, s, i)
            IN  AtMostOneOpen(i) =>
                    (Active(tables.sprint_issues, s, i)
                        <=> events # {} /\ Latest(events).action = "added")

\* The columns of the board have their statuses, unless a run has rebuilt the columns
\* and not got to the statuses, whichever other run came in between.
ColumnsKeepTheirStatuses ==
    (/\ Settled /\ Has("column_statuses")
     /\ \A r \in DOMAIN runs : "board_columns" \in runs[r].done
            => "column_statuses" \in runs[r].done) =>
        \A c \in DOMAIN raw.columns, s \in DOMAIN tables.issue_statuses :
            s \in raw.columns[c] <=>
                \E k \in tables.column_statuses : k[1][1] = c /\ k[2] = s

\* After a finished run the latest row of each log has the current value, also if runs
\* overlapped: now() is the start of the transaction, and a sprint or version never goes
\* back to an earlier state. (A name may; then the row of the slower run can be wrong
\* until the next run.)
LogsEndAtCurrent ==
    Settled =>
        /\ Has("sprint_changelog") => \A s \in DOMAIN raw.sprints :
                LastKnown(tables.sprint_changelog, s) = raw.sprints[s]
        /\ Has("release_changelog") => \A v \in DOMAIN raw.versions :
                LastKnown(tables.release_changelog, v) = raw.versions[v]

\* "the system shall persist changes in `metrics.commitment_rules`": a rule leaves the
\* table only when an administrator replaces or deletes it.
RulesPersist ==
    [][\A rule \in tables.commitment_rules :
            rule \in tables'.commitment_rules \/ RuleEdit]_vars
=============================================================================
