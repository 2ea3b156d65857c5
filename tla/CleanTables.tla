------------------------------ MODULE CleanTables ------------------------------
(****************************************************************************)
(* The statements of the clean layer: what each asset under                 *)
(* pipelines/assets/jira/clean makes of the clean tables `t` and the raw    *)
(* tables `raw`. One Jira project with one board.                           *)
(*                                                                          *)
(* A table is a function from its unique key to the columns that matter, or *)
(* a set if the key is all there is. A raw issue has its history: status    *)
(* changes, changes of the Sprint field (the whole set before and after),   *)
(* of fix versions (one item for each), and of a number field ("points").   *)
(* raw.tables names the nested tables and columns dlt has created so far:   *)
(* it creates them with their first row. Ids and names of statuses are      *)
(* numbers, compared as Postgres compares them.                             *)
(****************************************************************************)
EXTENDS Integers, FiniteSets, Sequences, SequencesExt

CONSTANT Nothing  \* NULL

\* ON CONFLICT ... DO UPDATE and DO NOTHING.
Upserted(table, rows) ==
    [k \in DOMAIN table \cup DOMAIN rows |-> IF k \in DOMAIN rows THEN rows[k] ELSE table[k]]
Added(table, rows) == Upserted(rows, table)

IdsOf(rows) == {r[1] : r \in rows}
NameOf(rows, id) == (CHOOSE r \in rows : r[1] = id)[2]

\* ON CONFLICT DO UPDATE cannot affect a row a second time.
RowTwice(rows) == \E r, s \in rows : r[1] = s[1] /\ r # s

UpsertedNames(table, rows) == Upserted(table, [id \in IdsOf(rows) |-> NameOf(rows, id)])

\* UNIQUE (project_id, name). Whether rows that trade names succeed depends on the order in
\* which the statement reaches them; the model lets them.
OneToOne(table) == \A a, b \in DOMAIN table : table[a] = table[b] => a = b

CanUpsertNames(table, rows) == ~RowTwice(rows) /\ OneToOne(UpsertedNames(table, rows))

Loaded(raw) == DOMAIN raw.issues

-----------------------------------------------------------------------------
\* Dimensions (dimensions.py). Types, priorities and resolutions are kept alike; of
\* them the model has the types.
TypeRows(raw) == {raw.issues[i].type : i \in Loaded(raw)}

CleanIssueTypes(t, raw) ==
    [t EXCEPT !.issue_types = UpsertedNames(@, TypeRows(raw))]

StatusRows(raw) ==
    {<<raw.issues[i].status, raw.issues[i].statusName>> : i \in Loaded(raw)}

StatusChanges(raw) == UNION {raw.issues[i].changes : i \in Loaded(raw)}

\* DISTINCT ON (project, to_string): one id for each name, the lowest.
Candidates(raw) ==
    {<<c.to, c.name>> : c \in
        {c \in StatusChanges(raw) :
            \A d \in StatusChanges(raw) : d.name = c.name => c.to <= d.to}}

\* Those of which neither the id nor the name is known.
Historical(statuses, raw) ==
    {c \in Candidates(raw) :
        c[1] \notin DOMAIN statuses /\ \A id \in DOMAIN statuses : statuses[id] # c[2]}

\* Mutant: only the statuses that issues have now.
CurrentStatusesOnly(t, raw) ==
    [t EXCEPT !.issue_statuses = UpsertedNames(@, StatusRows(raw))]

\* clean_jira_issue_statuses: current statuses, then those only the history knows; of
\* two names of one id the first in the order of names is inserted.
CleanIssueStatuses(t, raw) ==
    LET current == UpsertedNames(t.issue_statuses, StatusRows(raw))
        found == IF "items" \in raw.tables THEN Historical(current, raw) ELSE {}
    IN  [t EXCEPT !.issue_statuses =
            Added(current, [id \in IdsOf(found) |->
                CHOOSE n \in {c[2] : c \in {c \in found : c[1] = id}} :
                    \A d \in found : d[1] = id => n <= d[2]])]

-----------------------------------------------------------------------------
\* Issues (issues.py).
UserRows(raw) ==
    {raw.issues[i].assignee : i \in {i \in Loaded(raw) : raw.issues[i].assignee # Nothing}}

\* The issues whose status and type are known.
CleanableIssues(t, raw) ==
    {i \in Loaded(raw) : /\ raw.issues[i].status \in DOMAIN t.issue_statuses
                         /\ raw.issues[i].type[1] \in DOMAIN t.issue_types}

\* Mutant: an issue once inserted is not updated.
InsertNewIssues(t, raw) ==
    [t EXCEPT !.jira_users = UpsertedNames(@, UserRows(raw)),
              !.issues = Added(@, [i \in CleanableIssues(t, raw) |-> raw.issues[i].status])]

\* clean_jira_issues: users, then issues.
CleanIssues(t, raw) ==
    [t EXCEPT !.jira_users = UpsertedNames(@, UserRows(raw)),
              !.issues = Upserted(@, [i \in CleanableIssues(t, raw) |-> raw.issues[i].status])]

\* Raw issues that have a clean row: the join most assets begin with.
Joined(t, raw) == Loaded(raw) \cap DOMAIN t.issues

\* The issues with a row in a nested table.
With(t, raw, kind) == {i \in Joined(t, raw) : kind \in raw.issues[i].rows}

\* clean_jira_labels and clean_jira_issue_labels: nothing is ever removed.
CleanLabels(t, raw) ==
    IF \E i \in Loaded(raw) : "label" \in raw.issues[i].rows
    THEN [t EXCEPT !.labels = @ \cup {"label"}] ELSE t

CleanIssueLabels(t, raw) ==
    [t EXCEPT !.issue_labels =
        @ \cup {i \in With(t, raw, "label") : "label" \in t.labels}]

\* clean_jira_user_issue_roles: the roles of earlier assignees stay.
CleanUserIssueRoles(t, raw) ==
    [t EXCEPT !.user_issue_roles = @ \cup
        {<<raw.issues[i].assignee[1], i>> : i \in
            {i \in Joined(t, raw) : /\ raw.issues[i].assignee # Nothing
                                    /\ raw.issues[i].assignee[1] \in DOMAIN t.jira_users}}]

\* clean_jira_issue_links, clean_jira_worklogs, clean_jira_comments.
CleanIssueLinks(t, raw) == [t EXCEPT !.issue_links = @ \cup With(t, raw, "link")]

CleanWorklogs(t, raw) == [t EXCEPT !.worklogs = @ \cup With(t, raw, "worklog")]

CleanComments(t, raw) == [t EXCEPT !.comments = @ \cup With(t, raw, "comment")]

ChangesIn(t, raw) ==
    UNION {{<<i, c>> : c \in raw.issues[i].changes} : i \in Joined(t, raw)}

\* clean_jira_issue_status_changelog: a change to an unknown status is dropped, an
\* unknown status it comes from is NULL until it is known.
CleanStatusChangelog(t, raw) ==
    LET known == {x \in ChangesIn(t, raw) : x[2].to \in DOMAIN t.issue_statuses}
        from(k) == (CHOOSE x \in known : k = <<x[1], x[2].to, x[2].at>>)[2].from
    IN  [t EXCEPT !.status_changelog =
            Upserted(@, [k \in {<<x[1], x[2].to, x[2].at>> : x \in known} |->
                IF from(k) \in DOMAIN t.issue_statuses THEN from(k) ELSE Nothing])]

-----------------------------------------------------------------------------
\* Boards (boards.py). A column is its name and the rebuild that inserted it (its id).
CleanBoards(t, raw) ==
    IF raw.columns = <<>> THEN t ELSE [t EXCEPT !.boards = {"board"}]

\* The commitment rules that ON DELETE CASCADE leaves.
Surviving(rules, columns) == {r \in rules : {r.start, r.end} \subseteq columns}

\* Mutant: what refers to the columns is left.
ColumnsWithoutCascade(t, raw) ==
    IF t.boards = {} \/ raw.columns = <<>> THEN t
    ELSE [t EXCEPT !.rebuilds = @ + 1,
                   !.board_columns = {<<c, t.rebuilds + 1>> : c \in DOMAIN raw.columns}]

\* Mutant: columns that are there are kept, and so are their ids.
ColumnsInsertedOnce(t, raw) ==
    IF t.boards = {} \/ raw.columns = <<>> THEN t
    ELSE [t EXCEPT !.rebuilds = @ + 1,
                   !.board_columns = @ \cup {<<c, t.rebuilds + 1>> : c \in
                        DOMAIN raw.columns \ {d[1] : d \in t.board_columns}}]

\* clean_jira_board_columns: the columns of the board are deleted, with what refers to
\* them, and inserted again.
CleanBoardColumns(t, raw) ==
    LET columns == {<<c, t.rebuilds + 1>> : c \in DOMAIN raw.columns}
    IN  IF t.boards = {} \/ raw.columns = <<>> THEN t
        ELSE [t EXCEPT !.rebuilds = @ + 1,
                       !.board_columns = columns,
                       !.column_statuses = {},
                       !.commitment_rules = Surviving(@, columns)]

\* clean_jira_board_column_statuses, matched by the names of the columns.
CleanColumnStatuses(t, raw) ==
    [t EXCEPT !.column_statuses = @ \cup
        UNION {{<<col, s>> : s \in raw.columns[col[1]] \cap DOMAIN t.issue_statuses} :
               col \in {c \in t.board_columns : c[1] \in DOMAIN raw.columns}}]

-----------------------------------------------------------------------------
\* Sprints (sprints.py).
CleanSprints(t, raw) == [t EXCEPT !.sprints = Upserted(@, raw.sprints)]

Event(i, x, at, action) == [issue |-> i, of |-> x, at |-> at, action |-> action]

\* Every id in `to` was added and every id in `from` removed, as clean_jira_sprint_issues
\* reads the history.
WholeSetEvents(raw) ==
    UNION {UNION {{Event(i, s, m.at, "added") : s \in m.to} \cup
                  {Event(i, s, m.at, "removed") : s \in m.from} :
                  m \in raw.issues[i].moves} : i \in Loaded(raw)}

\* Mutant: additions only.
AdditionEvents(raw) ==
    UNION {UNION {{Event(i, s, m.at, "added") : s \in m.to \ m.from} :
                  m \in raw.issues[i].moves} : i \in Loaded(raw)}

\* The difference of the sets, as clean_jira_sprint_issues_changelog reads it.
DifferenceEvents(raw) ==
    UNION {UNION {{Event(i, s, m.at, "added") : s \in m.to \ m.from} \cup
                  {Event(i, s, m.at, "removed") : s \in m.from \ m.to} :
                  m \in raw.issues[i].moves} : i \in Loaded(raw)}

\* Mutant: no snapshot.
NoSnapshotEvents(raw) == {}

\* Issues without a change of the Sprint field: added when they were created.
SnapshotEvents(raw) ==
    UNION {{Event(i, s, raw.issues[i].created, "added") : s \in raw.issues[i].sprints} :
           i \in {i \in Loaded(raw) : raw.issues[i].moves = {}}}

KnownEvents(events, t, table) ==
    {e \in events : e.issue \in DOMAIN t.issues /\ e.of \in DOMAIN table}

\* ORDER BY changed_at DESC, action DESC.
Latest(events) ==
    CHOOSE e \in events : \A f \in events :
        f.at < e.at \/ (f.at = e.at /\ (e.action = "removed" \/ f.action = "added"))

Members(events) ==
    [p \in {<<e.of, e.issue>> : e \in events} |->
        Latest({e \in events : <<e.of, e.issue>> = p}).action = "added"]

\* Mutant: closed sprints are not reconciled.
SprintIssuesUnreconciled(t, raw) ==
    IF "items" \notin raw.tables THEN t
    ELSE [t EXCEPT !.sprint_issues = Upserted(@,
            Members(KnownEvents(WholeSetEvents(raw) \cup SnapshotEvents(raw), t, t.sprints)))]

\* clean_jira_sprint_issues; nobody is active in a closed sprint.
CleanSprintIssues(t, raw) ==
    LET events == KnownEvents(WholeSetEvents(raw) \cup SnapshotEvents(raw), t, t.sprints)
        rows == Upserted(t.sprint_issues, Members(events))
    IN  IF "items" \notin raw.tables THEN t
        ELSE [t EXCEPT !.sprint_issues =
                [p \in DOMAIN rows |-> rows[p] /\ t.sprints[p[1]] # "closed"]]

\* clean_jira_sprint_issues_changelog: rebuilt from nothing.
CleanSprintIssuesChangelog(t, raw) ==
    [t EXCEPT !.sprint_issues_changelog =
        KnownEvents(DifferenceEvents(raw) \cup SnapshotEvents(raw), t, t.sprints)]

-----------------------------------------------------------------------------
\* The property logs of sprints and releases: rows [of, old, new, at].
LastKnown(log, x) ==
    LET rows == {r \in log : r.of = x}
    IN  IF rows = {} THEN Nothing ELSE (CHOOSE r \in rows : \A s \in rows : s.at <= r.at).new

\* Mutant: what is not in the log yet is not reported.
SnapshotDiffOfLogged(table, log, at) ==
    {[of |-> x, old |-> LastKnown(log, x), new |-> table[x], at |-> at] :
        x \in {x \in DOMAIN table : LastKnown(log, x) \notin {table[x], Nothing}}}

\* clean_jira_sprint_changelog, clean_jira_release_changelog: what differs from the last
\* row. now() is the start of the transaction.
SnapshotDiff(table, log, at) ==
    {[of |-> x, old |-> LastKnown(log, x), new |-> table[x], at |-> at] :
        x \in {x \in DOMAIN table : LastKnown(log, x) # table[x]}}

-----------------------------------------------------------------------------
\* Releases (releases.py).
CleanReleases(t, raw) == [t EXCEPT !.releases = Upserted(@, raw.versions)]

FixEvents(raw) ==
    UNION {{Event(i, f.version, f.at, f.action) : f \in raw.issues[i].fixes} :
           i \in Loaded(raw)}

\* clean_jira_release_issues: no snapshot, no reconciliation.
CleanReleaseIssues(t, raw) ==
    IF t.releases = <<>> THEN t
    ELSE [t EXCEPT !.release_issues =
            Upserted(@, Members(KnownEvents(FixEvents(raw), t, t.releases)))]

\* clean_jira_release_issues_changelog: ON CONFLICT DO NOTHING.
CleanReleaseIssuesChangelog(t, raw) ==
    IF t.releases = <<>> THEN t
    ELSE [t EXCEPT !.release_issues_changelog =
            @ \cup KnownEvents(FixEvents(raw), t, t.releases)]

-----------------------------------------------------------------------------
\* Fields (dimensions.py, supplementary.py). The keys of the columns of raw_jira.issues,
\* and then, in a transaction of its own, the Sprint field.
CleanFieldKeys(t, raw) == [t EXCEPT !.field_keys = @ \cup (raw.tables \cap {"points"})]

CleanSprintFieldKey(t, raw) == [t EXCEPT !.field_keys = @ \cup {"sprint"}]

Values(S, field, of) == [k \in S \X {field} |-> of[k[1]]]

\* clean_jira_field_values: empty values are skipped, so a value that was cleared stays;
\* the Sprint values follow in a transaction of their own.
CleanFieldValues(t, raw) ==
    LET set == {i \in Joined(t, raw) : raw.issues[i].points # Nothing}
    IN  IF "points" \notin t.field_keys THEN t
        ELSE [t EXCEPT !.field_values = Upserted(@,
                Values(set, "points", [i \in set |-> raw.issues[i].points]))]

CleanSprintValues(t, raw) ==
    LET set == {i \in Joined(t, raw) : raw.issues[i].sprints # {}}
    IN  IF "sprint" \notin t.field_keys \cap raw.tables THEN t
        ELSE [t EXCEPT !.field_values = Upserted(@,
                Values(set, "sprint", [i \in set |-> raw.issues[i].sprints]))]

\* clean_jira_field_value_changelog.
CleanFieldValueChangelog(t, raw) ==
    IF "items" \notin raw.tables \/ "points" \notin t.field_keys THEN t
    ELSE [t EXCEPT !.field_value_changelog = @ \cup
            UNION {{<<i, c>> : c \in raw.issues[i].pointChanges} : i \in Joined(t, raw)}]

-----------------------------------------------------------------------------
\* Asset checks (checks.py).
check_issue_fk_integrity(t) ==
    \A i \in DOMAIN t.issues : t.issues[i] \in DOMAIN t.issue_statuses

check_sprint_issues_integrity(t) ==
    DOMAIN t.sprint_issues \subseteq (DOMAIN t.sprints) \X (DOMAIN t.issues)

check_release_issues_integrity(t) ==
    DOMAIN t.release_issues \subseteq (DOMAIN t.releases) \X (DOMAIN t.issues)

check_no_orphan_worklogs(t) == t.worklogs \subseteq DOMAIN t.issues

check_field_values_fk_integrity(t) == {k[2] : k \in DOMAIN t.field_values} \subseteq t.field_keys

check_status_changelog_fk_integrity(t) ==
    {k[2] : k \in DOMAIN t.status_changelog} \subseteq DOMAIN t.issue_statuses

\* At most 5 of 100 rows are missing.
CountsAgree(rawRows, cleanRows) ==
    (Cardinality(rawRows) - Cardinality(cleanRows)) * 100 <= 5 * Cardinality(rawRows)

check_raw_clean_issue_count(t, raw) == CountsAgree(Loaded(raw), DOMAIN t.issues)

check_raw_clean_sprint_count(t, raw) == CountsAgree(DOMAIN raw.sprints, DOMAIN t.sprints)

check_closed_sprint_issues_inactive(t) ==
    \A k \in DOMAIN t.sprint_issues : t.sprints[k[1]] = "closed" => ~t.sprint_issues[k]
=============================================================================
