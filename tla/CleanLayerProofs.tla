---------------------------- MODULE CleanLayerProofs ----------------------------
(****************************************************************************)
(* Proofs about module CleanLayer, for any worlds, sprints, versions,       *)
(* columns and statuses.                                                    *)
(*                                                                          *)
(* Every statement keeps the references between the tables (RefsOk), since  *)
(* each inserts only what it finds in the tables it refers to, and deletes  *)
(* what refers to what it deletes.                                          *)
(****************************************************************************)
EXTENDS CleanLayer, Aggregates

TableNames ==
    {"issue_types", "issue_statuses", "jira_users", "issues", "labels", "issue_labels",
     "user_issue_roles", "issue_links", "worklogs", "comments", "status_changelog", "boards",
     "board_columns", "column_statuses", "rebuilds", "commitment_rules", "sprints",
     "sprint_issues", "sprint_issues_changelog", "sprint_changelog", "releases",
     "release_issues", "release_issues_changelog", "release_changelog", "field_keys",
     "field_values", "field_value_changelog"}

\* u is t but for the tables of ns.
Only(t, u, ns) == DOMAIN u = TableNames /\ \A n \in TableNames \ ns : u[n] = t[n]

-----------------------------------------------------------------------------
\* Upserts and insertions: what the table has, and the rows.
LEMMA UpsertedRows ==
    ASSUME NEW table, NEW rows
    PROVE  /\ DOMAIN Upserted(table, rows) = DOMAIN table \cup DOMAIN rows
           /\ \A k \in DOMAIN rows : Upserted(table, rows)[k] = rows[k]
           /\ \A k \in DOMAIN table \ DOMAIN rows : Upserted(table, rows)[k] = table[k]
           /\ DOMAIN Added(table, rows) = DOMAIN table \cup DOMAIN rows
           /\ \A k \in DOMAIN table : Added(table, rows)[k] = table[k]
           /\ \A k \in DOMAIN rows \ DOMAIN table : Added(table, rows)[k] = rows[k]
  BY DEF Upserted, Added

\* Names that are upserted are those of a row.
LEMMA UpsertedNamesRows ==
    ASSUME NEW table, NEW rows, NEW u, u = UpsertedNames(table, rows)
    PROVE  /\ DOMAIN u = DOMAIN table \cup IdsOf(rows)
           /\ \A k \in DOMAIN table \ IdsOf(rows) : u[k] = table[k]
           /\ \A k \in IdsOf(rows) : <<k, u[k]>> \in {<<r[1], r[2]>> : r \in rows}
  <1>1. /\ DOMAIN u = DOMAIN table \cup IdsOf(rows)
        /\ \A k \in DOMAIN table \ IdsOf(rows) : u[k] = table[k]
        /\ \A k \in IdsOf(rows) : u[k] = NameOf(rows, k)
    BY DEF UpsertedNames, Upserted
  <1>2. ASSUME NEW k \in IdsOf(rows)
        PROVE  \E r \in rows : r[1] = k /\ NameOf(rows, k) = r[2]
    <2>1. \E r \in rows : r[1] = k
      BY DEF IdsOf
    <2> QED
      BY <2>1 DEF NameOf
  <1> QED
    BY <1>1, <1>2

\* What each statement writes.
LEMMA Frames ==
    ASSUME NEW t, NEW w, DOMAIN t = TableNames
    PROVE  /\ Only(t, CleanIssueTypes(t, w), {"issue_types"})
           /\ Only(t, CleanIssueStatuses(t, w), {"issue_statuses"})
           /\ Only(t, CleanIssues(t, w), {"jira_users", "issues"})
           /\ Only(t, CleanLabels(t, w), {"labels"})
           /\ Only(t, CleanIssueLabels(t, w), {"issue_labels"})
           /\ Only(t, CleanUserIssueRoles(t, w), {"user_issue_roles"})
           /\ Only(t, CleanIssueLinks(t, w), {"issue_links"})
           /\ Only(t, CleanWorklogs(t, w), {"worklogs"})
           /\ Only(t, CleanComments(t, w), {"comments"})
           /\ Only(t, CleanStatusChangelog(t, w), {"status_changelog"})
           /\ Only(t, CleanBoards(t, w), {"boards"})
           /\ Only(t, CleanBoardColumns(t, w),
                   {"board_columns", "column_statuses", "rebuilds", "commitment_rules"})
           /\ Only(t, CleanColumnStatuses(t, w), {"column_statuses"})
           /\ Only(t, CleanSprints(t, w), {"sprints"})
           /\ Only(t, CleanSprintIssues(t, w), {"sprint_issues"})
           /\ Only(t, CleanSprintIssuesChangelog(t, w), {"sprint_issues_changelog"})
           /\ Only(t, CleanReleases(t, w), {"releases"})
           /\ Only(t, CleanReleaseIssues(t, w), {"release_issues"})
           /\ Only(t, CleanReleaseIssuesChangelog(t, w), {"release_issues_changelog"})
           /\ Only(t, CleanFieldKeys(t, w), {"field_keys"})
           /\ Only(t, CleanSprintFieldKey(t, w), {"field_keys"})
           /\ Only(t, CleanFieldValues(t, w), {"field_values"})
           /\ Only(t, CleanSprintValues(t, w), {"field_values"})
           /\ Only(t, CleanFieldValueChangelog(t, w), {"field_value_changelog"})
  <1>1. /\ Only(t, CleanIssueTypes(t, w), {"issue_types"})
        /\ Only(t, CleanIssueStatuses(t, w), {"issue_statuses"})
    BY DEF Only, TableNames, CleanIssueTypes, CleanIssueStatuses
  <1>2. /\ Only(t, CleanIssues(t, w), {"jira_users", "issues"})
        /\ Only(t, CleanLabels(t, w), {"labels"})
        /\ Only(t, CleanIssueLabels(t, w), {"issue_labels"})
    BY DEF Only, TableNames, CleanIssues, CleanLabels, CleanIssueLabels
  <1>3. /\ Only(t, CleanUserIssueRoles(t, w), {"user_issue_roles"})
        /\ Only(t, CleanIssueLinks(t, w), {"issue_links"})
        /\ Only(t, CleanWorklogs(t, w), {"worklogs"})
        /\ Only(t, CleanComments(t, w), {"comments"})
    BY DEF Only, TableNames, CleanUserIssueRoles, CleanIssueLinks, CleanWorklogs, CleanComments
  <1>4. /\ Only(t, CleanStatusChangelog(t, w), {"status_changelog"})
        /\ Only(t, CleanBoards(t, w), {"boards"})
    BY DEF Only, TableNames, CleanStatusChangelog, CleanBoards
  <1>5. Only(t, CleanBoardColumns(t, w),
             {"board_columns", "column_statuses", "rebuilds", "commitment_rules"})
    BY DEF Only, TableNames, CleanBoardColumns
  <1>6. /\ Only(t, CleanColumnStatuses(t, w), {"column_statuses"})
        /\ Only(t, CleanSprints(t, w), {"sprints"})
        /\ Only(t, CleanSprintIssues(t, w), {"sprint_issues"})
        /\ Only(t, CleanSprintIssuesChangelog(t, w), {"sprint_issues_changelog"})
    BY DEF Only, TableNames, CleanColumnStatuses, CleanSprints, CleanSprintIssues,
           CleanSprintIssuesChangelog
  <1>7. /\ Only(t, CleanReleases(t, w), {"releases"})
        /\ Only(t, CleanReleaseIssues(t, w), {"release_issues"})
        /\ Only(t, CleanReleaseIssuesChangelog(t, w), {"release_issues_changelog"})
    BY DEF Only, TableNames, CleanReleases, CleanReleaseIssues, CleanReleaseIssuesChangelog
  <1>8. /\ Only(t, CleanFieldKeys(t, w), {"field_keys"})
        /\ Only(t, CleanSprintFieldKey(t, w), {"field_keys"})
        /\ Only(t, CleanFieldValues(t, w), {"field_values"})
        /\ Only(t, CleanSprintValues(t, w), {"field_values"})
        /\ Only(t, CleanFieldValueChangelog(t, w), {"field_value_changelog"})
    BY DEF Only, TableNames, CleanFieldKeys, CleanSprintFieldKey, CleanFieldValues,
           CleanSprintValues, CleanFieldValueChangelog
  <1> QED
    BY <1>1, <1>2, <1>3, <1>4, <1>5, <1>6, <1>7, <1>8

-----------------------------------------------------------------------------
\* What is known of a raw issue whose references and names are followed.
ChangeOk(c) == /\ c.to \in StatusIds /\ c.from \in StatusIds /\ c.name \in Names

RawIssueOk(issue) ==
    /\ issue.status \in StatusIds /\ issue.statusName \in Names
    /\ \A c \in issue.changes : ChangeOk(c)

RawIssuesOk(w) == \A i \in Loaded(w) : RawIssueOk(w.issues[i])

\* The statuses have names, each its own.
StatusesOk(statuses) ==
    /\ DOMAIN statuses \subseteq StatusIds
    /\ \A s \in DOMAIN statuses : statuses[s] \in Names
    /\ OneToOne(statuses)

LEMMA StatusIdsAreNumbers == StatusIds \subseteq Nat /\ Names \subseteq Nat
  BY CleanLayerAssumption DEF Names

\* The statuses after their statement: those of the issues with their present names, those
\* that were known, and of those only the history knows one for each name.
LEMMA StatusesAfter ==
    ASSUME NEW t, NEW w, DOMAIN t = TableNames, StatusesOk(t.issue_statuses), RawIssuesOk(w),
           CanUpsertNames(t.issue_statuses, StatusRows(w)),
           NEW u, u = CleanIssueStatuses(t, w).issue_statuses
    PROVE  /\ StatusesOk(u)
           /\ DOMAIN t.issue_statuses \subseteq DOMAIN u
           /\ \A i \in Loaded(w) : /\ w.issues[i].status \in DOMAIN u
                                  /\ u[w.issues[i].status] = w.issues[i].statusName
           /\ "items" \in w.tables => Historical(u, w) = {}
  <1> DEFINE current == UpsertedNames(t.issue_statuses, StatusRows(w))
             found == IF "items" \in w.tables THEN Historical(current, w) ELSE {}
             names(id) == {c[2] : c \in {c \in found : c[1] = id}}
             name(id) == CHOOSE n \in names(id) : \A d \in found : d[1] = id => n <= d[2]
  <1>1. u = Added(current, [id \in IdsOf(found) |-> name(id)])
    BY DEF CleanIssueStatuses, TableNames
  <1>2. /\ DOMAIN current = DOMAIN t.issue_statuses \cup IdsOf(StatusRows(w))
        /\ \A k \in DOMAIN t.issue_statuses \ IdsOf(StatusRows(w)) :
                current[k] = t.issue_statuses[k]
        /\ \A k \in IdsOf(StatusRows(w)) :
                <<k, current[k]>> \in {<<r[1], r[2]>> : r \in StatusRows(w)}
    BY UpsertedNamesRows
  <1>3. \A r \in StatusRows(w) : \E i \in Loaded(w) :
            r = <<w.issues[i].status, w.issues[i].statusName>>
    BY DEF StatusRows
  <1>4. StatusesOk(current)
    <2>1. OneToOne(current)
      BY DEF CanUpsertNames
    <2>2. \A k \in IdsOf(StatusRows(w)) : k \in StatusIds /\ current[k] \in Names
      BY <1>2, <1>3 DEF RawIssuesOk, RawIssueOk
    <2> QED
      BY <1>2, <2>1, <2>2 DEF StatusesOk
  <1>5. ASSUME NEW i \in Loaded(w)
        PROVE  /\ w.issues[i].status \in DOMAIN current
               /\ current[w.issues[i].status] = w.issues[i].statusName
    <2> DEFINE row == <<w.issues[i].status, w.issues[i].statusName>>
    <2>1. row \in StatusRows(w)
      BY DEF StatusRows
    <2>2. row[1] \in IdsOf(StatusRows(w))
      BY <2>1 DEF IdsOf
    <2>3. PICK r \in StatusRows(w) : <<row[1], current[row[1]]>> = <<r[1], r[2]>>
      BY <1>2, <2>2
    <2>4. r = row
      BY <2>1, <2>3 DEF CanUpsertNames, RowTwice
    <2> QED
      BY <1>2, <2>2, <2>3, <2>4
  <1>6. \A c \in found : /\ c \in Candidates(w) /\ c[1] \notin DOMAIN current
                        /\ \A id \in DOMAIN current : current[id] # c[2]
    BY DEF Historical
  <1> HIDE DEF current, found
  <1>7. \A c \in Candidates(w) :
            \E d \in StatusChanges(w) :
                /\ c = <<d.to, d.name>> /\ ChangeOk(d)
                /\ \A e \in StatusChanges(w) : e.name = d.name => d.to <= e.to
    BY DEF Candidates, StatusChanges, RawIssuesOk, RawIssueOk
  <1>8. ASSUME NEW id \in IdsOf(found)
        PROVE  <<id, name(id)>> \in found
    <2>1. \A c \in found : c[1] \in StatusIds /\ c[2] \in Nat /\ c = <<c[1], c[2]>>
      BY <1>6, <1>7, StatusIdsAreNumbers DEF ChangeOk
    <2>2. names(id) \in SUBSET Nat /\ names(id) # {}
      BY <2>1 DEF IdsOf
    <2>3. \E n \in names(id) : \A m \in names(id) : n <= m
      <3> HIDE DEF names
      <3> QED
        BY <2>2, LeastNatural
    <2>4. \A d \in found : d[1] = id => d[2] \in names(id)
      OBVIOUS
    <2>5. name(id) \in names(id)
      <3> HIDE DEF names
      <3> QED
        BY <2>3, <2>4
    <2> QED
      BY <2>1, <2>5
  <1>9. /\ DOMAIN u = DOMAIN current \cup IdsOf(found)
        /\ \A k \in DOMAIN current : u[k] = current[k]
        /\ \A k \in IdsOf(found) \ DOMAIN current : u[k] = name(k)
    BY <1>1 DEF Added, Upserted
  <1>10. ASSUME NEW k \in DOMAIN u \ DOMAIN current
         PROVE  /\ <<k, u[k]>> \in Candidates(w) /\ k \in StatusIds /\ u[k] \in Names
                /\ \A id \in DOMAIN current : current[id] # u[k]
    <2> DEFINE c == <<k, u[k]>>
    <2>1. c \in found
      BY <1>8, <1>9
    <2>2. c \in Candidates(w) /\ \A id \in DOMAIN current : current[id] # c[2]
      BY <1>6, <2>1
    <2>3. c[1] \in StatusIds /\ c[2] \in Names
      BY <1>7, <2>2 DEF ChangeOk
    <2> QED
      BY <2>2, <2>3
  <1>11. ASSUME NEW a \in DOMAIN u, NEW b \in DOMAIN u, u[a] = u[b]
         PROVE  a = b
    <2>1. CASE a \in DOMAIN current /\ b \in DOMAIN current
      BY <1>4, <1>9, <1>11, <2>1 DEF StatusesOk, OneToOne
    <2>2. CASE a \notin DOMAIN current /\ b \in DOMAIN current
      <3>1. u[b] = current[b]
        BY <1>9, <2>2
      <3>2. a \in DOMAIN u \ DOMAIN current
        BY <2>2
      <3>3. current[b] # u[a]
        BY <1>10, <2>2, <3>2
      <3> QED
        BY <1>11, <3>1, <3>3
    <2>3. CASE a \in DOMAIN current /\ b \notin DOMAIN current
      <3>1. u[a] = current[a]
        BY <1>9, <2>3
      <3>2. b \in DOMAIN u \ DOMAIN current
        BY <2>3
      <3>3. current[a] # u[b]
        BY <1>10, <2>3, <3>2
      <3> QED
        BY <1>11, <3>1, <3>3
    <2>4. CASE a \notin DOMAIN current /\ b \notin DOMAIN current
      <3>1. <<a, u[a]>> \in Candidates(w) /\ <<b, u[b]>> \in Candidates(w)
        BY <1>10, <2>4
      <3>2. a \in Nat /\ b \in Nat /\ a <= b /\ b <= a
        BY <1>7, <1>11, <3>1, StatusIdsAreNumbers DEF ChangeOk
      <3> QED
        BY <3>2
    <2> QED
      BY <2>1, <2>2, <2>3, <2>4
  <1>12. StatusesOk(u)
    <2>1. \A k \in DOMAIN u : k \in StatusIds /\ u[k] \in Names
      BY <1>4, <1>9, <1>10 DEF StatusesOk
    <2> QED
      BY <1>11, <2>1 DEF StatusesOk, OneToOne
  <1>13. ASSUME "items" \in w.tables, NEW c \in Historical(u, w)
         PROVE  FALSE
    <2>1. c \in Candidates(w) /\ c[1] \notin DOMAIN u /\ \A id \in DOMAIN u : u[id] # c[2]
      BY DEF Historical
    <2>2. c \in Historical(current, w)
      BY <1>9, <2>1 DEF Historical
    <2>3. c[1] \in IdsOf(found)
      BY <1>13, <2>2 DEF found, IdsOf
    <2> QED
      BY <1>9, <2>1, <2>3
  <1> QED
    BY <1>2, <1>5, <1>9, <1>12, <1>13

-----------------------------------------------------------------------------
\* All references between the tables.
RefsOk(t, w) ==
    /\ DOMAIN t = TableNames
    /\ StatusesOk(t.issue_statuses)
    /\ DOMAIN t.issues \subseteq Loaded(w)
    /\ check_issue_fk_integrity(t)
    /\ check_sprint_issues_integrity(t)
    /\ check_release_issues_integrity(t)
    /\ check_no_orphan_worklogs(t)
    /\ check_field_values_fk_integrity(t)
    /\ check_status_changelog_fk_integrity(t)
    /\ {c[1] : c \in t.column_statuses} \subseteq t.board_columns
    /\ \A rule \in t.commitment_rules : {rule.start, rule.end} \subseteq t.board_columns

\* The tables that take part in references.
Referred ==
    {"issue_statuses", "issues", "sprints", "sprint_issues", "releases", "release_issues",
     "worklogs", "field_keys", "field_values", "status_changelog", "board_columns",
     "column_statuses", "commitment_rules"}

LEMMA RefsFrame ==
    ASSUME NEW t, NEW w, RefsOk(t, w), NEW u, DOMAIN u = TableNames,
           \A n \in Referred : u[n] = t[n]
    PROVE  RefsOk(u, w)
  BY DEF Referred, RefsOk, check_issue_fk_integrity, check_sprint_issues_integrity,
         check_release_issues_integrity, check_no_orphan_worklogs,
         check_field_values_fk_integrity, check_status_changelog_fk_integrity

LEMMA StatementsApart ==
    ASSUME NEW t, NEW w, RefsOk(t, w)
    PROVE  /\ RefsOk(CleanIssueTypes(t, w), w)
           /\ RefsOk(CleanLabels(t, w), w)
           /\ RefsOk(CleanIssueLabels(t, w), w)
           /\ RefsOk(CleanUserIssueRoles(t, w), w)
           /\ RefsOk(CleanIssueLinks(t, w), w)
           /\ RefsOk(CleanComments(t, w), w)
           /\ RefsOk(CleanBoards(t, w), w)
           /\ RefsOk(CleanSprintIssuesChangelog(t, w), w)
           /\ RefsOk(CleanReleaseIssuesChangelog(t, w), w)
           /\ RefsOk(CleanFieldValueChangelog(t, w), w)
  <1>1. DOMAIN t = TableNames
    BY DEF RefsOk
  <1>2. ASSUME NEW u, NEW ns, Only(t, u, ns), ns \cap Referred = {}
        PROVE  RefsOk(u, w)
    <2>1. \A n \in Referred : n \in TableNames \ ns
      BY <1>2 DEF Referred, TableNames
    <2> QED
      BY <1>2, <2>1, RefsFrame DEF Only
  <1>3. /\ {"issue_types"} \cap Referred = {} /\ {"labels"} \cap Referred = {}
        /\ {"issue_labels"} \cap Referred = {} /\ {"user_issue_roles"} \cap Referred = {}
        /\ {"issue_links"} \cap Referred = {} /\ {"comments"} \cap Referred = {}
        /\ {"boards"} \cap Referred = {} /\ {"sprint_issues_changelog"} \cap Referred = {}
        /\ {"release_issues_changelog"} \cap Referred = {}
        /\ {"field_value_changelog"} \cap Referred = {}
    BY DEF Referred
  <1> QED
    BY <1>1, <1>2, <1>3, Frames

LEMMA StatusesKeepRefs ==
    ASSUME NEW t, NEW w, RefsOk(t, w), RawIssuesOk(w),
           CanUpsertNames(t.issue_statuses, StatusRows(w))
    PROVE  RefsOk(CleanIssueStatuses(t, w), w)
  <1> DEFINE u == CleanIssueStatuses(t, w)
  <1>1. Only(t, u, {"issue_statuses"})
    BY Frames DEF RefsOk
  <1>2. StatusesOk(u.issue_statuses) /\ DOMAIN t.issue_statuses \subseteq DOMAIN u.issue_statuses
    BY StatusesAfter DEF RefsOk
  <1> SUFFICES RefsOk(u, w)
    OBVIOUS
  <1> HIDE DEF u
  <1>3. /\ u.issues = t.issues
        /\ u.sprints = t.sprints
        /\ u.sprint_issues = t.sprint_issues
        /\ u.releases = t.releases
        /\ u.release_issues = t.release_issues
        /\ u.worklogs = t.worklogs
        /\ u.field_keys = t.field_keys
        /\ u.field_values = t.field_values
        /\ u.status_changelog = t.status_changelog
        /\ u.board_columns = t.board_columns
        /\ u.column_statuses = t.column_statuses
        /\ u.commitment_rules = t.commitment_rules
    BY <1>1 DEF Only, TableNames
  <1>9. DOMAIN u = TableNames
    BY <1>1 DEF Only
  <1> QED
    BY <1>2, <1>3, <1>9 DEF RefsOk, check_issue_fk_integrity,
       check_sprint_issues_integrity, check_release_issues_integrity, check_no_orphan_worklogs,
       check_field_values_fk_integrity, check_status_changelog_fk_integrity

LEMMA IssuesKeepRefs ==
    ASSUME NEW t, NEW w, RefsOk(t, w)
    PROVE  RefsOk(CleanIssues(t, w), w)
  <1> DEFINE u == CleanIssues(t, w)
             rows == [i \in CleanableIssues(t, w) |-> w.issues[i].status]
  <1>1. Only(t, u, {"jira_users", "issues"})
    BY Frames DEF RefsOk
  <1>2. u.issues = Upserted(t.issues, rows)
    BY DEF CleanIssues, RefsOk, TableNames
  <1>3. /\ DOMAIN u.issues = DOMAIN t.issues \cup CleanableIssues(t, w)
        /\ \A i \in CleanableIssues(t, w) : u.issues[i] = w.issues[i].status
        /\ \A i \in DOMAIN t.issues \ CleanableIssues(t, w) : u.issues[i] = t.issues[i]
    BY <1>2 DEF Upserted
  <1>4. \A i \in DOMAIN u.issues : i \in Loaded(w) /\ u.issues[i] \in DOMAIN t.issue_statuses
    BY <1>3 DEF CleanableIssues, RefsOk, check_issue_fk_integrity
  <1> SUFFICES RefsOk(u, w)
    OBVIOUS
  <1> HIDE DEF u
  <1>5. /\ u.issue_statuses = t.issue_statuses
        /\ u.sprints = t.sprints
        /\ u.sprint_issues = t.sprint_issues
        /\ u.releases = t.releases
        /\ u.release_issues = t.release_issues
        /\ u.worklogs = t.worklogs
        /\ u.field_keys = t.field_keys
        /\ u.field_values = t.field_values
        /\ u.status_changelog = t.status_changelog
        /\ u.board_columns = t.board_columns
        /\ u.column_statuses = t.column_statuses
        /\ u.commitment_rules = t.commitment_rules
    BY <1>1 DEF Only, TableNames
  <1>9. DOMAIN u = TableNames
    BY <1>1 DEF Only
  <1> QED
    BY <1>3, <1>4, <1>5, <1>9 DEF RefsOk, check_issue_fk_integrity,
       check_sprint_issues_integrity, check_release_issues_integrity, check_no_orphan_worklogs,
       check_field_values_fk_integrity, check_status_changelog_fk_integrity

LEMMA WorklogsKeepRefs ==
    ASSUME NEW t, NEW w, RefsOk(t, w)
    PROVE  RefsOk(CleanWorklogs(t, w), w)
  <1> DEFINE u == CleanWorklogs(t, w)
  <1>1. Only(t, u, {"worklogs"})
    BY Frames DEF RefsOk
  <1>2. u.worklogs = t.worklogs \cup With(t, w, "worklog")
    BY DEF CleanWorklogs, RefsOk, TableNames
  <1>3. With(t, w, "worklog") \subseteq DOMAIN t.issues
    BY DEF With, Joined
  <1> SUFFICES RefsOk(u, w)
    OBVIOUS
  <1> HIDE DEF u
  <1>4. /\ u.issue_statuses = t.issue_statuses
        /\ u.issues = t.issues
        /\ u.sprints = t.sprints
        /\ u.sprint_issues = t.sprint_issues
        /\ u.releases = t.releases
        /\ u.release_issues = t.release_issues
        /\ u.field_keys = t.field_keys
        /\ u.field_values = t.field_values
        /\ u.status_changelog = t.status_changelog
        /\ u.board_columns = t.board_columns
        /\ u.column_statuses = t.column_statuses
        /\ u.commitment_rules = t.commitment_rules
    BY <1>1 DEF Only, TableNames
  <1>9. DOMAIN u = TableNames
    BY <1>1 DEF Only
  <1> QED
    BY <1>2, <1>3, <1>4, <1>9 DEF RefsOk, check_issue_fk_integrity,
       check_sprint_issues_integrity, check_release_issues_integrity, check_no_orphan_worklogs,
       check_field_values_fk_integrity, check_status_changelog_fk_integrity

LEMMA ChangelogKeepsRefs ==
    ASSUME NEW t, NEW w, RefsOk(t, w)
    PROVE  RefsOk(CleanStatusChangelog(t, w), w)
  <1> DEFINE u == CleanStatusChangelog(t, w)
             known == {x \in ChangesIn(t, w) : x[2].to \in DOMAIN t.issue_statuses}
             keys == {<<x[1], x[2].to, x[2].at>> : x \in known}
  <1>1. Only(t, u, {"status_changelog"})
    BY Frames DEF RefsOk
  <1>2. DOMAIN u.status_changelog = DOMAIN t.status_changelog \cup keys
    BY DEF CleanStatusChangelog, RefsOk, TableNames, Upserted
  <1>3. \A k \in keys : k[2] \in DOMAIN t.issue_statuses
    OBVIOUS
  <1> SUFFICES RefsOk(u, w)
    OBVIOUS
  <1> HIDE DEF u
  <1>4. /\ u.issue_statuses = t.issue_statuses
        /\ u.issues = t.issues
        /\ u.sprints = t.sprints
        /\ u.sprint_issues = t.sprint_issues
        /\ u.releases = t.releases
        /\ u.release_issues = t.release_issues
        /\ u.worklogs = t.worklogs
        /\ u.field_keys = t.field_keys
        /\ u.field_values = t.field_values
        /\ u.board_columns = t.board_columns
        /\ u.column_statuses = t.column_statuses
        /\ u.commitment_rules = t.commitment_rules
    BY <1>1 DEF Only, TableNames
  <1>5. DOMAIN u = TableNames
    BY <1>1 DEF Only
  <1>6. check_status_changelog_fk_integrity(u)
    BY <1>2, <1>3, <1>4 DEF RefsOk, check_status_changelog_fk_integrity
  <1> QED
    BY <1>4, <1>5, <1>6 DEF RefsOk, check_issue_fk_integrity,
       check_sprint_issues_integrity, check_release_issues_integrity, check_no_orphan_worklogs,
       check_field_values_fk_integrity

LEMMA ColumnsKeepRefs ==
    ASSUME NEW t, NEW w, RefsOk(t, w)
    PROVE  RefsOk(CleanBoardColumns(t, w), w) /\ RefsOk(CleanColumnStatuses(t, w), w)
  <1>1. RefsOk(CleanBoardColumns(t, w), w)
    <2> DEFINE u == CleanBoardColumns(t, w)
    <2>1. Only(t, u, {"board_columns", "column_statuses", "rebuilds", "commitment_rules"})
      BY Frames DEF RefsOk
    <2>2. \/ u = t
          \/ u.column_statuses = {} /\ u.commitment_rules = Surviving(t.commitment_rules, u.board_columns)
      BY DEF CleanBoardColumns, RefsOk, TableNames
    <2> SUFFICES RefsOk(u, w)
      OBVIOUS
    <2> HIDE DEF u
    <2>3. CASE u = t
      BY <2>3
    <2>5. /\ u.issue_statuses = t.issue_statuses
          /\ u.issues = t.issues
          /\ u.sprints = t.sprints
          /\ u.sprint_issues = t.sprint_issues
          /\ u.releases = t.releases
          /\ u.release_issues = t.release_issues
          /\ u.worklogs = t.worklogs
          /\ u.field_keys = t.field_keys
          /\ u.field_values = t.field_values
          /\ u.status_changelog = t.status_changelog
      BY <2>1 DEF Only, TableNames
    <2>6. DOMAIN u = TableNames
      BY <2>1 DEF Only
    <2>4. CASE u.column_statuses = {} /\ u.commitment_rules = Surviving(t.commitment_rules, u.board_columns)
      BY <2>4, <2>5, <2>6 DEF RefsOk, Surviving, check_issue_fk_integrity,
         check_sprint_issues_integrity, check_release_issues_integrity, check_no_orphan_worklogs,
         check_field_values_fk_integrity, check_status_changelog_fk_integrity
    <2> QED
      BY <2>2, <2>3, <2>4
  <1>2. RefsOk(CleanColumnStatuses(t, w), w)
    <2> DEFINE u == CleanColumnStatuses(t, w)
               new == UNION {{<<col, s>> : s \in w.columns[col[1]] \cap DOMAIN t.issue_statuses} :
                             col \in {c \in t.board_columns : c[1] \in DOMAIN w.columns}}
    <2>1. Only(t, u, {"column_statuses"})
      BY Frames DEF RefsOk
    <2>2. u.column_statuses = t.column_statuses \cup new
      BY DEF CleanColumnStatuses, RefsOk, TableNames
    <2>3. \A c \in new : c[1] \in t.board_columns
      OBVIOUS
    <2> SUFFICES RefsOk(u, w)
      OBVIOUS
    <2> HIDE DEF u, new
    <2>4. /\ u.issue_statuses = t.issue_statuses
          /\ u.issues = t.issues
          /\ u.sprints = t.sprints
          /\ u.sprint_issues = t.sprint_issues
          /\ u.releases = t.releases
          /\ u.release_issues = t.release_issues
          /\ u.worklogs = t.worklogs
          /\ u.field_keys = t.field_keys
          /\ u.field_values = t.field_values
          /\ u.status_changelog = t.status_changelog
          /\ u.board_columns = t.board_columns
          /\ u.commitment_rules = t.commitment_rules
      BY <2>1 DEF Only, TableNames
    <2>5. DOMAIN u = TableNames
      BY <2>1 DEF Only
    <2> QED
      BY <2>2, <2>3, <2>4, <2>5 DEF RefsOk, check_issue_fk_integrity,
         check_sprint_issues_integrity, check_release_issues_integrity, check_no_orphan_worklogs,
         check_field_values_fk_integrity, check_status_changelog_fk_integrity
  <1> QED
    BY <1>1, <1>2

LEMMA KnownEventsRefs ==
    ASSUME NEW events, NEW t, NEW table
    PROVE  DOMAIN Members(KnownEvents(events, t, table)) \subseteq (DOMAIN table) \X (DOMAIN t.issues)
  BY DEF Members, KnownEvents

LEMMA SprintsKeepRefs ==
    ASSUME NEW t, NEW w, RefsOk(t, w)
    PROVE  /\ RefsOk(CleanSprints(t, w), w) /\ RefsOk(CleanSprintIssues(t, w), w)
           /\ RefsOk(CleanReleases(t, w), w) /\ RefsOk(CleanReleaseIssues(t, w), w)
  <1>1. /\ Only(t, CleanSprints(t, w), {"sprints"})
        /\ Only(t, CleanSprintIssues(t, w), {"sprint_issues"})
        /\ Only(t, CleanReleases(t, w), {"releases"})
        /\ Only(t, CleanReleaseIssues(t, w), {"release_issues"})
    BY Frames DEF RefsOk
  <1>2. /\ DOMAIN CleanSprints(t, w).sprints = DOMAIN t.sprints \cup DOMAIN w.sprints
        /\ DOMAIN CleanReleases(t, w).releases = DOMAIN t.releases \cup DOMAIN w.versions
    BY DEF CleanSprints, CleanReleases, Upserted, RefsOk, TableNames
  <1>3. DOMAIN CleanSprintIssues(t, w).sprint_issues \subseteq (DOMAIN t.sprints) \X (DOMAIN t.issues)
    <2> DEFINE events == KnownEvents(WholeSetEvents(w) \cup SnapshotEvents(w), t, t.sprints)
    <2>1. DOMAIN Members(events) \subseteq (DOMAIN t.sprints) \X (DOMAIN t.issues)
      BY KnownEventsRefs
    <2>2. \/ CleanSprintIssues(t, w) = t
          \/ DOMAIN CleanSprintIssues(t, w).sprint_issues
                = DOMAIN t.sprint_issues \cup DOMAIN Members(events)
      BY DEF CleanSprintIssues, Upserted, RefsOk, TableNames
    <2> QED
      BY <2>1, <2>2 DEF RefsOk, check_sprint_issues_integrity
  <1>4. DOMAIN CleanReleaseIssues(t, w).release_issues \subseteq (DOMAIN t.releases) \X (DOMAIN t.issues)
    <2> DEFINE events == KnownEvents(FixEvents(w), t, t.releases)
    <2>1. DOMAIN Members(events) \subseteq (DOMAIN t.releases) \X (DOMAIN t.issues)
      BY KnownEventsRefs
    <2>2. \/ CleanReleaseIssues(t, w) = t
          \/ DOMAIN CleanReleaseIssues(t, w).release_issues
                = DOMAIN t.release_issues \cup DOMAIN Members(events)
      BY DEF CleanReleaseIssues, Upserted, RefsOk, TableNames
    <2> QED
      BY <2>1, <2>2 DEF RefsOk, check_release_issues_integrity
  <1>5. ASSUME NEW u, \/ Only(t, u, {"sprints"}) /\ DOMAIN t.sprints \subseteq DOMAIN u.sprints
                      \/ Only(t, u, {"releases"}) /\ DOMAIN t.releases \subseteq DOMAIN u.releases
                      \/ /\ Only(t, u, {"sprint_issues"})
                         /\ DOMAIN u.sprint_issues \subseteq (DOMAIN t.sprints) \X (DOMAIN t.issues)
                      \/ /\ Only(t, u, {"release_issues"})
                         /\ DOMAIN u.release_issues \subseteq (DOMAIN t.releases) \X (DOMAIN t.issues)
        PROVE  RefsOk(u, w)
    BY <1>5 DEF Only, TableNames, RefsOk, check_issue_fk_integrity,
         check_sprint_issues_integrity, check_release_issues_integrity, check_no_orphan_worklogs,
         check_field_values_fk_integrity, check_status_changelog_fk_integrity
  <1> QED
    BY <1>1, <1>2, <1>3, <1>4, <1>5

LEMMA FieldsKeepRefs ==
    ASSUME NEW t, NEW w, RefsOk(t, w)
    PROVE  /\ RefsOk(CleanFieldKeys(t, w), w) /\ RefsOk(CleanSprintFieldKey(t, w), w)
           /\ RefsOk(CleanFieldValues(t, w), w) /\ RefsOk(CleanSprintValues(t, w), w)
  <1>1. /\ Only(t, CleanFieldKeys(t, w), {"field_keys"})
        /\ Only(t, CleanSprintFieldKey(t, w), {"field_keys"})
        /\ Only(t, CleanFieldValues(t, w), {"field_values"})
        /\ Only(t, CleanSprintValues(t, w), {"field_values"})
    BY Frames DEF RefsOk
  <1>2. /\ t.field_keys \subseteq CleanFieldKeys(t, w).field_keys
        /\ t.field_keys \subseteq CleanSprintFieldKey(t, w).field_keys
    BY DEF CleanFieldKeys, CleanSprintFieldKey, RefsOk, TableNames
  <1>3. ASSUME NEW k \in DOMAIN CleanFieldValues(t, w).field_values
        PROVE  k[2] \in t.field_keys
    BY DEF CleanFieldValues, Upserted, Values, RefsOk, TableNames, check_field_values_fk_integrity
  <1>4. ASSUME NEW k \in DOMAIN CleanSprintValues(t, w).field_values
        PROVE  k[2] \in t.field_keys
    BY DEF CleanSprintValues, Upserted, Values, RefsOk, TableNames, check_field_values_fk_integrity
  <1>5. ASSUME NEW u, \/ Only(t, u, {"field_keys"}) /\ t.field_keys \subseteq u.field_keys
                      \/ /\ Only(t, u, {"field_values"})
                         /\ \A k \in DOMAIN u.field_values : k[2] \in t.field_keys
        PROVE  RefsOk(u, w)
    BY <1>5 DEF Only, TableNames, RefsOk, check_issue_fk_integrity,
         check_sprint_issues_integrity, check_release_issues_integrity, check_no_orphan_worklogs,
         check_field_values_fk_integrity, check_status_changelog_fk_integrity
  <1> QED
    BY <1>1, <1>2, <1>3, <1>4, <1>5

-----------------------------------------------------------------------------
\* Jira.
IssueFields ==
    {"created", "type", "status", "changes", "sprints", "moves", "versions", "fixes", "rows",
     "points", "pointChanges", "assigned"}

JiraFields == {"issues", "statusName", "userName", "sprints", "versions", "columns"}

\* A history has one item at a time, the clock being n.
OneAtATime(items, n) ==
    /\ \A x \in items : x.at \in 1 .. n
    /\ \A x, y \in items : x.at = y.at => x = y

\* The last change of a version is why the issue has it or not.
VersionsOk(issue) ==
    \A f \in issue.fixes :
        /\ f.action \in {"added", "removed"}
        /\ (\A g \in issue.fixes : g.version = f.version => g.at <= f.at) =>
                (f.action = "added" <=> f.version \in issue.versions)

IssueOk(issue, n) ==
    /\ issue.status \in StatusIds
    /\ \A c \in issue.changes : ChangeOk(c)
    /\ OneAtATime(issue.changes, n) /\ OneAtATime(issue.fixes, n)
    /\ VersionsOk(issue)

JiraInv ==
    /\ edits \in Nat /\ DOMAIN jira = JiraFields
    /\ jira.statusName \in [StatusIds -> Names]
    /\ jira.sprints \in [Sprints -> {"future", "active", "closed"}]
    /\ jira.versions \in [Versions -> {"unreleased", "released"}]
    /\ jira.columns \in [Columns -> SUBSET StatusIds]
    /\ DOMAIN jira.issues \subseteq world.issues /\ IsFiniteSet(DOMAIN jira.issues)
    /\ touched \subseteq DOMAIN jira.issues
    /\ \A i \in DOMAIN jira.issues :
            DOMAIN jira.issues[i] = IssueFields /\ IssueOk(jira.issues[i], edits)

\* A new item comes after all others.
LEMMA NewItem ==
    ASSUME NEW n \in Nat, NEW items, OneAtATime(items, n), NEW x, x.at = n + 1
    PROVE  OneAtATime(items \cup {x}, n + 1)
  BY DEF OneAtATime

LEMMA ClockMayAdvance ==
    ASSUME NEW n \in Nat, NEW issue, IssueOk(issue, n)
    PROVE  IssueOk(issue, n + 1)
  BY DEF IssueOk, OneAtATime

LEMMA JiraInit == Init => JiraInv
  <1> SUFFICES ASSUME Init
               PROVE  JiraInv
    OBVIOUS
  <1>1. IsFiniteSet({})
    BY FS_EmptySet
  <1>2. /\ edits = 0 /\ touched = {} /\ DOMAIN jira = JiraFields
        /\ jira.issues = <<>> /\ jira.statusName = [s \in StatusIds |-> s]
        /\ jira.sprints = [s \in Sprints |-> "future"]
        /\ jira.versions = [v \in Versions |-> "unreleased"]
        /\ jira.columns \in [Columns -> SUBSET StatusIds]
    BY DEF Init, JiraFields
  <1>3. DOMAIN jira.issues = {}
    BY <1>2
  <1> QED
    BY <1>1, <1>2, <1>3, CleanLayerAssumption DEF JiraInv

\* An edit of an issue, which keeps what IssueOk says, and of nothing else.
LEMMA IssueEdit ==
    ASSUME JiraInv, world' = world, edits' = edits + 1, NEW i, NEW issue,
           DOMAIN issue = IssueFields, IssueOk(issue, edits + 1), Change(i, issue)
    PROVE  JiraInv'
  <1>1. /\ i \in DOMAIN jira.issues /\ jira' = [jira EXCEPT !.issues[i] = issue]
        /\ touched' = touched \cup {i}
    BY DEF Change
  <1>2. /\ DOMAIN jira' = JiraFields /\ jira'.statusName = jira.statusName
        /\ jira'.sprints = jira.sprints /\ jira'.versions = jira.versions
        /\ jira'.columns = jira.columns /\ jira'.issues = [jira.issues EXCEPT ![i] = issue]
    BY <1>1 DEF JiraInv, JiraFields
  <1>3. ASSUME NEW j \in DOMAIN jira'.issues
        PROVE  DOMAIN jira'.issues[j] = IssueFields /\ IssueOk(jira'.issues[j], edits')
    <2>1. CASE j = i
      BY <1>1, <1>2, <2>1
    <2>2. CASE j # i
      BY <1>2, <2>2, ClockMayAdvance DEF JiraInv
    <2> QED
      BY <2>1, <2>2
  <1>4. DOMAIN jira'.issues = DOMAIN jira.issues
    BY <1>2
  <1> QED
    BY <1>1, <1>2, <1>3, <1>4 DEF JiraInv

LEMMA FirstStatus == InitialStatus \in StatusIds
  <1>1. \E s \in StatusIds : \A r \in StatusIds : s <= r
    BY CleanLayerAssumption, StatusIdsAreNumbers, LeastNatural
  <1> QED
    BY <1>1 DEF InitialStatus

LEMMA PeopleKeepJira ==
    ASSUME JiraInv, People
    PROVE  JiraInv'
  <1>1. ASSUME NEW i \in world.issues, NEW p, NEW v, CreateIssue(i, p, v)
        PROVE  JiraInv'
    <2> DEFINE issue == [created |-> Now, type |-> <<1, "Task">>, status |-> InitialStatus,
                         changes |-> {}, sprints |-> p, moves |-> {}, versions |-> v,
                         fixes |-> {}, rows |-> {}, points |-> Nothing, pointChanges |-> {},
                         assigned |-> FALSE]
    <2>1. /\ i \notin DOMAIN jira.issues /\ world' = world /\ edits' = edits + 1
          /\ jira' = [jira EXCEPT !.issues = Upserted(@, [j \in {i} |-> issue])]
          /\ touched' = touched \cup {i}
      BY <1>1 DEF CreateIssue, Edit
    <2>2. DOMAIN issue = IssueFields /\ IssueOk(issue, edits + 1)
      BY FirstStatus DEF IssueFields, IssueOk, OneAtATime, VersionsOk
    <2> HIDE DEF issue
    <2>3. /\ DOMAIN jira' = JiraFields /\ jira'.statusName = jira.statusName
          /\ jira'.sprints = jira.sprints /\ jira'.versions = jira.versions
          /\ jira'.columns = jira.columns
          /\ jira'.issues = Upserted(jira.issues, [j \in {i} |-> issue])
      BY <2>1 DEF JiraInv, JiraFields
    <2>4. /\ DOMAIN jira'.issues = DOMAIN jira.issues \cup {i}
          /\ jira'.issues[i] = issue
          /\ \A j \in DOMAIN jira.issues : jira'.issues[j] = jira.issues[j]
      BY <2>1, <2>3 DEF Upserted
    <2>5. IsFiniteSet(DOMAIN jira'.issues)
      BY <2>4, FS_AddElement DEF JiraInv
    <2>6. ASSUME NEW j \in DOMAIN jira'.issues
          PROVE  DOMAIN jira'.issues[j] = IssueFields /\ IssueOk(jira'.issues[j], edits')
      <3>1. CASE j = i
        BY <2>1, <2>2, <2>4, <3>1
      <3>2. CASE j # i
        BY <2>1, <2>4, <3>2, ClockMayAdvance DEF JiraInv
      <3> QED
        BY <3>1, <3>2
    <2> QED
      BY <2>1, <2>3, <2>4, <2>5, <2>6 DEF JiraInv
  <1>2. ASSUME NEW i \in world.issues, NEW s \in StatusIds, MoveIssue(i, s)
        PROVE  JiraInv'
    <2> DEFINE old == jira.issues[i]
               change == [at |-> Now, from |-> old.status, to |-> s, name |-> jira.statusName[s]]
               new == [old EXCEPT !.status = s, !.changes = @ \cup {change}]
    <2>1. /\ i \in DOMAIN jira.issues /\ world' = world /\ edits' = edits + 1 /\ Change(i, new)
      BY <1>2 DEF MoveIssue, Edit
    <2>2. edits \in Nat /\ DOMAIN old = IssueFields /\ IssueOk(old, edits)
      BY <2>1 DEF JiraInv
    <2>3. ChangeOk(change) /\ change.at = edits + 1
      BY <2>2 DEF ChangeOk, Now, IssueOk, JiraInv
    <2>4. IssueOk(old, edits + 1)
      BY <2>2, ClockMayAdvance
    <2>5. OneAtATime(old.changes \cup {change}, edits + 1)
      BY <2>2, <2>3, NewItem DEF IssueOk
    <2>6. DOMAIN new = IssueFields /\ new.status = s /\ new.changes = old.changes \cup {change}
          /\ new.fixes = old.fixes /\ new.versions = old.versions
      BY <2>2 DEF IssueFields
    <2> HIDE DEF old, change, new
    <2>7. IssueOk(new, edits + 1)
      BY <2>3, <2>4, <2>5, <2>6 DEF IssueOk, VersionsOk
    <2> QED
      BY <2>1, <2>6, <2>7, IssueEdit
  <1>3. ASSUME NEW i \in world.issues, NEW v \in Versions, NEW a \in {"added", "removed"},
               FixIssue(i, v, a)
        PROVE  JiraInv'
    <2> DEFINE old == jira.issues[i]
               fix == [at |-> Now, version |-> v, action |-> a]
               new == [old EXCEPT
                        !.versions = IF a = "added" THEN @ \cup {v} ELSE @ \ {v},
                        !.fixes = @ \cup {fix}]
    <2>1. /\ i \in DOMAIN jira.issues /\ world' = world /\ edits' = edits + 1 /\ Change(i, new)
      BY <1>3 DEF FixIssue, Edit
    <2>2. edits \in Nat /\ DOMAIN old = IssueFields /\ IssueOk(old, edits)
      BY <2>1 DEF JiraInv
    <2>3. fix.at = edits + 1 /\ fix.version = v /\ fix.action = a
      BY DEF Now
    <2>4. IssueOk(old, edits + 1)
      BY <2>2, ClockMayAdvance
    <2>5. OneAtATime(old.fixes \cup {fix}, edits + 1)
      BY <2>2, <2>3, NewItem DEF IssueOk
    <2>6. DOMAIN new = IssueFields /\ new.status = old.status /\ new.changes = old.changes
          /\ new.fixes = old.fixes \cup {fix}
          /\ new.versions = IF a = "added" THEN old.versions \cup {v} ELSE old.versions \ {v}
      BY <2>2 DEF IssueFields
    <2> HIDE DEF old, fix, new
    <2>7. VersionsOk(new)
      <3> SUFFICES ASSUME NEW f \in new.fixes
                   PROVE  /\ f.action \in {"added", "removed"}
                          /\ (\A g \in new.fixes : g.version = f.version => g.at <= f.at) =>
                                (f.action = "added" <=> f.version \in new.versions)
        BY DEF VersionsOk
      <3>1. CASE f = fix
        BY <2>3, <2>6, <3>1
      <3>2. CASE f # fix
        <4>1. f \in old.fixes /\ f.at \in 1 .. edits
          BY <2>2, <2>6, <3>2 DEF IssueOk, OneAtATime
        <4>2. f.version = v => ~(fix.at <= f.at)
          BY <2>2, <2>3, <4>1
        <4>3. f.version # v => (f.version \in new.versions <=> f.version \in old.versions)
          BY <2>6
        <4> QED
          BY <2>2, <2>3, <2>6, <4>1, <4>2, <4>3 DEF IssueOk, VersionsOk
      <3> QED
        BY <3>1, <3>2
    <2>8. IssueOk(new, edits + 1)
      BY <2>4, <2>5, <2>6, <2>7 DEF IssueOk
    <2> QED
      BY <2>1, <2>6, <2>8, IssueEdit
  <1>4. ASSUME NEW i \in world.issues,
               \/ \E p \in {{}} \cup {{x} : x \in Sprints} : PlanIssue(i, p)
               \/ \E kind \in {"label", "link", "worklog", "comment"} : ToggleRow(i, kind)
               \/ \E points \in {Nothing, 3, 5} : EstimateIssue(i, points)
               \/ AssignIssue(i)
        PROVE  JiraInv'
    <2>1. i \in DOMAIN jira.issues /\ world' = world /\ edits' = edits + 1
      BY <1>4 DEF PlanIssue, ToggleRow, EstimateIssue, AssignIssue, Edit
    <2> DEFINE old == jira.issues[i]
    <2>2. DOMAIN old = IssueFields /\ IssueOk(old, edits + 1)
      BY <2>1, ClockMayAdvance DEF JiraInv
    <2>3. \E new : /\ Change(i, new) /\ DOMAIN new = IssueFields /\ new.status = old.status
                   /\ new.changes = old.changes /\ new.fixes = old.fixes
                   /\ new.versions = old.versions
      <3> DEFINE Same(new) == /\ DOMAIN new = IssueFields /\ new.status = old.status
                              /\ new.changes = old.changes /\ new.fixes = old.fixes
                              /\ new.versions = old.versions
      <3>1. ASSUME NEW p, PlanIssue(i, p)
            PROVE  \E new : Change(i, new) /\ Same(new)
        <4> DEFINE to == (old.sprints \ Open(old.sprints, jira.sprints)) \cup p
                   new == [old EXCEPT !.sprints = to,
                            !.moves = @ \cup {[at |-> Now, from |-> old.sprints, to |-> to]}]
        <4>1. Change(i, new)
          BY <3>1 DEF PlanIssue
        <4>2. Same(new)
          BY <2>2 DEF IssueFields
        <4> QED
          BY <4>1, <4>2
      <3>2. ASSUME NEW kind, ToggleRow(i, kind)
            PROVE  \E new : Change(i, new) /\ Same(new)
        <4> DEFINE new == [old EXCEPT
                            !.rows = IF kind \in @ THEN @ \ {kind} ELSE @ \cup {kind}]
        <4>1. Change(i, new)
          BY <3>2 DEF ToggleRow
        <4>2. Same(new)
          BY <2>2 DEF IssueFields
        <4> QED
          BY <4>1, <4>2
      <3>3. ASSUME NEW points, EstimateIssue(i, points)
            PROVE  \E new : Change(i, new) /\ Same(new)
        <4> DEFINE new == [old EXCEPT !.points = points,
                !.pointChanges = @ \cup {[at |-> Now, from |-> old.points, to |-> points]}]
        <4>1. Change(i, new)
          BY <3>3 DEF EstimateIssue
        <4>2. Same(new)
          BY <2>2 DEF IssueFields
        <4> QED
          BY <4>1, <4>2
      <3>4. ASSUME AssignIssue(i)
            PROVE  \E new : Change(i, new) /\ Same(new)
        <4> DEFINE new == [old EXCEPT !.assigned = TRUE]
        <4>1. Change(i, new)
          BY <3>4 DEF AssignIssue
        <4>2. Same(new)
          BY <2>2 DEF IssueFields
        <4> QED
          BY <4>1, <4>2
      <3> QED
        BY <1>4, <3>1, <3>2, <3>3, <3>4
    <2>4. PICK new : /\ Change(i, new) /\ DOMAIN new = IssueFields /\ new.status = old.status
                     /\ new.changes = old.changes /\ new.fixes = old.fixes
                     /\ new.versions = old.versions
      BY <2>3
    <2> HIDE DEF old
    <2>5. IssueOk(new, edits + 1)
      BY <2>2, <2>4 DEF IssueOk, VersionsOk
    <2> QED
      BY <2>1, <2>4, <2>5, IssueEdit
  <1>5. ASSUME \/ \E s \in StatusIds, n \in Names : RenameStatus(s, n)
               \/ RenameUser
               \/ \E s \in Sprints : StartSprint(s) \/ CloseSprint(s)
               \/ \E v \in Versions : ReleaseVersion(v)
               \/ \E c \in Columns, s \in StatusIds : ConfigureColumn(c, s)
        PROVE  JiraInv'
    <2>1. world' = world /\ edits' = edits + 1 /\ touched' = touched
      BY <1>5 DEF RenameStatus, RenameUser, StartSprint, CloseSprint, ReleaseVersion,
                  ConfigureColumn, Edit
    <2>2. /\ DOMAIN jira' = JiraFields /\ jira'.issues = jira.issues
          /\ jira'.statusName \in [StatusIds -> Names]
          /\ jira'.sprints \in [Sprints -> {"future", "active", "closed"}]
          /\ jira'.versions \in [Versions -> {"unreleased", "released"}]
          /\ jira'.columns \in [Columns -> SUBSET StatusIds]
      BY <1>5 DEF RenameStatus, RenameUser, StartSprint, CloseSprint, ReleaseVersion,
                  ConfigureColumn, JiraInv, JiraFields
    <2> QED
      BY <2>1, <2>2, ClockMayAdvance DEF JiraInv
  <1>6. ASSUME \/ \E a, b \in tables.board_columns : SaveCommitmentRule(a, b)
               \/ \E rule \in tables.commitment_rules : DeleteCommitmentRule(rule)
        PROVE  JiraInv'
    <2>1. UNCHANGED <<world, jira, touched>> /\ edits' = edits + 1
      BY <1>6 DEF SaveCommitmentRule, DeleteCommitmentRule, RuleEdit
    <2> QED
      BY <2>1, ClockMayAdvance DEF JiraInv
  <1> QED
    BY <1>1, <1>2, <1>3, <1>4, <1>5, <1>6 DEF People

-----------------------------------------------------------------------------
\* The raw tables: issues as they were when they were fetched, and the nested tables and
\* columns they need.
RawFields == {"issues", "tables", "sprints", "versions", "columns"}

RawInv ==
    /\ DOMAIN raw = RawFields
    /\ Loaded(raw) \subseteq DOMAIN jira.issues
    /\ \A i \in Loaded(raw) :
            /\ IssueOk(raw.issues[i], edits) /\ raw.issues[i].statusName \in Names
            /\ Nested(raw.issues[i]) \subseteq raw.tables
    /\ raw.sprints = <<>> \/ raw.sprints \in [Sprints -> {"future", "active", "closed"}]
    /\ raw.versions = <<>> \/ raw.versions \in [Versions -> {"unreleased", "released"}]
    /\ raw.columns = <<>> \/ raw.columns \in [Columns -> SUBSET StatusIds]

LEMMA RawInit == Init => RawInv
  <1> SUFFICES ASSUME Init
               PROVE  RawInv
    OBVIOUS
  <1>1. /\ DOMAIN raw = RawFields /\ raw.issues = <<>> /\ raw.sprints = <<>>
        /\ raw.versions = <<>> /\ raw.columns = <<>>
    BY DEF Init, NewRaw, RawFields
  <1>2. Loaded(raw) = {}
    BY <1>1 DEF Loaded
  <1> QED
    BY <1>1, <1>2 DEF RawInv

\* An issue that is fetched is as it is in Jira.
LEMMA FetchedIsTheIssue ==
    ASSUME JiraInv, NEW i \in DOMAIN jira.issues
    PROVE  LET x == Fetched(i)
           IN  /\ \A f \in IssueFields : x[f] = jira.issues[i][f]
               /\ x.statusName = jira.statusName[jira.issues[i].status]
               /\ x.assignee \in {Nothing, <<"ann", jira.userName>>}
  <1> DEFINE issue == jira.issues[i]
             more == [statusName |-> jira.statusName[issue.status],
                      assignee |-> IF issue.assigned THEN <<"ann", jira.userName>> ELSE Nothing]
             x == Fetched(i)
  <1>1. DOMAIN issue = IssueFields /\ x = Upserted(issue, more)
    BY DEF JiraInv, Fetched
  <1>2. DOMAIN more = {"statusName", "assignee"} /\ more.statusName = jira.statusName[issue.status]
        /\ more.assignee \in {Nothing, <<"ann", jira.userName>>}
    OBVIOUS
  <1> HIDE DEF issue, more, x
  <1>3. /\ \A f \in {"statusName", "assignee"} : x[f] = more[f]
        /\ \A f \in IssueFields \ {"statusName", "assignee"} : x[f] = issue[f]
    <2>1. /\ \A f \in DOMAIN more : Upserted(issue, more)[f] = more[f]
          /\ \A f \in DOMAIN issue \ DOMAIN more : Upserted(issue, more)[f] = issue[f]
      BY DEF Upserted
    <2> QED
      BY <1>1, <1>2, <2>1
  <1>4. \A f \in IssueFields : x[f] = issue[f]
    BY <1>3 DEF IssueFields
  <1> QED
    BY <1>2, <1>3, <1>4 DEF x, issue

\* What IssueOk and Nested say depends on the fields of Jira alone.
LEMMA SameFields ==
    ASSUME NEW x, NEW y, \A f \in IssueFields : x[f] = y[f], NEW n
    PROVE  (IssueOk(x, n) <=> IssueOk(y, n)) /\ Nested(x) = Nested(y)
  <1>1. /\ x.status = y.status /\ x.changes = y.changes /\ x.fixes = y.fixes
        /\ x.versions = y.versions /\ x.moves = y.moves /\ x.pointChanges = y.pointChanges
        /\ x.sprints = y.sprints /\ x.points = y.points
    BY DEF IssueFields
  <1> QED
    BY <1>1 DEF IssueOk, VersionsOk, Nested

LEMMA IssuesLoaded ==
    ASSUME JiraInv, RawInv, LoadIssues
    PROVE  RawInv' /\ Loaded(raw) \subseteq Loaded(raw') /\ JiraInv'
  <1>1. /\ UNCHANGED <<world, jira, tables, edits>> /\ touched' = {}
        /\ raw' = [raw EXCEPT
            !.issues = Upserted(@, [i \in touched |-> Fetched(i)]),
            !.tables = @ \cup UNION {Nested(jira.issues[i]) : i \in touched}]
    BY DEF LoadIssues, Load
  <1>2. JiraInv'
    BY <1>1 DEF JiraInv
  <1>3. /\ DOMAIN raw' = RawFields /\ raw'.sprints = raw.sprints
        /\ raw'.versions = raw.versions /\ raw'.columns = raw.columns
        /\ raw'.issues = Upserted(raw.issues, [i \in touched |-> Fetched(i)])
        /\ raw'.tables = raw.tables \cup UNION {Nested(jira.issues[i]) : i \in touched}
    BY <1>1 DEF RawInv, RawFields
  <1>4. /\ Loaded(raw') = Loaded(raw) \cup touched
        /\ \A i \in touched : raw'.issues[i] = Fetched(i)
        /\ \A i \in Loaded(raw) \ touched : raw'.issues[i] = raw.issues[i]
    BY <1>3 DEF Loaded, Upserted
  <1>5. ASSUME NEW i \in Loaded(raw')
        PROVE  /\ IssueOk(raw'.issues[i], edits') /\ raw'.issues[i].statusName \in Names
               /\ Nested(raw'.issues[i]) \subseteq raw'.tables
    <2>1. CASE i \in touched
      <3>1. /\ i \in DOMAIN jira.issues /\ IssueOk(jira.issues[i], edits)
            /\ jira.issues[i].status \in StatusIds /\ jira.statusName \in [StatusIds -> Names]
        BY <2>1 DEF JiraInv, IssueOk
      <3>2. /\ \A f \in IssueFields : Fetched(i)[f] = jira.issues[i][f]
            /\ Fetched(i).statusName \in Names
        BY <3>1, FetchedIsTheIssue
      <3>3. IssueOk(Fetched(i), edits) /\ Nested(Fetched(i)) = Nested(jira.issues[i])
        BY <3>1, <3>2, SameFields
      <3> QED
        BY <1>1, <1>3, <1>4, <2>1, <3>2, <3>3
    <2>2. CASE i \notin touched
      BY <1>1, <1>3, <1>4, <2>2 DEF RawInv
    <2> QED
      BY <2>1, <2>2
  <1>6. Loaded(raw') \subseteq DOMAIN jira'.issues
    BY <1>1, <1>4 DEF RawInv, JiraInv
  <1> QED
    BY <1>2, <1>3, <1>4, <1>5, <1>6 DEF RawInv

LEMMA TablesLoaded ==
    ASSUME JiraInv, RawInv, LoadTables
    PROVE  RawInv' /\ raw'.issues = raw.issues /\ raw'.tables = raw.tables /\ JiraInv'
  <1>1. /\ UNCHANGED <<world, jira, tables, edits, touched>>
        /\ raw' = [raw EXCEPT !.sprints = jira.sprints, !.versions = jira.versions,
                              !.columns = jira.columns]
    BY DEF LoadTables, Load
  <1>2. JiraInv'
    BY <1>1 DEF JiraInv
  <1>3. /\ DOMAIN raw' = RawFields /\ raw'.sprints = jira.sprints
        /\ raw'.versions = jira.versions /\ raw'.columns = jira.columns
        /\ raw'.issues = raw.issues /\ raw'.tables = raw.tables
    BY <1>1 DEF RawInv, RawFields
  <1> QED
    BY <1>1, <1>2, <1>3 DEF RawInv, JiraInv, Loaded

\* People do not touch the raw tables.
LEMMA PeopleKeepRaw ==
    ASSUME JiraInv, RawInv, People
    PROVE  RawInv' /\ UNCHANGED <<world, raw, runs, loads, diffs>>
  <1>1. UNCHANGED <<world, raw, runs, loads, diffs>> /\ edits' = edits + 1
    BY DEF People, CreateIssue, MoveIssue, PlanIssue, FixIssue, ToggleRow, EstimateIssue,
           AssignIssue, RenameStatus, RenameUser, StartSprint, CloseSprint, ReleaseVersion,
           ConfigureColumn, SaveCommitmentRule, DeleteCommitmentRule, Edit, RuleEdit
  <1>2. DOMAIN jira.issues \subseteq DOMAIN jira'.issues
    <2>1. ASSUME NEW i, NEW p, NEW v, CreateIssue(i, p, v)
          PROVE  DOMAIN jira.issues \subseteq DOMAIN jira'.issues
      BY <2>1 DEF CreateIssue, Upserted, JiraInv, JiraFields
    <2>2. ASSUME NEW i, NEW issue, Change(i, issue)
          PROVE  DOMAIN jira.issues = DOMAIN jira'.issues
      BY <2>2 DEF Change, JiraInv, JiraFields
    <2>3. ASSUME NEW i \in world.issues,
                 \/ \E s \in StatusIds : MoveIssue(i, s)
                 \/ \E p \in {{}} \cup {{x} : x \in Sprints} : PlanIssue(i, p)
                 \/ \E v \in Versions, a \in {"added", "removed"} : FixIssue(i, v, a)
                 \/ \E kind \in {"label", "link", "worklog", "comment"} : ToggleRow(i, kind)
                 \/ \E points \in {Nothing, 3, 5} : EstimateIssue(i, points)
                 \/ AssignIssue(i)
          PROVE  DOMAIN jira.issues = DOMAIN jira'.issues
      BY <2>2, <2>3 DEF MoveIssue, PlanIssue, FixIssue, ToggleRow, EstimateIssue, AssignIssue
    <2>4. ASSUME \/ \E s \in StatusIds, n \in Names : RenameStatus(s, n)
                 \/ RenameUser
                 \/ \E s \in Sprints : StartSprint(s) \/ CloseSprint(s)
                 \/ \E v \in Versions : ReleaseVersion(v)
                 \/ \E c \in Columns, s \in StatusIds : ConfigureColumn(c, s)
          PROVE  jira'.issues = jira.issues
      BY <2>4 DEF RenameStatus, RenameUser, StartSprint, CloseSprint, ReleaseVersion,
                  ConfigureColumn, JiraInv, JiraFields
    <2>5. ASSUME \/ \E a, b \in tables.board_columns : SaveCommitmentRule(a, b)
                 \/ \E rule \in tables.commitment_rules : DeleteCommitmentRule(rule)
          PROVE  jira' = jira
      BY <2>5 DEF SaveCommitmentRule, DeleteCommitmentRule, RuleEdit
    <2> QED
      BY <2>1, <2>3, <2>4, <2>5 DEF People
  <1> QED
    BY <1>1, <1>2, ClockMayAdvance DEF RawInv, JiraInv

-----------------------------------------------------------------------------
\* The runs.
RunFields == {"done", "failed", "stale", "diff"}

IsSequence(f) == f \in Seq({f[k] : k \in DOMAIN f})

RunsInv ==
    /\ IsSequence(runs) /\ diffs \in Nat
    /\ \A r \in DOMAIN runs :
            /\ DOMAIN runs[r] = RunFields /\ runs[r].stale \in BOOLEAN
            /\ runs[r].done \subseteq world.steps \ runs[r].failed
            /\ DOMAIN runs[r].diff \subseteq Logs

LEMMA FunctionsAreSequences ==
    ASSUME NEW n \in Nat, NEW f, f = [k \in 1 .. n |-> f[k]]
    PROVE  IsSequence(f)
  <1> DEFINE S == {f[k] : k \in DOMAIN f}
  <1>1. f \in [1 .. n -> S]
    OBVIOUS
  <1> HIDE DEF S
  <1>2. f \in Seq(S)
    BY <1>1
  <1> QED
    BY <1>2 DEF IsSequence, S

LEMMA SequenceDomain ==
    ASSUME NEW f, IsSequence(f)
    PROVE  /\ Len(f) \in Nat /\ DOMAIN f = 1 .. Len(f)
           /\ f = [k \in 1 .. Len(f) |-> f[k]]
  BY DEF IsSequence

LEMMA SequencesAreFunctions ==
    ASSUME NEW T, NEW g \in Seq(T)
    PROVE  g = [k \in 1 .. Len(g) |-> g[k]]
  OBVIOUS

LEMMA AppendedRun ==
    ASSUME NEW f, IsSequence(f), NEW x, NEW g, g = Append(f, x)
    PROVE  /\ IsSequence(g) /\ DOMAIN g = DOMAIN f \cup {Len(f) + 1}
           /\ \A k \in DOMAIN f : g[k] = f[k]
           /\ g[Len(f) + 1] = x /\ Len(f) + 1 \notin DOMAIN f
  <1> DEFINE S == {f[k] : k \in DOMAIN f}
             T == S \cup {x}
  <1>1. f \in Seq(T)
    <2>1. f \in Seq(S) /\ S \subseteq T
      BY DEF IsSequence
    <2> HIDE DEF S, T
    <2> QED
      BY <2>1
  <1> HIDE DEF S, T
  <1>2. x \in T
    BY DEF T
  <1>3. g \in Seq(T) /\ Len(g) = Len(f) + 1 /\ Len(f) \in Nat
        /\ (\A k \in 1 .. Len(f) : g[k] = f[k]) /\ g[Len(f) + 1] = x
    BY <1>1, <1>2
  <1>4. DOMAIN f = 1 .. Len(f) /\ DOMAIN g = 1 .. Len(f) + 1
    BY <1>1, <1>3
  <1>5. g = [k \in 1 .. Len(f) + 1 |-> g[k]]
    <2>1. g = [k \in 1 .. Len(g) |-> g[k]]
      BY <1>3, SequencesAreFunctions
    <2> QED
      BY <1>3, <2>1
  <1>6. IsSequence(g)
    BY <1>3, <1>5, FunctionsAreSequences
  <1> QED
    BY <1>3, <1>4, <1>6

LEMMA RunsInit == Init => RunsInv
  <1> SUFFICES ASSUME Init
               PROVE  RunsInv
    OBVIOUS
  <1>1. runs = <<>> /\ diffs = 0
    BY DEF Init
  <1> QED
    BY <1>1 DEF RunsInv, IsSequence

\* One run changes.
LEMMA RunChanges ==
    ASSUME RunsInv, world' = world, diffs' \in Nat, NEW r \in DOMAIN runs, NEW x,
           runs' = [runs EXCEPT ![r] = x], DOMAIN x = RunFields, x.stale \in BOOLEAN,
           x.done \subseteq world.steps \ x.failed, DOMAIN x.diff \subseteq Logs
    PROVE  /\ RunsInv' /\ DOMAIN runs' = DOMAIN runs /\ runs'[r] = x
           /\ \A k \in DOMAIN runs \ {r} : runs'[k] = runs[k]
  <1>1. /\ DOMAIN runs' = DOMAIN runs /\ runs'[r] = x
        /\ \A k \in DOMAIN runs \ {r} : runs'[k] = runs[k]
    OBVIOUS
  <1>2. Len(runs) \in Nat /\ DOMAIN runs = 1 .. Len(runs)
    BY SequenceDomain DEF RunsInv
  <1>3. runs' = [k \in 1 .. Len(runs) |-> runs'[k]]
    BY <1>1, <1>2
  <1>4. IsSequence(runs')
    BY <1>2, <1>3, FunctionsAreSequences
  <1> QED
    BY <1>1, <1>4 DEF RunsInv

LEMMA StartKeepsRuns ==
    ASSUME RunsInv, StartRun
    PROVE  /\ RunsInv' /\ UNCHANGED <<world, jira, touched, raw, tables, edits, loads, diffs>>
           /\ \E n : /\ DOMAIN runs' = DOMAIN runs \cup {n} /\ n \notin DOMAIN runs
                     /\ runs'[n].done = {} /\ runs'[n].diff = <<>>
                     /\ \A k \in DOMAIN runs : runs'[k] = runs[k]
  <1> DEFINE new == [done |-> {}, failed |-> {}, stale |-> FALSE, diff |-> <<>>]
             n == Len(runs) + 1
  <1>1. /\ UNCHANGED <<world, jira, touched, raw, tables, edits, loads, diffs>>
        /\ runs' = Append(runs, new)
    BY DEF StartRun
  <1>2. /\ DOMAIN new = RunFields /\ new.stale \in BOOLEAN /\ new.done = {}
        /\ new.diff = <<>> /\ DOMAIN new.diff = {}
    BY DEF RunFields
  <1> HIDE DEF new
  <1>3. /\ IsSequence(runs') /\ DOMAIN runs' = DOMAIN runs \cup {n}
        /\ \A k \in DOMAIN runs : runs'[k] = runs[k]
        /\ runs'[n] = new /\ n \notin DOMAIN runs
    <2>1. IsSequence(runs)
      BY DEF RunsInv
    <2>2. runs' = Append(runs, new)
      BY <1>1
    <2>3. IsSequence(runs')
      BY <2>1, <2>2, AppendedRun
    <2>4. DOMAIN runs' = DOMAIN runs \cup {Len(runs) + 1}
      BY <2>1, <2>2, AppendedRun
    <2>5. \A k \in DOMAIN runs : runs'[k] = runs[k]
      BY <2>1, <2>2, AppendedRun
    <2>6. runs'[Len(runs) + 1] = new /\ Len(runs) + 1 \notin DOMAIN runs
      BY <2>1, <2>2, AppendedRun
    <2> QED
      BY <2>3, <2>4, <2>5, <2>6
  <1> HIDE DEF n
  <1> QED
    BY <1>1, <1>2, <1>3 DEF RunsInv

LEMMA LoadKeepsRuns ==
    ASSUME RunsInv, Load
    PROVE  /\ RunsInv' /\ UNCHANGED <<world, tables, edits, diffs>>
           /\ DOMAIN runs' = DOMAIN runs
           /\ \A r \in DOMAIN runs : /\ runs'[r].stale = TRUE /\ runs'[r].done = runs[r].done
                                     /\ runs'[r].diff = runs[r].diff
  <1>1. /\ UNCHANGED <<world, tables, edits, diffs>>
        /\ runs' = [r \in DOMAIN runs |-> [runs[r] EXCEPT !.stale = TRUE]]
    BY DEF Load
  <1>2. Len(runs) \in Nat /\ DOMAIN runs = 1 .. Len(runs)
    BY SequenceDomain DEF RunsInv
  <1>3. IsSequence(runs')
    <2>1. runs' = [r \in 1 .. Len(runs) |-> runs'[r]]
      BY <1>1, <1>2
    <2> QED
      BY <1>2, <2>1, FunctionsAreSequences
  <1>4. \A r \in DOMAIN runs :
            /\ DOMAIN runs'[r] = RunFields /\ runs'[r].stale = TRUE
            /\ runs'[r].done = runs[r].done /\ runs'[r].failed = runs[r].failed
            /\ runs'[r].diff = runs[r].diff
    BY <1>1 DEF RunsInv, RunFields
  <1> QED
    BY <1>1, <1>3, <1>4 DEF RunsInv

LEMMA CommitKeepsRuns ==
    ASSUME RunsInv, NEW r \in DOMAIN runs, NEW step, NEW result, Commit(r, step, result)
    PROVE  /\ RunsInv' /\ UNCHANGED <<world, jira, touched, raw, edits, loads, diffs>>
           /\ tables' = result /\ Executable(step) /\ Ready(r, step)
           /\ DOMAIN runs' = DOMAIN runs
           /\ runs'[r].done = runs[r].done \cup {step} /\ runs'[r].stale = runs[r].stale
           /\ runs'[r].diff = runs[r].diff
           /\ \A k \in DOMAIN runs \ {r} : runs'[k] = runs[k]
  <1> DEFINE x == [runs[r] EXCEPT !.done = @ \cup {step}]
  <1>1. /\ UNCHANGED <<world, jira, touched, raw, edits, loads, diffs>>
        /\ tables' = result /\ Executable(step) /\ Ready(r, step)
        /\ runs' = [runs EXCEPT ![r] = x]
    BY DEF Commit
  <1>2. /\ DOMAIN x = RunFields /\ x.done = runs[r].done \cup {step}
        /\ x.failed = runs[r].failed /\ x.stale = runs[r].stale /\ x.diff = runs[r].diff
    BY DEF RunsInv, RunFields
  <1> HIDE DEF x
  <1>3. x.done \subseteq world.steps \ x.failed
    BY <1>1, <1>2 DEF Ready, RunsInv
  <1>4. diffs' \in Nat /\ x.stale \in BOOLEAN /\ DOMAIN x.diff \subseteq Logs
    BY <1>1, <1>2 DEF RunsInv
  <1>5. /\ RunsInv' /\ DOMAIN runs' = DOMAIN runs /\ runs'[r] = x
        /\ \A k \in DOMAIN runs \ {r} : runs'[k] = runs[k]
    BY <1>1, <1>2, <1>3, <1>4, RunChanges
  <1> QED
    BY <1>1, <1>2, <1>5

LEMMA FailKeepsRuns ==
    ASSUME RunsInv, NEW r \in DOMAIN runs, NEW step, FailStep(r, step)
    PROVE  /\ RunsInv' /\ UNCHANGED <<world, jira, touched, raw, tables, edits, loads, diffs>>
           /\ DOMAIN runs' = DOMAIN runs
           /\ \A k \in DOMAIN runs : /\ runs'[k].done = runs[k].done
                                     /\ runs'[k].stale = runs[k].stale
                                     /\ runs'[k].diff = runs[k].diff
  <1> DEFINE x == [runs[r] EXCEPT !.failed = @ \cup {step}]
  <1>1. /\ UNCHANGED <<world, jira, touched, raw, tables, edits, loads, diffs>>
        /\ Ready(r, step) /\ runs' = [runs EXCEPT ![r] = x]
    BY DEF FailStep
  <1>2. /\ DOMAIN x = RunFields /\ x.failed = runs[r].failed \cup {step}
        /\ x.done = runs[r].done /\ x.stale = runs[r].stale /\ x.diff = runs[r].diff
    BY DEF RunsInv, RunFields
  <1> HIDE DEF x
  <1>3. x.done \subseteq world.steps \ x.failed
    BY <1>1, <1>2 DEF Ready, RunsInv
  <1>4. diffs' \in Nat /\ x.stale \in BOOLEAN /\ DOMAIN x.diff \subseteq Logs
    BY <1>1, <1>2 DEF RunsInv
  <1>5. /\ RunsInv' /\ DOMAIN runs' = DOMAIN runs /\ runs'[r] = x
        /\ \A k \in DOMAIN runs \ {r} : runs'[k] = runs[k]
    BY <1>1, <1>2, <1>3, <1>4, RunChanges
  <1> QED
    BY <1>1, <1>2, <1>5

LEMMA ReadKeepsRuns ==
    ASSUME RunsInv, NEW r \in DOMAIN runs, NEW step \in Logs, NEW table, ReadLog(r, step, table)
    PROVE  /\ RunsInv' /\ UNCHANGED <<world, jira, touched, raw, tables, edits, loads>>
           /\ diffs' = diffs + 1 /\ Ready(r, step)
           /\ DOMAIN runs' = DOMAIN runs
           /\ \A k \in DOMAIN runs : /\ runs'[k].done = runs[k].done
                                     /\ runs'[k].stale = runs[k].stale
           /\ \A k \in DOMAIN runs \ {r} : runs'[k] = runs[k]
           /\ DOMAIN runs'[r].diff = DOMAIN runs[r].diff \cup {step}
           /\ step \notin DOMAIN runs[r].diff
           /\ runs'[r].diff[step] = SnapshotDiff(table, tables[step], diffs + 1)
           /\ \A k \in DOMAIN runs[r].diff : runs'[r].diff[k] = runs[r].diff[k]
  <1> DEFINE rows == [s \in {step} |-> SnapshotDiff(table, tables[step], diffs + 1)]
             x == [runs[r] EXCEPT !.diff = Upserted(@, rows)]
  <1>1. /\ UNCHANGED <<world, jira, touched, raw, tables, edits, loads>>
        /\ diffs' = diffs + 1 /\ Ready(r, step) /\ step \notin DOMAIN runs[r].diff
        /\ runs' = [runs EXCEPT ![r] = x]
    BY DEF ReadLog
  <1>2. /\ DOMAIN x = RunFields /\ x.failed = runs[r].failed /\ x.done = runs[r].done
        /\ x.stale = runs[r].stale /\ x.diff = Upserted(runs[r].diff, rows)
    BY DEF RunsInv, RunFields
  <1>3. DOMAIN rows = {step} /\ rows[step] = SnapshotDiff(table, tables[step], diffs + 1)
    OBVIOUS
  <1> HIDE DEF x, rows
  <1>4. /\ DOMAIN x.diff = DOMAIN runs[r].diff \cup {step}
        /\ x.diff[step] = SnapshotDiff(table, tables[step], diffs + 1)
        /\ \A k \in DOMAIN runs[r].diff : x.diff[k] = runs[r].diff[k]
    BY <1>1, <1>2, <1>3 DEF Upserted
  <1>5. /\ diffs' \in Nat /\ x.stale \in BOOLEAN /\ DOMAIN x.diff \subseteq Logs
        /\ x.done \subseteq world.steps \ x.failed
    BY <1>1, <1>2, <1>4 DEF RunsInv
  <1>6. /\ RunsInv' /\ DOMAIN runs' = DOMAIN runs /\ runs'[r] = x
        /\ \A k \in DOMAIN runs \ {r} : runs'[k] = runs[k]
    BY <1>1, <1>2, <1>5, RunChanges
  <1> QED
    BY <1>1, <1>2, <1>4, <1>6

-----------------------------------------------------------------------------
TypeInv ==
    /\ world \in Worlds
    /\ JiraInv /\ RawInv /\ RefsOk(tables, raw) /\ RunsInv

LEMMA TypeInit == Init => TypeInv
  <1> SUFFICES ASSUME Init
               PROVE  RefsOk(tables, raw) /\ world \in Worlds
    BY JiraInit, RawInit, RunsInit DEF TypeInv
  <1>1. /\ DOMAIN tables = TableNames /\ tables.issues = <<>> /\ tables.sprint_issues = <<>>
        /\ tables.release_issues = <<>> /\ tables.worklogs = {} /\ tables.field_values = <<>>
        /\ tables.status_changelog = <<>> /\ tables.column_statuses = {}
        /\ tables.commitment_rules = {}
    BY DEF Init, NewTables, TableNames
  <1>2. tables.issue_statuses = <<>> \/ tables.issue_statuses = [s \in StatusIds |-> s]
    BY DEF Init, NewTables, Before
  <1>3. StatusesOk(tables.issue_statuses)
    BY <1>2, CleanLayerAssumption DEF StatusesOk, OneToOne
  <1>4. /\ check_issue_fk_integrity(tables) /\ check_sprint_issues_integrity(tables)
        /\ check_release_issues_integrity(tables) /\ check_no_orphan_worklogs(tables)
    BY <1>1 DEF check_issue_fk_integrity, check_sprint_issues_integrity,
                check_release_issues_integrity, check_no_orphan_worklogs
  <1>5. check_field_values_fk_integrity(tables) /\ check_status_changelog_fk_integrity(tables)
    BY <1>1 DEF check_field_values_fk_integrity, check_status_changelog_fk_integrity
  <1> QED
    BY <1>1, <1>3, <1>4, <1>5 DEF RefsOk, Init

\* References hold whatever is loaded.
LEMMA LoadKeepsRefs ==
    ASSUME NEW t, NEW w, RefsOk(t, w), NEW v, Loaded(w) \subseteq Loaded(v)
    PROVE  RefsOk(t, v)
  BY DEF RefsOk

\* An administrator may choose columns that are there.
LEMMA RulesKeepRefs ==
    ASSUME RefsOk(tables, raw), raw' = raw,
           \/ \E a, b \in tables.board_columns : SaveCommitmentRule(a, b)
           \/ \E rule \in tables.commitment_rules : DeleteCommitmentRule(rule)
    PROVE  RefsOk(tables', raw') /\ Only(tables, tables', {"commitment_rules"})
  <1>1. /\ Only(tables, tables', {"commitment_rules"})
        /\ \A rule \in tables'.commitment_rules :
                {rule.start, rule.end} \subseteq tables.board_columns
    BY DEF SaveCommitmentRule, DeleteCommitmentRule, RefsOk, Only, TableNames
  <1>2. \A n \in Referred \ {"commitment_rules"} : tables'[n] = tables[n]
    BY <1>1 DEF Only, Referred, TableNames
  <1>3. /\ tables'.issue_statuses = tables.issue_statuses /\ tables'.issues = tables.issues
        /\ tables'.sprints = tables.sprints /\ tables'.sprint_issues = tables.sprint_issues
        /\ tables'.releases = tables.releases
        /\ tables'.release_issues = tables.release_issues
        /\ tables'.worklogs = tables.worklogs /\ tables'.field_keys = tables.field_keys
        /\ tables'.field_values = tables.field_values
        /\ tables'.status_changelog = tables.status_changelog
        /\ tables'.board_columns = tables.board_columns
        /\ tables'.column_statuses = tables.column_statuses
    BY <1>2 DEF Referred
  <1> QED
    BY <1>1, <1>3 DEF Only, RefsOk, check_issue_fk_integrity,
       check_sprint_issues_integrity, check_release_issues_integrity, check_no_orphan_worklogs,
       check_field_values_fk_integrity, check_status_changelog_fk_integrity

\* Every commit keeps the references.
LEMMA CommitsKeepRefs ==
    ASSUME TypeInv, NEW r \in DOMAIN runs, NEW step, NEW result, Commit(r, step, result),
           \/ step = "issue_types" /\ result = CleanIssueTypes(tables, raw)
           \/ step = "issue_statuses" /\ result = CleanIssueStatuses(tables, raw)
           \/ step = "issues" /\ result = CleanIssues(tables, raw)
           \/ step = "labels" /\ result = CleanLabels(tables, raw)
           \/ step = "issue_labels" /\ result = CleanIssueLabels(tables, raw)
           \/ step = "user_issue_roles" /\ result = CleanUserIssueRoles(tables, raw)
           \/ step = "issue_links" /\ result = CleanIssueLinks(tables, raw)
           \/ step = "status_changelog" /\ result = CleanStatusChangelog(tables, raw)
           \/ step = "boards" /\ result = CleanBoards(tables, raw)
           \/ step = "board_columns" /\ result = CleanBoardColumns(tables, raw)
           \/ step = "column_statuses" /\ result = CleanColumnStatuses(tables, raw)
           \/ step = "sprints" /\ result = CleanSprints(tables, raw)
           \/ step = "sprint_issues" /\ result = CleanSprintIssues(tables, raw)
           \/ step = "sprint_issues_changelog" /\ result = CleanSprintIssuesChangelog(tables, raw)
           \/ step \in Logs /\ Only(tables, result, {step})
           \/ step = "releases" /\ result = CleanReleases(tables, raw)
           \/ step = "release_issues" /\ result = CleanReleaseIssues(tables, raw)
           \/ step = "release_issues_changelog" /\ result = CleanReleaseIssuesChangelog(tables, raw)
           \/ step = "worklogs" /\ result = CleanWorklogs(tables, raw)
           \/ step = "comments" /\ result = CleanComments(tables, raw)
           \/ step = "field_keys" /\ result = CleanFieldKeys(tables, raw)
           \/ step = "sprint_field_key" /\ result = CleanSprintFieldKey(tables, raw)
           \/ step = "field_values" /\ result = CleanFieldValues(tables, raw)
           \/ step = "sprint_values" /\ result = CleanSprintValues(tables, raw)
           \/ step = "field_value_changelog" /\ result = CleanFieldValueChangelog(tables, raw)
    PROVE  RefsOk(tables', raw')
  <1>1. tables' = result /\ raw' = raw /\ Executable(step)
    BY DEF Commit
  <1>2. RefsOk(tables, raw) /\ RawIssuesOk(raw)
    BY DEF TypeInv, RawInv, RawIssuesOk, RawIssueOk, IssueOk
  <1>3. CASE step = "issue_statuses" /\ result = CleanIssueStatuses(tables, raw)
    <2>1. CanUpsertNames(tables.issue_statuses, StatusRows(raw))
      BY <1>1, <1>3 DEF Executable
    <2> QED
      BY <1>1, <1>2, <1>3, <2>1, StatusesKeepRefs
  <1>4. CASE step \in Logs /\ Only(tables, result, {step})
    <2>1. DOMAIN result = TableNames /\ \A n \in Referred : result[n] = tables[n]
      BY <1>4 DEF Logs, Only, Referred, TableNames
    <2> QED
      BY <1>1, <1>2, <2>1, RefsFrame
  <1> QED
    BY <1>1, <1>2, <1>3, <1>4, StatementsApart, IssuesKeepRefs, WorklogsKeepRefs,
       ChangelogKeepsRefs, ColumnsKeepRefs, SprintsKeepRefs, FieldsKeepRefs

\* A log that is written.
LEMMA LogWritten ==
    ASSUME TypeInv, NEW r \in DOMAIN runs, NEW step, WriteLog(r, step)
    PROVE  \E result :
             /\ step \in Logs /\ step \in DOMAIN runs[r].diff /\ Commit(r, step, result)
             /\ Only(tables, result, {step})
             /\ result[step] = tables[step] \cup runs[r].diff[step]
  <1> DEFINE result == [tables EXCEPT ![step] = @ \cup runs[r].diff[step]]
  <1>1. step \in DOMAIN runs[r].diff /\ Commit(r, step, result)
    BY DEF WriteLog
  <1>2. step \in Logs /\ DOMAIN tables = TableNames
    BY <1>1 DEF TypeInv, RunsInv, RefsOk
  <1>3. Only(tables, result, {step}) /\ result[step] = tables[step] \cup runs[r].diff[step]
    BY <1>2 DEF Only, Logs, TableNames
  <1> QED
    BY <1>1, <1>2, <1>3

LEMMA RunStepKeepsTypes ==
    ASSUME TypeInv, NEW r \in DOMAIN runs, RunStep(r)
    PROVE  TypeInv'
  <1>1. CASE \E step \in world.steps : FailStep(r, step)
    <2>1. RunsInv' /\ UNCHANGED <<world, jira, touched, raw, tables, edits, loads, diffs>>
      BY <1>1, FailKeepsRuns DEF TypeInv
    <2> QED
      BY <2>1 DEF TypeInv, JiraInv, RawInv
  <1>2. CASE \/ ReadLog(r, "sprint_changelog", tables.sprints)
             \/ ReadLog(r, "release_changelog", tables.releases)
    <2>1. RunsInv' /\ UNCHANGED <<world, jira, touched, raw, tables, edits, loads>>
      BY <1>2, ReadKeepsRuns DEF TypeInv, Logs
    <2> QED
      BY <2>1 DEF TypeInv, JiraInv, RawInv
  <1>3. ASSUME NEW step, NEW result, Commit(r, step, result), RefsOk(tables', raw')
        PROVE  TypeInv'
    <2>1. RunsInv' /\ UNCHANGED <<world, jira, touched, raw, edits, loads, diffs>>
      BY <1>3, CommitKeepsRuns DEF TypeInv
    <2> QED
      BY <1>3, <2>1 DEF TypeInv, JiraInv, RawInv
  <1>4. CASE WriteLog(r, "sprint_changelog") \/ WriteLog(r, "release_changelog")
    BY <1>3, <1>4, LogWritten, CommitsKeepRefs
  <1> QED
    BY <1>1, <1>2, <1>3, <1>4, CommitsKeepRefs DEF RunStep

LEMMA TypeStep == TypeInv /\ [Next]_vars => TypeInv'
  <1> SUFFICES ASSUME TypeInv, [Next]_vars
               PROVE  TypeInv'
    OBVIOUS
  <1>1. CASE People
    <2>1. JiraInv' /\ RawInv' /\ UNCHANGED <<world, raw, runs, loads, diffs>>
      BY <1>1, PeopleKeepJira, PeopleKeepRaw DEF TypeInv
    <2>2. RefsOk(tables', raw')
      <3>1. \/ tables' = tables
            \/ \E a, b \in tables.board_columns : SaveCommitmentRule(a, b)
            \/ \E rule \in tables.commitment_rules : DeleteCommitmentRule(rule)
        BY <1>1 DEF People, CreateIssue, MoveIssue, PlanIssue, FixIssue, ToggleRow,
           EstimateIssue, AssignIssue, RenameStatus, RenameUser, StartSprint, CloseSprint,
           ReleaseVersion, ConfigureColumn, Edit
      <3> QED
        BY <2>1, <3>1, RulesKeepRefs DEF TypeInv
    <2> QED
      BY <2>1, <2>2 DEF TypeInv, RunsInv
  <1>2. CASE LoadIssues
    <2>1. /\ JiraInv' /\ RawInv' /\ Loaded(raw) \subseteq Loaded(raw') /\ RunsInv'
          /\ UNCHANGED <<world, tables>>
      BY <1>2, IssuesLoaded, LoadKeepsRuns DEF TypeInv, LoadIssues
    <2> QED
      BY <2>1, LoadKeepsRefs DEF TypeInv
  <1>3. CASE LoadTables
    <2>1. /\ JiraInv' /\ RawInv' /\ raw'.issues = raw.issues /\ RunsInv'
          /\ UNCHANGED <<world, tables>>
      BY <1>3, TablesLoaded, LoadKeepsRuns DEF TypeInv, LoadTables
    <2>2. Loaded(raw) \subseteq Loaded(raw')
      BY <2>1 DEF Loaded
    <2> QED
      BY <2>1, <2>2, LoadKeepsRefs DEF TypeInv
  <1>4. CASE StartRun
    <2>1. RunsInv' /\ UNCHANGED <<world, jira, touched, raw, tables, edits, loads, diffs>>
      BY <1>4, StartKeepsRuns DEF TypeInv
    <2> QED
      BY <2>1 DEF TypeInv, JiraInv, RawInv
  <1>5. CASE \E r \in DOMAIN runs : RunStep(r)
    BY <1>5, RunStepKeepsTypes
  <1>6. CASE UNCHANGED vars
    BY <1>6 DEF vars, TypeInv, JiraInv, RawInv, RunsInv
  <1> QED
    BY <1>1, <1>2, <1>3, <1>4, <1>5, <1>6 DEF Next

LEMMA TypeCorrect == Spec => []TypeInv
  BY TypeInit, TypeStep, PTL DEF Spec

\* The tables hold what they are made to hold, and runs do what their assets allow.
THEOREM CleanLayerTypeCorrect == Spec => []TypeOK
  <1>1. TypeInv => TypeOK
    BY DEF TypeInv, TypeOK, JiraInv, RawInv, RefsOk, RunsInv, StatusesOk, Loaded
  <1> QED
    BY <1>1, TypeCorrect, PTL

\* The asset checks of references pass at any time, also in the middle of overlapping runs
\* and after failed ones.
THEOREM ReferencesHold ==
    Spec => [](/\ check_issue_fk_integrity(tables)
               /\ check_sprint_issues_integrity(tables)
               /\ check_release_issues_integrity(tables)
               /\ check_no_orphan_worklogs(tables)
               /\ check_field_values_fk_integrity(tables)
               /\ check_status_changelog_fk_integrity(tables))
  <1>1. TypeInv => /\ check_issue_fk_integrity(tables)
                   /\ check_sprint_issues_integrity(tables)
                   /\ check_release_issues_integrity(tables)
                   /\ check_no_orphan_worklogs(tables)
                   /\ check_field_values_fk_integrity(tables)
                   /\ check_status_changelog_fk_integrity(tables)
    BY DEF TypeInv, RefsOk
  <1> QED
    BY <1>1, TypeCorrect, PTL
================================================================================
