----------------------------- MODULE CleanRunProofs -----------------------------
(****************************************************************************)
(* What a run of the clean layer has achieved when nothing was loaded since *)
(* it started. Each asset it has executed has made its tables mirror the    *)
(* raw tables (Mirrors), from what the assets before it had achieved; and   *)
(* no statement of any run, outdated or not, undoes it, since all read the  *)
(* same raw tables (MirrorInv). The rows of the property logs are ordered   *)
(* as the values of Jira are (LogInv), the columns have their statuses      *)
(* unless somebody is rebuilding them (ColumnsInv), and the members of a    *)
(* sprint are read from histories that keep Jira's rule (SprintInv).        *)
(****************************************************************************)
EXTENDS CleanLayerProofs

Steps == DOMAIN Upstream

\* The steps of a run: each has those before it that the world has.
Closed(D) == D \subseteq world.steps /\ \A s \in D : Upstream[s] \cap world.steps \subseteq D

-----------------------------------------------------------------------------
\* What each step achieves.
TypesMirror(types, w) == \A i \in Loaded(w) : w.issues[i].type[1] \in DOMAIN types

StatusesMirror(statuses, w) ==
    /\ \A i \in Loaded(w) : /\ w.issues[i].status \in DOMAIN statuses
                            /\ statuses[w.issues[i].status] = w.issues[i].statusName
    /\ "items" \in w.tables => Historical(statuses, w) = {}

IssuesMirror(issues, w) ==
    \A i \in Loaded(w) : i \in DOMAIN issues /\ issues[i] = w.issues[i].status

UsersMirror(users, w) ==
    \A i \in Loaded(w) : w.issues[i].assignee # Nothing => w.issues[i].assignee[1] \in DOMAIN users

LabelsMirror(labels, w) ==
    (\E i \in Loaded(w) : "label" \in w.issues[i].rows) => "label" \in labels

RowsMirror(rows, kind, w) == \A i \in Loaded(w) : kind \in w.issues[i].rows => i \in rows

RolesMirror(roles, w) ==
    \A i \in Loaded(w) : w.issues[i].assignee # Nothing => <<w.issues[i].assignee[1], i>> \in roles

\* A change is in the changelog, unless statuses share its name.
ChangelogMirror(log, statuses, w) ==
    \A i \in Loaded(w) : \A c \in w.issues[i].changes :
        \/ /\ <<i, c.to, c.at>> \in DOMAIN log
           /\ log[<<i, c.to, c.at>>] \in {c.from, Nothing}
        \/ NameIsShared(c, statuses, w)

BoardMirror(boards, w) == w.columns # <<>> => boards # {}

\* The columns are those of the board, and have no status that is not theirs.
ColumnsMirror(columns, statuses, w) ==
    /\ {c[1] : c \in columns} = DOMAIN w.columns
    /\ \A k \in statuses : k[1] \in columns /\ k[2] \in w.columns[k[1][1]]

CopyOf(table, rows) == \A x \in DOMAIN rows : x \in DOMAIN table /\ table[x] = rows[x]

\* The membership of each version is that of the history of the issue.
ReleaseMirror(members, w) ==
    \A i \in Loaded(w) : \A f \in w.issues[i].fixes :
        f.version \in DOMAIN w.versions =>
            (Active(members, f.version, i) <=> f.version \in w.issues[i].versions)

\* Each value is in its log, with the time it had it.
LogMirror(log, table) == \A x \in DOMAIN table : \E row \in log : row.of = x /\ row.new = table[x]

KeysMirror(keys, w) == "points" \in w.tables => "points" \in keys

PointsMirror(values, w) ==
    \A i \in Loaded(w) : w.issues[i].points # Nothing =>
        /\ <<i, "points">> \in DOMAIN values
        /\ values[<<i, "points">>] = w.issues[i].points

SprintFieldMirror(values, w) ==
    \A i \in Loaded(w) : w.issues[i].sprints # {} =>
        /\ <<i, "sprint">> \in DOMAIN values
        /\ values[<<i, "sprint">>] = w.issues[i].sprints

PointChangesMirror(log, w) ==
    "points" \in w.tables =>
        \A i \in Loaded(w) : \A c \in w.issues[i].pointChanges : <<i, c>> \in log

Mirrors(s, t, w) ==
    /\ s = "issue_types" => TypesMirror(t.issue_types, w)
    /\ s = "issue_statuses" => StatusesMirror(t.issue_statuses, w)
    /\ s = "issues" => IssuesMirror(t.issues, w) /\ UsersMirror(t.jira_users, w)
    /\ s = "labels" => LabelsMirror(t.labels, w)
    /\ s = "issue_labels" => RowsMirror(t.issue_labels, "label", w)
    /\ s = "user_issue_roles" => RolesMirror(t.user_issue_roles, w)
    /\ s = "issue_links" => RowsMirror(t.issue_links, "link", w)
    /\ s = "status_changelog" => ChangelogMirror(t.status_changelog, t.issue_statuses, w)
    /\ s = "boards" => BoardMirror(t.boards, w)
    /\ s = "board_columns" => ColumnsMirror(t.board_columns, t.column_statuses, w)
    /\ s = "sprints" => CopyOf(t.sprints, w.sprints)
    /\ s = "sprint_issues" /\ "items" \in w.tables => check_closed_sprint_issues_inactive(t)
    /\ s = "sprint_changelog" => LogMirror(t.sprint_changelog, w.sprints)
    /\ s = "releases" => CopyOf(t.releases, w.versions)
    /\ s = "release_issues" => ReleaseMirror(t.release_issues, w)
    /\ s = "release_changelog" => LogMirror(t.release_changelog, w.versions)
    /\ s = "worklogs" => RowsMirror(t.worklogs, "worklog", w)
    /\ s = "comments" => RowsMirror(t.comments, "comment", w)
    /\ s = "field_keys" => KeysMirror(t.field_keys, w)
    /\ s = "sprint_field_key" => "sprint" \in t.field_keys
    /\ s = "field_values" => PointsMirror(t.field_values, w)
    /\ s = "sprint_values" => SprintFieldMirror(t.field_values, w)
    /\ s = "field_value_changelog" => PointChangesMirror(t.field_value_changelog, w)

\* A world that does not synchronise types or statuses has those its issues can have.
Given ==
    /\ "issue_types" \notin world.steps => 1 \in DOMAIN tables.issue_types
    /\ "issue_statuses" \notin world.steps => DOMAIN tables.issue_statuses = StatusIds
    /\ \A i \in DOMAIN jira.issues : jira.issues[i].type = <<1, "Task">>
    /\ \A i \in Loaded(raw) : raw.issues[i].type = <<1, "Task">>

\* A run in the making: what it has done, it has done well.
Achieved(D, t, w) == Closed(D) /\ \A s \in D : Mirrors(s, t, w)

MirrorInv ==
    \A r \in DOMAIN runs :
        /\ Closed(runs[r].done)
        /\ ~runs[r].stale => \A s \in runs[r].done : Mirrors(s, tables, raw)

-----------------------------------------------------------------------------
\* The tables each mirror is about.
About ==
    [issue_types |-> {"issue_types"}, issue_statuses |-> {"issue_statuses"},
     issues |-> {"issues", "jira_users"}, labels |-> {"labels"},
     issue_labels |-> {"issue_labels"}, user_issue_roles |-> {"user_issue_roles"},
     issue_links |-> {"issue_links"}, status_changelog |-> {"status_changelog", "issue_statuses"},
     boards |-> {"boards"}, board_columns |-> {"board_columns", "column_statuses"},
     column_statuses |-> {}, sprints |-> {"sprints"},
     sprint_issues |-> {"sprint_issues", "sprints"}, sprint_issues_changelog |-> {},
     sprint_changelog |-> {"sprint_changelog"}, releases |-> {"releases"},
     release_issues |-> {"release_issues"}, release_issues_changelog |-> {},
     release_changelog |-> {"release_changelog"}, worklogs |-> {"worklogs"},
     comments |-> {"comments"}, field_keys |-> {"field_keys"},
     sprint_field_key |-> {"field_keys"}, field_values |-> {"field_values"},
     sprint_values |-> {"field_values"}, field_value_changelog |-> {"field_value_changelog"}]

LEMMA MirrorsFrame ==
    ASSUME NEW t, NEW u, NEW w, NEW s \in Steps, Mirrors(s, t, w),
           \A n \in About[s] : u[n] = t[n]
    PROVE  Mirrors(s, u, w)
  <1>1. CASE s \in {"issue_types", "issue_statuses", "issues", "labels", "issue_labels",
                    "user_issue_roles", "issue_links", "status_changelog", "boards"}
    BY <1>1 DEF Mirrors, About
  <1>2. CASE s \in {"board_columns", "column_statuses", "sprints", "sprint_issues",
                    "sprint_issues_changelog", "sprint_changelog", "releases"}
    BY <1>2 DEF Mirrors, About, check_closed_sprint_issues_inactive
  <1>3. CASE s \in {"release_issues", "release_issues_changelog", "release_changelog",
                    "worklogs", "comments", "field_keys", "sprint_field_key",
                    "field_values", "sprint_values", "field_value_changelog"}
    BY <1>3 DEF Mirrors, About
  <1> QED
    BY <1>1, <1>2, <1>3 DEF Steps, Upstream

\* A statement that writes tables ns keeps what is about others.
LEMMA OnlyKeeps ==
    ASSUME NEW t, NEW u, NEW w, NEW ns, Only(t, u, ns),
           NEW s \in Steps, About[s] \cap ns = {}, Mirrors(s, t, w)
    PROVE  Mirrors(s, u, w)
  <1>1. About[s] \subseteq TableNames
    BY DEF About, Steps, Upstream, TableNames
  <1>2. \A n \in About[s] : u[n] = t[n]
    BY <1>1 DEF Only
  <1> QED
    BY <1>2, MirrorsFrame
-----------------------------------------------------------------------------
\* A run may execute x.
Reached(D, x) == x \in world.steps /\ Upstream[x] \cap world.steps \subseteq D

\* A statement undoes nothing, and achieves its step in a run that may execute it.
Outcome(D, x, u) ==
    /\ \A s \in D : Mirrors(s, u, raw)
    /\ Reached(D, x) => Mirrors(x, u, raw)

\* Statements whose tables are those of one step.
LEMMA OneStep ==
    ASSUME NEW D, Achieved(D, tables, raw), NEW x \in Steps, NEW u, NEW ns,
           Only(tables, u, ns), \A s \in Steps \ {x} : About[s] \cap ns = {},
           Reached(D, x) => Mirrors(x, u, raw), world.steps \subseteq Steps
    PROVE  Outcome(D, x, u)
  <1>1. ASSUME NEW s \in D
        PROVE  Mirrors(s, u, raw)
    <2>1. s \in Steps /\ Mirrors(s, tables, raw)
      BY DEF Achieved, Closed
    <2>2. CASE s = x
      BY <2>2 DEF Achieved, Closed, Reached
    <2>3. CASE s # x
      BY <2>1, <2>3, OnlyKeeps
    <2> QED
      BY <2>2, <2>3
  <1> QED
    BY <1>1 DEF Outcome

\* The selection of a world.
LEMMA Selections ==
    ASSUME TypeInv
    PROVE  world.steps \subseteq Steps /\ Selectable(world.steps)
  BY CleanLayerAssumption DEF TypeInv, Selectable, Steps

LEMMA IssuesKnown ==
    ASSUME TypeInv, NEW D, Achieved(D, tables, raw), "issues" \in D
    PROVE  /\ DOMAIN tables.issues = Loaded(raw) /\ Joined(tables, raw) = Loaded(raw)
           /\ UsersMirror(tables.jira_users, raw)
           /\ \A kind, i : i \in With(tables, raw, kind)
                <=> i \in Loaded(raw) /\ kind \in raw.issues[i].rows
  <1>1. IssuesMirror(tables.issues, raw) /\ UsersMirror(tables.jira_users, raw)
    BY DEF Achieved, Mirrors
  <1>2. DOMAIN tables.issues = Loaded(raw)
    BY <1>1 DEF IssuesMirror, TypeInv, RefsOk
  <1>3. Joined(tables, raw) = Loaded(raw)
    BY <1>2 DEF Joined
  <1> QED
    BY <1>1, <1>2, <1>3 DEF With

LEMMA TypesOutcome ==
    ASSUME TypeInv, NEW D, Achieved(D, tables, raw)
    PROVE  Outcome(D, "issue_types", CleanIssueTypes(tables, raw))
  <1> DEFINE u == CleanIssueTypes(tables, raw)
  <1>1. DOMAIN tables = TableNames /\ Only(tables, u, {"issue_types"})
    BY Frames DEF TypeInv, RefsOk
  <1>2. DOMAIN u.issue_types = DOMAIN tables.issue_types \cup IdsOf(TypeRows(raw))
    BY <1>1, UpsertedNamesRows DEF CleanIssueTypes, TableNames
  <1>3. TypesMirror(u.issue_types, raw)
    BY <1>2 DEF TypesMirror, IdsOf, TypeRows
  <1>4. Mirrors("issue_types", u, raw)
    BY <1>3 DEF Mirrors
  <1> SUFFICES Outcome(D, "issue_types", u)
    OBVIOUS
  <1> HIDE DEF u
  <1>5. "issue_types" \in Steps /\ \A s \in Steps \ {"issue_types"} : About[s] \cap {"issue_types"} = {}
    BY DEF Steps, Upstream, About
  <1> QED
    BY <1>1, <1>4, <1>5, OneStep, Selections
LEMMA IssuesOutcome ==
    ASSUME TypeInv, Given, NEW D, Achieved(D, tables, raw)
    PROVE  Outcome(D, "issues", CleanIssues(tables, raw))
  <1> DEFINE u == CleanIssues(tables, raw)
  <1>1. DOMAIN tables = TableNames /\ Only(tables, u, {"jira_users", "issues"})
    BY Frames DEF TypeInv, RefsOk
  <1>2. /\ u.jira_users = UpsertedNames(tables.jira_users, UserRows(raw))
        /\ u.issues = Upserted(tables.issues,
                [i \in CleanableIssues(tables, raw) |-> raw.issues[i].status])
    BY <1>1 DEF CleanIssues, TableNames
  <1>3. UsersMirror(u.jira_users, raw)
    <2>1. DOMAIN u.jira_users = DOMAIN tables.jira_users \cup IdsOf(UserRows(raw))
      BY <1>2, UpsertedNamesRows
    <2> QED
      BY <2>1 DEF UsersMirror, IdsOf, UserRows
  <1>4. ASSUME Reached(D, "issues")
        PROVE  IssuesMirror(u.issues, raw)
    <2>1. ASSUME NEW i \in Loaded(raw)
          PROVE  i \in CleanableIssues(tables, raw)
      <3>1. raw.issues[i].status \in DOMAIN tables.issue_statuses
        <4>1. CASE "issue_statuses" \in world.steps
          <5>1. "issue_statuses" \in D
            BY <1>4, <4>1 DEF Reached, Upstream
          <5> QED
            BY <5>1 DEF Achieved, Mirrors, StatusesMirror
        <4>2. CASE "issue_statuses" \notin world.steps
          BY <4>2 DEF Given, TypeInv, RawInv, IssueOk
        <4> QED
          BY <4>1, <4>2
      <3>2. raw.issues[i].type[1] \in DOMAIN tables.issue_types
        <4>1. CASE "issue_types" \in world.steps
          <5>1. "issue_types" \in D
            BY <1>4, <4>1 DEF Reached, Upstream
          <5> QED
            BY <5>1 DEF Achieved, Mirrors, TypesMirror
        <4>2. CASE "issue_types" \notin world.steps
          BY <4>2 DEF Given
        <4> QED
          BY <4>1, <4>2
      <3> QED
        BY <3>1, <3>2 DEF CleanableIssues
    <2> QED
      BY <1>2, <2>1 DEF IssuesMirror, Upserted
  <1>5. Reached(D, "issues") => Mirrors("issues", u, raw)
    BY <1>3, <1>4 DEF Mirrors
  <1> SUFFICES Outcome(D, "issues", u)
    OBVIOUS
  <1> HIDE DEF u
  <1>6. "issues" \in Steps
        /\ \A s \in Steps \ {"issues"} : About[s] \cap {"jira_users", "issues"} = {}
    BY DEF Steps, Upstream, About
  <1> QED
    BY <1>1, <1>5, <1>6, OneStep, Selections

\* What depends on the issues alone: labels, links, worklogs, comments, roles.
LEMMA RowsOutcomes ==
    ASSUME TypeInv, Given, NEW D, Achieved(D, tables, raw)
    PROVE  /\ Outcome(D, "labels", CleanLabels(tables, raw))
           /\ Outcome(D, "issue_labels", CleanIssueLabels(tables, raw))
           /\ Outcome(D, "user_issue_roles", CleanUserIssueRoles(tables, raw))
           /\ Outcome(D, "issue_links", CleanIssueLinks(tables, raw))
           /\ Outcome(D, "worklogs", CleanWorklogs(tables, raw))
           /\ Outcome(D, "comments", CleanComments(tables, raw))
  <1>1. /\ DOMAIN tables = TableNames
        /\ Only(tables, CleanLabels(tables, raw), {"labels"})
        /\ Only(tables, CleanIssueLabels(tables, raw), {"issue_labels"})
        /\ Only(tables, CleanUserIssueRoles(tables, raw), {"user_issue_roles"})
        /\ Only(tables, CleanIssueLinks(tables, raw), {"issue_links"})
        /\ Only(tables, CleanWorklogs(tables, raw), {"worklogs"})
        /\ Only(tables, CleanComments(tables, raw), {"comments"})
    BY Frames DEF TypeInv, RefsOk
  <1>2. Mirrors("labels", CleanLabels(tables, raw), raw)
    BY <1>1 DEF Mirrors, LabelsMirror, CleanLabels, TableNames
  <1>3. \A x \in {"user_issue_roles", "issue_links", "worklogs", "comments"} :
            Reached(D, x) => "issues" \in D
    BY Selections DEF Reached, Upstream, Selectable
  <1>4. ASSUME Reached(D, "issue_labels")
        PROVE  Mirrors("issue_labels", CleanIssueLabels(tables, raw), raw)
    <2>1. "labels" \in D /\ "issues" \in D
      BY <1>4, Selections DEF Reached, Upstream, Selectable, Achieved, Closed
    <2>2. LabelsMirror(tables.labels, raw)
      BY <2>1 DEF Achieved, Mirrors
    <2>3. \A i \in Loaded(raw) : "label" \in raw.issues[i].rows =>
                i \in With(tables, raw, "label") /\ "label" \in tables.labels
      BY <2>1, <2>2, IssuesKnown DEF LabelsMirror
    <2> QED
      BY <1>1, <2>3 DEF Mirrors, RowsMirror, CleanIssueLabels, TableNames
  <1>5. ASSUME Reached(D, "user_issue_roles")
        PROVE  Mirrors("user_issue_roles", CleanUserIssueRoles(tables, raw), raw)
    <2>1. Joined(tables, raw) = Loaded(raw) /\ UsersMirror(tables.jira_users, raw)
      BY <1>3, <1>5, IssuesKnown
    <2>2. CleanUserIssueRoles(tables, raw).user_issue_roles = tables.user_issue_roles \cup
            {<<raw.issues[i].assignee[1], i>> : i \in
                {i \in Joined(tables, raw) :
                    /\ raw.issues[i].assignee # Nothing
                    /\ raw.issues[i].assignee[1] \in DOMAIN tables.jira_users}}
      BY <1>1 DEF CleanUserIssueRoles, TableNames
    <2> QED
      BY <2>1, <2>2 DEF Mirrors, RolesMirror, UsersMirror
  <1>6. ASSUME Reached(D, "issue_links")
        PROVE  Mirrors("issue_links", CleanIssueLinks(tables, raw), raw)
    <2>1. \A i \in Loaded(raw) : "link" \in raw.issues[i].rows => i \in With(tables, raw, "link")
      BY <1>3, <1>6, IssuesKnown
    <2> QED
      BY <1>1, <2>1 DEF Mirrors, RowsMirror, CleanIssueLinks, TableNames
  <1>7. ASSUME Reached(D, "worklogs")
        PROVE  Mirrors("worklogs", CleanWorklogs(tables, raw), raw)
    <2>1. \A i \in Loaded(raw) : "worklog" \in raw.issues[i].rows => i \in With(tables, raw, "worklog")
      BY <1>3, <1>7, IssuesKnown
    <2> QED
      BY <1>1, <2>1 DEF Mirrors, RowsMirror, CleanWorklogs, TableNames
  <1>8. ASSUME Reached(D, "comments")
        PROVE  Mirrors("comments", CleanComments(tables, raw), raw)
    <2>1. \A i \in Loaded(raw) : "comment" \in raw.issues[i].rows => i \in With(tables, raw, "comment")
      BY <1>3, <1>8, IssuesKnown
    <2> QED
      BY <1>1, <2>1 DEF Mirrors, RowsMirror, CleanComments, TableNames
  <1>9. \A x \in {"labels", "issue_labels", "user_issue_roles", "issue_links", "worklogs", "comments"} :
            x \in Steps /\ \A s \in Steps \ {x} : About[s] \cap {x} = {}
    BY DEF Steps, Upstream, About
  <1>10. ASSUME NEW x \in {"labels", "issue_labels", "user_issue_roles", "issue_links", "worklogs",
                           "comments"},
                NEW u, Only(tables, u, {x}), Reached(D, x) => Mirrors(x, u, raw)
         PROVE  Outcome(D, x, u)
    BY <1>9, <1>10, OneStep, Selections
  <1> QED
    BY <1>1, <1>2, <1>4, <1>5, <1>6, <1>7, <1>8, <1>10
-----------------------------------------------------------------------------
\* Once the statuses mirror the raw tables, their statement changes nothing.
LEMMA StatusesStay ==
    ASSUME NEW t, NEW w, DOMAIN t = TableNames, StatusesMirror(t.issue_statuses, w),
           NEW u, u = CleanIssueStatuses(t, w).issue_statuses
    PROVE  /\ DOMAIN u = DOMAIN t.issue_statuses
           /\ \A id \in DOMAIN u : u[id] = t.issue_statuses[id]
  <1> DEFINE rows == StatusRows(w)
             current == UpsertedNames(t.issue_statuses, rows)
             found == IF "items" \in w.tables THEN Historical(current, w) ELSE {}
             name(id) == CHOOSE n \in {c[2] : c \in {c \in found : c[1] = id}} :
                            \A d \in found : d[1] = id => n <= d[2]
  <1>1. u = Added(current, [id \in IdsOf(found) |-> name(id)])
    BY DEF CleanIssueStatuses, TableNames
  <1>2. /\ DOMAIN current = DOMAIN t.issue_statuses \cup IdsOf(rows)
        /\ \A k \in DOMAIN t.issue_statuses \ IdsOf(rows) : current[k] = t.issue_statuses[k]
        /\ \A k \in IdsOf(rows) : <<k, current[k]>> \in {<<r[1], r[2]>> : r \in rows}
    BY UpsertedNamesRows
  <1>3. \A r \in rows : r[1] \in DOMAIN t.issue_statuses /\ t.issue_statuses[r[1]] = r[2]
    BY DEF StatusRows, StatusesMirror
  <1>4. /\ DOMAIN current = DOMAIN t.issue_statuses
        /\ \A k \in DOMAIN current : current[k] = t.issue_statuses[k]
    <2>1. IdsOf(rows) \subseteq DOMAIN t.issue_statuses
      BY <1>3 DEF IdsOf
    <2>2. ASSUME NEW k \in IdsOf(rows)
          PROVE  current[k] = t.issue_statuses[k]
      <3>1. PICK r \in rows : <<k, current[k]>> = <<r[1], r[2]>>
        BY <1>2
      <3> QED
        BY <1>3, <3>1
    <2> QED
      BY <1>2, <2>1, <2>2
  <1>5. Historical(current, w) = Historical(t.issue_statuses, w)
    BY <1>4 DEF Historical
  <1>6. found = {}
    BY <1>5 DEF StatusesMirror
  <1> HIDE DEF current, found, name
  <1>7. IdsOf(found) = {}
    BY <1>6 DEF IdsOf
  <1>8. DOMAIN u = DOMAIN current /\ \A k \in DOMAIN current : u[k] = current[k]
    BY <1>1, <1>7 DEF Added, Upserted
  <1> QED
    BY <1>4, <1>8

LEMMA StatusesOutcome ==
    ASSUME TypeInv, NEW D, Achieved(D, tables, raw), "issue_statuses" \in world.steps,
           CanUpsertNames(tables.issue_statuses, StatusRows(raw))
    PROVE  Outcome(D, "issue_statuses", CleanIssueStatuses(tables, raw))
  <1> DEFINE u == CleanIssueStatuses(tables, raw)
  <1>1. DOMAIN tables = TableNames /\ Only(tables, u, {"issue_statuses"})
    BY Frames DEF TypeInv, RefsOk
  <1>2. Mirrors("issue_statuses", u, raw)
    <2>1. StatusesOk(tables.issue_statuses) /\ RawIssuesOk(raw)
      BY DEF TypeInv, RefsOk, RawInv, RawIssuesOk, RawIssueOk, IssueOk
    <2>2. StatusesMirror(u.issue_statuses, raw)
      BY <1>1, <2>1, StatusesAfter DEF StatusesMirror
    <2> QED
      BY <2>2 DEF Mirrors
  <1>3. ASSUME "status_changelog" \in D
        PROVE  Mirrors("status_changelog", u, raw)
    <2>1. "issue_statuses" \in D
      BY <1>3 DEF Achieved, Closed, Upstream
    <2>2. StatusesMirror(tables.issue_statuses, raw)
      BY <2>1 DEF Achieved, Mirrors
    <2>3. /\ DOMAIN u.issue_statuses = DOMAIN tables.issue_statuses
          /\ \A id \in DOMAIN u.issue_statuses : u.issue_statuses[id] = tables.issue_statuses[id]
      BY <1>1, <2>2, StatusesStay
    <2>4. u.status_changelog = tables.status_changelog
      BY <1>1 DEF Only, TableNames
    <2>5. ChangelogMirror(tables.status_changelog, tables.issue_statuses, raw)
      BY <1>3 DEF Achieved, Mirrors
    <2> HIDE DEF u
    <2>6. \A c : NameIsShared(c, tables.issue_statuses, raw) => NameIsShared(c, u.issue_statuses, raw)
      BY <2>3 DEF NameIsShared
    <2>7. ChangelogMirror(u.status_changelog, u.issue_statuses, raw)
      BY <2>4, <2>5, <2>6 DEF ChangelogMirror
    <2> QED
      BY <2>7 DEF Mirrors
  <1> SUFFICES Outcome(D, "issue_statuses", u)
    OBVIOUS
  <1> HIDE DEF u
  <1>4. \A s \in Steps \ {"issue_statuses", "status_changelog"} : About[s] \cap {"issue_statuses"} = {}
    BY DEF Steps, Upstream, About
  <1>5. ASSUME NEW s \in D
        PROVE  Mirrors(s, u, raw)
    <2>1. s \in Steps /\ Mirrors(s, tables, raw)
      BY Selections DEF Achieved, Closed
    <2>2. CASE s \in {"issue_statuses", "status_changelog"}
      BY <1>2, <1>3, <2>2
    <2>3. CASE s \notin {"issue_statuses", "status_changelog"}
      BY <1>1, <1>4, <2>1, <2>3, OnlyKeeps
    <2> QED
      BY <2>2, <2>3
  <1> QED
    BY <1>2, <1>5 DEF Outcome

\* A change whose status is not known shares its name, when the statuses mirror the raw
\* tables.
LEMMA UnknownSharesItsName ==
    ASSUME TypeInv, NEW statuses, StatusesMirror(statuses, raw),
           NEW i \in Loaded(raw), NEW c \in raw.issues[i].changes, c.to \notin DOMAIN statuses
    PROVE  NameIsShared(c, statuses, raw)
  <1>1. c \in StatusChanges(raw)
    BY DEF StatusChanges
  <1>2. "items" \in raw.tables
    <2>1. "items" \in Nested(raw.issues[i])
      BY DEF Nested
    <2> QED
      BY <2>1 DEF TypeInv, RawInv
  <1>3. c.to \in Nat
    BY StatusIdsAreNumbers DEF TypeInv, RawInv, IssueOk, ChangeOk
  <1>4. SUFFICES ASSUME \A d \in StatusChanges(raw) : d.name = c.name => d.to = c.to,
                        \A id \in DOMAIN statuses : statuses[id] # c.name
                 PROVE  FALSE
    BY DEF NameIsShared
  <1>5. <<c.to, c.name>> \in Candidates(raw)
    BY <1>1, <1>3, <1>4 DEF Candidates
  <1>6. <<c.to, c.name>> \in Historical(statuses, raw)
    BY <1>4, <1>5 DEF Historical
  <1> QED
    BY <1>2, <1>6 DEF StatusesMirror

LEMMA ChangelogOutcome ==
    ASSUME TypeInv, Given, NEW D, Achieved(D, tables, raw)
    PROVE  Outcome(D, "status_changelog", CleanStatusChangelog(tables, raw))
  <1> DEFINE u == CleanStatusChangelog(tables, raw)
             statuses == tables.issue_statuses
             known == {x \in ChangesIn(tables, raw) : x[2].to \in DOMAIN statuses}
             keys == {<<x[1], x[2].to, x[2].at>> : x \in known}
             from(k) == (CHOOSE x \in known : k = <<x[1], x[2].to, x[2].at>>)[2].from
  <1>1. DOMAIN tables = TableNames /\ Only(tables, u, {"status_changelog"})
    BY Frames DEF TypeInv, RefsOk
  <1>2. u.status_changelog = Upserted(tables.status_changelog,
            [k \in keys |-> IF from(k) \in DOMAIN statuses THEN from(k) ELSE Nothing])
    BY <1>1 DEF CleanStatusChangelog, TableNames
  <1>3. ASSUME Reached(D, "status_changelog")
        PROVE  ChangelogMirror(u.status_changelog, statuses, raw)
    <2>1. "issues" \in D
      BY <1>3, Selections DEF Reached, Upstream, Selectable
    <2>2. Joined(tables, raw) = Loaded(raw)
      BY <2>1, IssuesKnown
    <2>3. ASSUME NEW i \in Loaded(raw), NEW c \in raw.issues[i].changes
          PROVE  \/ /\ <<i, c.to, c.at>> \in DOMAIN u.status_changelog
                    /\ u.status_changelog[<<i, c.to, c.at>>] \in {c.from, Nothing}
                 \/ NameIsShared(c, statuses, raw)
      <3>1. CASE c.to \in DOMAIN statuses
        <4> DEFINE k == <<i, c.to, c.at>>
        <4>1. <<i, c>> \in known
          BY <2>2, <3>1 DEF ChangesIn
        <4>2. k \in keys
          BY <4>1
        <4>3. \A x \in known : k = <<x[1], x[2].to, x[2].at>> => x[2] = c
          <5>1. \A x \in known : x[1] \in Loaded(raw) /\ x[2] \in raw.issues[x[1]].changes
            BY <2>2 DEF ChangesIn
          <5>2. OneAtATime(raw.issues[i].changes, edits)
            BY DEF TypeInv, RawInv, IssueOk
          <5> QED
            BY <5>1, <5>2 DEF OneAtATime
        <4>4. \E x \in known : k = <<x[1], x[2].to, x[2].at>>
          BY <4>1
        <4>5. from(k) = c.from
          <5> HIDE DEF known
          <5>1. (CHOOSE x \in known : k = <<x[1], x[2].to, x[2].at>>)[2] = c
            BY <4>3, <4>4
          <5> QED
            BY <5>1
        <4>6. k \in DOMAIN u.status_changelog /\ u.status_changelog[k] \in {from(k), Nothing}
          <5> HIDE DEF keys, from, u
          <5> QED
            BY <1>2, <4>2 DEF Upserted
        <4> QED
          BY <4>5, <4>6
      <3>2. CASE c.to \notin DOMAIN statuses
        <4>1. CASE "issue_statuses" \in world.steps
          <5>1. "issue_statuses" \in D
            BY <1>3, <4>1 DEF Reached, Upstream
          <5>2. StatusesMirror(statuses, raw)
            BY <5>1 DEF Achieved, Mirrors
          <5> QED
            BY <3>2, <5>2, UnknownSharesItsName
        <4>2. CASE "issue_statuses" \notin world.steps
          BY <3>2, <4>2 DEF Given, TypeInv, RawInv, IssueOk, ChangeOk
        <4> QED
          BY <4>1, <4>2
      <3> QED
        BY <3>1, <3>2
    <2> HIDE DEF u, statuses
    <2> QED
      BY <2>3 DEF ChangelogMirror
  <1>4. Reached(D, "status_changelog") => Mirrors("status_changelog", u, raw)
    <2>1. u.issue_statuses = tables.issue_statuses
      BY <1>1 DEF Only, TableNames
    <2> QED
      BY <1>3, <2>1 DEF Mirrors
  <1> SUFFICES Outcome(D, "status_changelog", u)
    OBVIOUS
  <1> HIDE DEF u
  <1>5. "status_changelog" \in Steps
        /\ \A s \in Steps \ {"status_changelog"} : About[s] \cap {"status_changelog"} = {}
    BY DEF Steps, Upstream, About
  <1> QED
    BY <1>1, <1>4, <1>5, OneStep, Selections
-----------------------------------------------------------------------------
\* Boards.
LEMMA BoardsOutcomes ==
    ASSUME TypeInv, Given, NEW D, Achieved(D, tables, raw)
    PROVE  /\ Outcome(D, "boards", CleanBoards(tables, raw))
           /\ raw.columns # <<>> =>
                Outcome(D, "board_columns", CleanBoardColumns(tables, raw))
           /\ Outcome(D, "column_statuses", CleanColumnStatuses(tables, raw))
  <1>1. /\ DOMAIN tables = TableNames
        /\ Only(tables, CleanBoards(tables, raw), {"boards"})
        /\ Only(tables, CleanBoardColumns(tables, raw),
                {"board_columns", "column_statuses", "rebuilds", "commitment_rules"})
        /\ Only(tables, CleanColumnStatuses(tables, raw), {"column_statuses"})
    BY Frames DEF TypeInv, RefsOk
  <1>2. Mirrors("boards", CleanBoards(tables, raw), raw)
    BY <1>1 DEF Mirrors, BoardMirror, CleanBoards, TableNames
  <1>3. Outcome(D, "boards", CleanBoards(tables, raw))
    <2>1. "boards" \in Steps /\ \A s \in Steps \ {"boards"} : About[s] \cap {"boards"} = {}
      BY DEF Steps, Upstream, About
    <2> QED
      BY <1>1, <1>2, <2>1, OneStep, Selections
  <1>4. ASSUME raw.columns # <<>>
        PROVE  Outcome(D, "board_columns", CleanBoardColumns(tables, raw))
    <2> DEFINE u == CleanBoardColumns(tables, raw)
               columns == {<<c, tables.rebuilds + 1>> : c \in DOMAIN raw.columns}
               ns == {"board_columns", "column_statuses", "rebuilds", "commitment_rules"}
    <2>1. ASSUME Reached(D, "board_columns")
          PROVE  Mirrors("board_columns", u, raw)
      <3>1. "boards" \in D
        BY <2>1, Selections DEF Reached, Upstream, Selectable
      <3>2. tables.boards # {}
        BY <1>4, <3>1 DEF Achieved, Mirrors, BoardMirror
      <3>3. u.board_columns = columns /\ u.column_statuses = {}
        BY <1>1, <1>4, <3>2 DEF CleanBoardColumns, TableNames
      <3>4. {c[1] : c \in columns} = DOMAIN raw.columns
        <4>1. \A c \in columns : c[1] \in DOMAIN raw.columns
          OBVIOUS
        <4>2. \A c \in DOMAIN raw.columns : \E d \in columns : d[1] = c
          <5> SUFFICES ASSUME NEW c \in DOMAIN raw.columns
                       PROVE  \E d \in columns : d[1] = c
            OBVIOUS
          <5>1. <<c, tables.rebuilds + 1>> \in columns
            OBVIOUS
          <5> QED
            BY <5>1
        <4> HIDE DEF columns
        <4> QED
          BY <4>1, <4>2
      <3> HIDE DEF u, columns
      <3>5. ColumnsMirror(u.board_columns, u.column_statuses, raw)
        BY <3>3, <3>4 DEF ColumnsMirror
      <3> QED
        BY <3>5 DEF Mirrors
    <2>2. "board_columns" \in Steps /\ \A s \in Steps \ {"board_columns"} : About[s] \cap ns = {}
      BY DEF Steps, Upstream, About
    <2> SUFFICES Outcome(D, "board_columns", u)
      OBVIOUS
    <2> HIDE DEF u
    <2>3. Only(tables, u, ns)
      BY <1>1 DEF u
    <2> QED
      BY <2>1, <2>2, <2>3, OneStep, Selections
  <1>5. Outcome(D, "column_statuses", CleanColumnStatuses(tables, raw))
    <2> DEFINE u == CleanColumnStatuses(tables, raw)
               new == UNION {{<<col, s>> : s \in raw.columns[col[1]] \cap DOMAIN tables.issue_statuses} :
                             col \in {c \in tables.board_columns : c[1] \in DOMAIN raw.columns}}
    <2>1. u.column_statuses = tables.column_statuses \cup new
      BY <1>1 DEF CleanColumnStatuses, TableNames
    <2>2. \A k \in new : k[1] \in tables.board_columns /\ k[2] \in raw.columns[k[1][1]]
      OBVIOUS
    <2> SUFFICES Outcome(D, "column_statuses", u)
      OBVIOUS
    <2>3. u.board_columns = tables.board_columns
      BY <1>1 DEF Only, TableNames
    <2>4. Only(tables, u, {"column_statuses"})
      BY <1>1
    <2> HIDE DEF u, new
    <2>5. ASSUME NEW s \in D
          PROVE  Mirrors(s, u, raw)
      <3>1. s \in Steps /\ Mirrors(s, tables, raw)
        BY Selections DEF Achieved, Closed
      <3>2. CASE s = "board_columns"
        <4>1. ColumnsMirror(tables.board_columns, tables.column_statuses, raw)
          BY <3>1, <3>2 DEF Mirrors
        <4>2. ColumnsMirror(u.board_columns, u.column_statuses, raw)
          BY <2>1, <2>2, <2>3, <4>1 DEF ColumnsMirror
        <4> QED
          BY <3>2, <4>2 DEF Mirrors
      <3>3. CASE s # "board_columns"
        <4>1. About[s] \cap {"column_statuses"} = {}
          BY <3>1, <3>3 DEF Steps, Upstream, About
        <4> QED
          BY <2>4, <3>1, <4>1, OnlyKeeps
      <3> QED
        BY <3>2, <3>3
    <2>6. Mirrors("column_statuses", u, raw)
      BY DEF Mirrors
    <2> QED
      BY <2>5, <2>6 DEF Outcome
  <1> QED
    BY <1>3, <1>4, <1>5

-----------------------------------------------------------------------------
\* Sprints.
LEMMA SprintsOutcomes ==
    ASSUME TypeInv, Given, NEW D, Achieved(D, tables, raw)
    PROVE  /\ "sprints" \in world.steps => Outcome(D, "sprints", CleanSprints(tables, raw))
           /\ Outcome(D, "sprint_issues", CleanSprintIssues(tables, raw))
           /\ Outcome(D, "sprint_issues_changelog", CleanSprintIssuesChangelog(tables, raw))
  <1>1. /\ DOMAIN tables = TableNames
        /\ Only(tables, CleanSprints(tables, raw), {"sprints"})
        /\ Only(tables, CleanSprintIssues(tables, raw), {"sprint_issues"})
        /\ Only(tables, CleanSprintIssuesChangelog(tables, raw), {"sprint_issues_changelog"})
    BY Frames DEF TypeInv, RefsOk
  <1>2. ASSUME "sprints" \in world.steps
        PROVE  Outcome(D, "sprints", CleanSprints(tables, raw))
    <2> DEFINE u == CleanSprints(tables, raw)
    <2>1. u.sprints = Upserted(tables.sprints, raw.sprints)
      BY <1>1 DEF CleanSprints, TableNames
    <2>2. u.sprint_issues = tables.sprint_issues /\ Only(tables, u, {"sprints"})
      BY <1>1 DEF Only, TableNames
    <2> SUFFICES Outcome(D, "sprints", u)
      OBVIOUS
    <2> HIDE DEF u
    <2>3. Mirrors("sprints", u, raw)
      BY <2>1 DEF Mirrors, CopyOf, Upserted
    <2>4. ASSUME "sprint_issues" \in D
          PROVE  Mirrors("sprint_issues", u, raw)
      <3>1. "sprints" \in D
        BY <1>2, <2>4 DEF Achieved, Closed, Upstream
      <3>2. CopyOf(tables.sprints, raw.sprints)
        BY <3>1 DEF Achieved, Mirrors
      <3>3. \A s \in DOMAIN tables.sprints : u.sprints[s] = tables.sprints[s]
        BY <2>1, <3>2 DEF CopyOf, Upserted
      <3>4. \A k \in DOMAIN tables.sprint_issues : k[1] \in DOMAIN tables.sprints
        BY DEF TypeInv, RefsOk, check_sprint_issues_integrity
      <3> QED
        BY <2>2, <2>4, <3>3, <3>4 DEF Achieved, Mirrors, check_closed_sprint_issues_inactive
    <2>5. ASSUME NEW s \in D
          PROVE  Mirrors(s, u, raw)
      <3>1. s \in Steps /\ Mirrors(s, tables, raw)
        BY Selections DEF Achieved, Closed
      <3>2. CASE s \in {"sprints", "sprint_issues"}
        BY <2>3, <2>4, <3>2
      <3>3. CASE s \notin {"sprints", "sprint_issues"}
        <4>1. About[s] \cap {"sprints"} = {}
          BY <3>1, <3>3 DEF Steps, Upstream, About
        <4> QED
          BY <2>2, <3>1, <4>1, OnlyKeeps
      <3> QED
        BY <3>2, <3>3
    <2> QED
      BY <2>3, <2>5 DEF Outcome
  <1>3. Outcome(D, "sprint_issues", CleanSprintIssues(tables, raw))
    <2> DEFINE u == CleanSprintIssues(tables, raw)
               rows == Upserted(tables.sprint_issues,
                    Members(KnownEvents(WholeSetEvents(raw) \cup SnapshotEvents(raw), tables,
                                        tables.sprints)))
    <2>1. "items" \in raw.tables => u.sprint_issues =
            [p \in DOMAIN rows |-> rows[p] /\ tables.sprints[p[1]] # "closed"]
      BY <1>1 DEF CleanSprintIssues, TableNames
    <2>2. Only(tables, u, {"sprint_issues"}) /\ u.sprints = tables.sprints
      BY <1>1 DEF Only, TableNames
    <2> SUFFICES Outcome(D, "sprint_issues", u)
      OBVIOUS
    <2> HIDE DEF u, rows
    <2>3. Mirrors("sprint_issues", u, raw)
      BY <2>1, <2>2 DEF Mirrors, check_closed_sprint_issues_inactive
    <2>4. "sprint_issues" \in Steps
          /\ \A s \in Steps \ {"sprint_issues"} : About[s] \cap {"sprint_issues"} = {}
      BY DEF Steps, Upstream, About
    <2> QED
      BY <2>2, <2>3, <2>4, OneStep, Selections
  <1>4. Outcome(D, "sprint_issues_changelog", CleanSprintIssuesChangelog(tables, raw))
    <2> DEFINE x == "sprint_issues_changelog"
               u == CleanSprintIssuesChangelog(tables, raw)
    <2>1. x \in Steps /\ \A s \in Steps \ {x} : About[s] \cap {x} = {}
      BY DEF Steps, Upstream, About
    <2>2. Mirrors(x, u, raw)
      BY DEF Mirrors
    <2> QED
      BY <1>1, <2>1, <2>2, OneStep, Selections
  <1> QED
    BY <1>2, <1>3, <1>4
-----------------------------------------------------------------------------
\* The latest of some events: of those of the last time, a removal if there is one.
LEMMA LatestEvent ==
    ASSUME NEW n \in Nat, NEW events, events # {},
           \A e \in events : e.at \in 1 .. n /\ e.action \in {"added", "removed"}
    PROVE  /\ Latest(events) \in events
           /\ \A f \in events :
                \/ f.at < Latest(events).at
                \/ /\ f.at = Latest(events).at
                   /\ Latest(events).action = "removed" \/ f.action = "added"
  <1> DEFINE times == {e.at : e \in events}
             NewestOf(e) == \A f \in events :
                f.at < e.at \/ (f.at = e.at /\ (e.action = "removed" \/ f.action = "added"))
  <1>1. \E e \in events : NewestOf(e)
    <2>1. times \in SUBSET Int /\ times # {} /\ times \subseteq 1 .. n
      OBVIOUS
    <2>2. IsFiniteSet(times)
      <3>1. IsFiniteSet(1 .. n)
        BY FS_Interval
      <3> HIDE DEF times
      <3> QED
        BY <2>1, <3>1, FS_Subset
    <2>3. PICK last \in times : \A x \in times : x <= last
      <3> HIDE DEF times
      <3> QED
        BY <2>1, <2>2, GreatestInteger
    <2>4. \A e \in events : e.at \in Int /\ e.at <= last
      BY <2>3
    <2>5. CASE \E e \in events : e.at = last /\ e.action = "removed"
      BY <2>4, <2>5
    <2>6. CASE \A e \in events : e.at = last => e.action = "added"
      BY <2>3, <2>4, <2>6
    <2> QED
      BY <2>5, <2>6
  <1>2. Latest(events) = CHOOSE e \in events : NewestOf(e)
    BY DEF Latest
  <1>3. Latest(events) \in events /\ NewestOf(Latest(events))
    BY <1>1, <1>2
  <1> QED
    BY <1>3

\* What the members of a set of events are.
LEMMA MembersAre ==
    ASSUME NEW events, NEW table, NEW u, u = Upserted(table, Members(events)), NEW x, NEW i,
           NEW mine, mine = {e \in events : e.of = x /\ e.issue = i}
    PROVE  /\ mine # {} => (Active(u, x, i) <=> Latest(mine).action = "added")
           /\ mine = {} => (Active(u, x, i) <=> Active(table, x, i))
  <1> DEFINE p == <<x, i>>
             rows == Members(events)
  <1>1. \A e \in events : <<e.of, e.issue>> = p <=> e.of = x /\ e.issue = i
    OBVIOUS
  <1>2. {e \in events : <<e.of, e.issue>> = p} = mine
    BY <1>1
  <1>3. p \in DOMAIN rows <=> mine # {}
    BY <1>1 DEF Members
  <1>4. p \in DOMAIN rows => rows[p] = (Latest(mine).action = "added")
    BY <1>2 DEF Members
  <1>5. /\ p \in DOMAIN rows => p \in DOMAIN u /\ u[p] = rows[p]
        /\ p \notin DOMAIN rows => (p \in DOMAIN u <=> p \in DOMAIN table)
        /\ p \notin DOMAIN rows /\ p \in DOMAIN u => u[p] = table[p]
    <2> HIDE DEF rows
    <2> QED
      BY DEF Upserted, rows
  <1> HIDE DEF rows
  <1> QED
    BY <1>3, <1>4, <1>5 DEF Active
-----------------------------------------------------------------------------
\* Releases.
LEMMA ReleaseHistory ==
    ASSUME TypeInv, NEW i \in Loaded(raw), NEW f \in raw.issues[i].fixes,
           NEW mine, mine = {e \in FixEvents(raw) : e.of = f.version /\ e.issue = i}
    PROVE  /\ mine # {}
           /\ Latest(mine).action = "added" <=> f.version \in raw.issues[i].versions
  <1> DEFINE issue == raw.issues[i]
             fixes == {g \in issue.fixes : g.version = f.version}
             event(g) == Event(i, g.version, g.at, g.action)
  <1>1. edits \in Nat /\ OneAtATime(issue.fixes, edits) /\ VersionsOk(issue)
    BY DEF TypeInv, JiraInv, RawInv, IssueOk
  <1>2. /\ \A g \in fixes : event(g) \in mine
        /\ \A e \in mine : \E g \in fixes : e = event(g)
    <2>1. ASSUME NEW g \in fixes
          PROVE  event(g) \in mine
      BY DEF FixEvents, Event
    <2>2. ASSUME NEW e \in mine
          PROVE  \E g \in fixes : e = event(g)
      <3>1. PICK j \in Loaded(raw) : \E g \in raw.issues[j].fixes :
                e = Event(j, g.version, g.at, g.action)
        BY DEF FixEvents
      <3>2. PICK g \in raw.issues[j].fixes : e = Event(j, g.version, g.at, g.action)
        BY <3>1
      <3>3. e.of = g.version /\ e.issue = j
        BY <3>2 DEF Event
      <3> QED
        BY <3>2, <3>3
    <2> HIDE DEF event, fixes
    <2> QED
      BY <2>1, <2>2
  <1>3. \A g \in fixes : /\ event(g).at = g.at /\ event(g).action = g.action
                         /\ g.at \in 1 .. edits /\ g.action \in {"added", "removed"}
    BY <1>1 DEF Event, OneAtATime, VersionsOk
  <1>4. f \in fixes
    OBVIOUS
  <1>5. \A e \in mine : e.at \in 1 .. edits /\ e.action \in {"added", "removed"}
    BY <1>2, <1>3
  <1>6. mine # {}
    BY <1>2, <1>4
  <1>7. /\ Latest(mine) \in mine
        /\ \A e \in mine : e.at <= Latest(mine).at
    <2>1. \A e \in mine : e.at \in Int
      BY <1>5
    <2>2. /\ Latest(mine) \in mine
          /\ \A e \in mine : e.at < Latest(mine).at \/ e.at = Latest(mine).at
      BY <1>1, <1>5, <1>6, LatestEvent
    <2>3. ASSUME NEW e \in mine
          PROVE  e.at <= Latest(mine).at
      <3>1. e.at \in Int /\ Latest(mine).at \in Int
        BY <2>1, <2>2
      <3> QED
        BY <2>2, <3>1
    <2> QED
      BY <2>2, <2>3
  <1>8. PICK g \in fixes : Latest(mine) = event(g)
    BY <1>2, <1>7
  <1>9. \A h \in issue.fixes : h.version = g.version => h.at <= g.at
    <2>1. ASSUME NEW h \in issue.fixes, h.version = g.version
          PROVE  h.at <= g.at
      <3>1. h \in fixes
        BY <2>1
      <3>2. event(h) \in mine
        BY <1>2, <3>1
      <3> QED
        BY <1>3, <1>7, <1>8, <3>1, <3>2
    <2> QED
      BY <2>1
  <1>10. g \in issue.fixes /\ g.version = f.version
    OBVIOUS
  <1>11. g.action = "added" <=> g.version \in issue.versions
    BY <1>1, <1>9, <1>10 DEF VersionsOk
  <1> QED
    BY <1>3, <1>6, <1>8, <1>10, <1>11

LEMMA ReleasesOutcomes ==
    ASSUME TypeInv, Given, NEW D, Achieved(D, tables, raw)
    PROVE  /\ Outcome(D, "releases", CleanReleases(tables, raw))
           /\ Outcome(D, "release_issues", CleanReleaseIssues(tables, raw))
           /\ Outcome(D, "release_issues_changelog", CleanReleaseIssuesChangelog(tables, raw))
  <1>1. /\ DOMAIN tables = TableNames
        /\ Only(tables, CleanReleases(tables, raw), {"releases"})
        /\ Only(tables, CleanReleaseIssues(tables, raw), {"release_issues"})
        /\ Only(tables, CleanReleaseIssuesChangelog(tables, raw), {"release_issues_changelog"})
    BY Frames DEF TypeInv, RefsOk
  <1>2. Mirrors("releases", CleanReleases(tables, raw), raw)
    BY <1>1 DEF Mirrors, CopyOf, CleanReleases, Upserted, TableNames
  <1>3. ASSUME Reached(D, "release_issues")
        PROVE  Mirrors("release_issues", CleanReleaseIssues(tables, raw), raw)
    <2> DEFINE u == CleanReleaseIssues(tables, raw)
               events == KnownEvents(FixEvents(raw), tables, tables.releases)
    <2>1. "releases" \in D
      BY <1>3, Selections DEF Reached, Upstream, Selectable
    <2>2. "issues" \in D
      BY <1>3, <2>1, Selections DEF Reached, Upstream, Selectable, Achieved, Closed
    <2>3. CopyOf(tables.releases, raw.versions) /\ DOMAIN tables.issues = Loaded(raw)
      BY <2>1, <2>2, IssuesKnown DEF Achieved, Mirrors
    <2>4. tables.releases # <<>> =>
            u.release_issues = Upserted(tables.release_issues, Members(events))
      BY <1>1 DEF CleanReleaseIssues, TableNames
    <2> SUFFICES Mirrors("release_issues", u, raw)
      OBVIOUS
    <2> HIDE DEF u
    <2>5. ASSUME NEW i \in Loaded(raw), NEW f \in raw.issues[i].fixes,
                 f.version \in DOMAIN raw.versions
          PROVE  Active(u.release_issues, f.version, i) <=> f.version \in raw.issues[i].versions
      <3> DEFINE mine == {e \in FixEvents(raw) : e.of = f.version /\ e.issue = i}
      <3>1. f.version \in DOMAIN tables.releases
        BY <2>3, <2>5 DEF CopyOf
      <3>2. tables.releases # <<>>
        BY <3>1
      <3>3. {e \in events : e.of = f.version /\ e.issue = i} = mine
        BY <2>3, <3>1 DEF KnownEvents
      <3>4. mine # {} /\ (Latest(mine).action = "added" <=> f.version \in raw.issues[i].versions)
        BY ReleaseHistory
      <3> HIDE DEF mine, events
      <3>5. Active(u.release_issues, f.version, i) <=> Latest(mine).action = "added"
        BY <2>4, <3>2, <3>3, <3>4, MembersAre
      <3> QED
        BY <3>4, <3>5
    <2>6. ReleaseMirror(u.release_issues, raw)
      BY <2>5 DEF ReleaseMirror
    <2> QED
      BY <2>6 DEF Mirrors
  <1>4. Mirrors("release_issues_changelog", CleanReleaseIssuesChangelog(tables, raw), raw)
    BY DEF Mirrors
  <1>5. \A x \in {"releases", "release_issues", "release_issues_changelog"} :
            x \in Steps /\ \A s \in Steps \ {x} : About[s] \cap {x} = {}
    BY DEF Steps, Upstream, About
  <1>6. ASSUME NEW x \in {"releases", "release_issues", "release_issues_changelog"},
               NEW u, Only(tables, u, {x}), Reached(D, x) => Mirrors(x, u, raw)
        PROVE  Outcome(D, x, u)
    BY <1>5, <1>6, OneStep, Selections
  <1> QED
    BY <1>1, <1>2, <1>3, <1>4, <1>6

-----------------------------------------------------------------------------
\* Fields.
LEMMA FieldsOutcomes ==
    ASSUME TypeInv, Given, NEW D, Achieved(D, tables, raw)
    PROVE  /\ Outcome(D, "field_keys", CleanFieldKeys(tables, raw))
           /\ Outcome(D, "sprint_field_key", CleanSprintFieldKey(tables, raw))
           /\ Outcome(D, "field_values", CleanFieldValues(tables, raw))
           /\ Outcome(D, "sprint_values", CleanSprintValues(tables, raw))
           /\ Outcome(D, "field_value_changelog", CleanFieldValueChangelog(tables, raw))
  <1>1. /\ DOMAIN tables = TableNames
        /\ Only(tables, CleanFieldKeys(tables, raw), {"field_keys"})
        /\ Only(tables, CleanSprintFieldKey(tables, raw), {"field_keys"})
        /\ Only(tables, CleanFieldValues(tables, raw), {"field_values"})
        /\ Only(tables, CleanSprintValues(tables, raw), {"field_values"})
        /\ Only(tables, CleanFieldValueChangelog(tables, raw), {"field_value_changelog"})
    BY Frames DEF TypeInv, RefsOk
  <1>2. \A i \in Loaded(raw) :
            /\ raw.issues[i].points # Nothing => "points" \in raw.tables
            /\ raw.issues[i].sprints # {} => "sprint" \in raw.tables
            /\ raw.issues[i].pointChanges # {} => "items" \in raw.tables
    BY DEF TypeInv, RawInv, Nested
  <1>3. \A x \in {"field_values", "sprint_values", "field_value_changelog"} :
            Reached(D, x) => {"issues", "field_keys", "sprint_field_key"} \subseteq D
    BY Selections DEF Reached, Upstream, Selectable, Achieved, Closed
  <1>4. ASSUME NEW x \in {"field_values", "sprint_values", "field_value_changelog"}, Reached(D, x)
        PROVE  /\ Joined(tables, raw) = Loaded(raw) /\ "sprint" \in tables.field_keys
               /\ "points" \in raw.tables => "points" \in tables.field_keys
    BY <1>3, <1>4, IssuesKnown DEF Achieved, Mirrors, KeysMirror
  <1>5. Outcome(D, "field_keys", CleanFieldKeys(tables, raw))
        /\ Outcome(D, "sprint_field_key", CleanSprintFieldKey(tables, raw))
    <2>1. ASSUME NEW u, Only(tables, u, {"field_keys"}), tables.field_keys \subseteq u.field_keys,
                 NEW s \in D
          PROVE  Mirrors(s, u, raw)
      <3>1. s \in Steps /\ Mirrors(s, tables, raw)
        BY Selections DEF Achieved, Closed
      <3>2. CASE s \in {"field_keys", "sprint_field_key"}
        BY <2>1, <3>1, <3>2 DEF Mirrors, KeysMirror
      <3>3. CASE s \notin {"field_keys", "sprint_field_key"}
        <4>1. About[s] \cap {"field_keys"} = {}
          BY <3>1, <3>3 DEF Steps, Upstream, About
        <4> QED
          BY <2>1, <3>1, <4>1, OnlyKeeps
      <3> QED
        BY <3>2, <3>3
    <2>2. /\ CleanFieldKeys(tables, raw).field_keys = tables.field_keys \cup (raw.tables \cap {"points"})
          /\ CleanSprintFieldKey(tables, raw).field_keys = tables.field_keys \cup {"sprint"}
      BY <1>1 DEF CleanFieldKeys, CleanSprintFieldKey, TableNames
    <2>3. /\ Mirrors("field_keys", CleanFieldKeys(tables, raw), raw)
          /\ Mirrors("sprint_field_key", CleanSprintFieldKey(tables, raw), raw)
      BY <2>2 DEF Mirrors, KeysMirror
    <2> QED
      BY <1>1, <2>1, <2>2, <2>3 DEF Outcome
  <1>6. Outcome(D, "field_values", CleanFieldValues(tables, raw))
    <2> DEFINE u == CleanFieldValues(tables, raw)
               set == {i \in Joined(tables, raw) : raw.issues[i].points # Nothing}
               rows == Values(set, "points", [i \in set |-> raw.issues[i].points])
    <2>1. u.field_values = IF "points" \notin tables.field_keys THEN tables.field_values
                           ELSE Upserted(tables.field_values, rows)
      BY <1>1 DEF CleanFieldValues, TableNames
    <2>2. DOMAIN rows = set \X {"points"} /\ \A i \in set : rows[<<i, "points">>] = raw.issues[i].points
      BY DEF Values
    <2> SUFFICES Outcome(D, "field_values", u)
      OBVIOUS
    <2>3. Only(tables, u, {"field_values"})
      BY <1>1
    <2> HIDE DEF u, rows
    <2>4. ASSUME Reached(D, "field_values")
          PROVE  Mirrors("field_values", u, raw)
      <3>1. \A i \in Loaded(raw) : raw.issues[i].points # Nothing =>
                i \in set /\ "points" \in tables.field_keys
        BY <1>2, <1>4, <2>4
      <3>2. PointsMirror(u.field_values, raw)
        BY <2>1, <2>2, <3>1 DEF PointsMirror, Upserted
      <3> QED
        BY <3>2 DEF Mirrors
    <2>5. ASSUME "sprint_values" \in D
          PROVE  Mirrors("sprint_values", u, raw)
      <3>1. SprintFieldMirror(tables.field_values, raw)
        BY <2>5 DEF Achieved, Mirrors
      <3>2. \A i : <<i, "sprint">> \notin DOMAIN rows
        BY <2>2
      <3>3. SprintFieldMirror(u.field_values, raw)
        BY <2>1, <3>1, <3>2 DEF SprintFieldMirror, Upserted
      <3> QED
        BY <3>3 DEF Mirrors
    <2>6. ASSUME NEW s \in D
          PROVE  Mirrors(s, u, raw)
      <3>1. s \in Steps /\ Mirrors(s, tables, raw)
        BY Selections DEF Achieved, Closed
      <3>2. CASE s = "field_values"
        BY <2>4, <3>2 DEF Reached, Achieved, Closed
      <3>3. CASE s = "sprint_values"
        BY <2>5, <3>3
      <3>4. CASE s \notin {"field_values", "sprint_values"}
        <4>1. About[s] \cap {"field_values"} = {}
          BY <3>1, <3>4 DEF Steps, Upstream, About
        <4> QED
          BY <2>3, <3>1, <4>1, OnlyKeeps
      <3> QED
        BY <3>2, <3>3, <3>4
    <2> QED
      BY <2>4, <2>6 DEF Outcome
  <1>7. Outcome(D, "sprint_values", CleanSprintValues(tables, raw))
    <2> DEFINE u == CleanSprintValues(tables, raw)
               set == {i \in Joined(tables, raw) : raw.issues[i].sprints # {}}
               rows == Values(set, "sprint", [i \in set |-> raw.issues[i].sprints])
    <2>1. u.field_values = IF "sprint" \notin tables.field_keys \cap raw.tables
                           THEN tables.field_values
                           ELSE Upserted(tables.field_values, rows)
      BY <1>1 DEF CleanSprintValues, TableNames
    <2>2. DOMAIN rows = set \X {"sprint"} /\ \A i \in set : rows[<<i, "sprint">>] = raw.issues[i].sprints
      BY DEF Values
    <2> SUFFICES Outcome(D, "sprint_values", u)
      OBVIOUS
    <2>3. Only(tables, u, {"field_values"})
      BY <1>1
    <2> HIDE DEF u, rows
    <2>4. ASSUME Reached(D, "sprint_values")
          PROVE  Mirrors("sprint_values", u, raw)
      <3>1. \A i \in Loaded(raw) : raw.issues[i].sprints # {} =>
                i \in set /\ "sprint" \in tables.field_keys \cap raw.tables
        BY <1>2, <1>4, <2>4
      <3>2. SprintFieldMirror(u.field_values, raw)
        BY <2>1, <2>2, <3>1 DEF SprintFieldMirror, Upserted
      <3> QED
        BY <3>2 DEF Mirrors
    <2>5. ASSUME "field_values" \in D
          PROVE  Mirrors("field_values", u, raw)
      <3>1. PointsMirror(tables.field_values, raw)
        BY <2>5 DEF Achieved, Mirrors
      <3>2. \A i : <<i, "points">> \notin DOMAIN rows
        BY <2>2
      <3>3. PointsMirror(u.field_values, raw)
        BY <2>1, <3>1, <3>2 DEF PointsMirror, Upserted
      <3> QED
        BY <3>3 DEF Mirrors
    <2>6. ASSUME NEW s \in D
          PROVE  Mirrors(s, u, raw)
      <3>1. s \in Steps /\ Mirrors(s, tables, raw)
        BY Selections DEF Achieved, Closed
      <3>2. CASE s = "sprint_values"
        BY <2>4, <3>2 DEF Reached, Achieved, Closed
      <3>3. CASE s = "field_values"
        BY <2>5, <3>3
      <3>4. CASE s \notin {"field_values", "sprint_values"}
        <4>1. About[s] \cap {"field_values"} = {}
          BY <3>1, <3>4 DEF Steps, Upstream, About
        <4> QED
          BY <2>3, <3>1, <4>1, OnlyKeeps
      <3> QED
        BY <3>2, <3>3, <3>4
    <2> QED
      BY <2>4, <2>6 DEF Outcome
  <1>8. Outcome(D, "field_value_changelog", CleanFieldValueChangelog(tables, raw))
    <2> DEFINE x == "field_value_changelog"
               u == CleanFieldValueChangelog(tables, raw)
    <2>1. x \in Steps /\ \A s \in Steps \ {x} : About[s] \cap {x} = {}
      BY DEF Steps, Upstream, About
    <2>2. ASSUME Reached(D, x)
          PROVE  Mirrors(x, u, raw)
      <3>1. /\ Joined(tables, raw) = Loaded(raw)
            /\ "points" \in raw.tables => "points" \in tables.field_keys
        BY <1>4, <2>2
      <3>2. "items" \in raw.tables /\ "points" \in tables.field_keys =>
                u.field_value_changelog = tables.field_value_changelog \cup
                    UNION {{<<i, c>> : c \in raw.issues[i].pointChanges} : i \in Loaded(raw)}
        BY <1>1, <3>1 DEF CleanFieldValueChangelog, TableNames
      <3> SUFFICES Mirrors(x, u, raw)
        OBVIOUS
      <3> HIDE DEF u
      <3>3. ASSUME "points" \in raw.tables, NEW i \in Loaded(raw), NEW c \in raw.issues[i].pointChanges
            PROVE  <<i, c>> \in u.field_value_changelog
        <4>1. "items" \in raw.tables /\ "points" \in tables.field_keys
          BY <1>2, <3>1, <3>3
        <4> QED
          BY <3>2, <4>1
      <3> QED
        BY <3>3 DEF Mirrors, PointChangesMirror
    <2> SUFFICES Outcome(D, x, u)
      OBVIOUS
    <2>3. Only(tables, u, {x})
      BY <1>1
    <2> HIDE DEF u, x
    <2> QED
      BY <2>1, <2>2, <2>3, OneStep, Selections
  <1> QED
    BY <1>5, <1>6, <1>7, <1>8
-----------------------------------------------------------------------------
\* The property logs. A sprint or version never goes back to an earlier state, and the raw
\* and the clean tables follow it; so a row of a log read later is never of an earlier
\* state, whichever run writes it, and whenever.
Rank == [future |-> 0, active |-> 1, closed |-> 2, unreleased |-> 3, released |-> 4]

Behind(a, b) ==
    \A x \in DOMAIN a : /\ x \in DOMAIN b /\ {a[x], b[x]} \subseteq DOMAIN Rank
                        /\ Rank[a[x]] <= Rank[b[x]]

\* Rows read until the clock was n, from a table that has moved on since.
Ordered(rows, table, n) ==
    /\ \A x \in rows : /\ x.at \in 1 .. n /\ x.of \in DOMAIN table
                       /\ {x.new, table[x.of]} \subseteq DOMAIN Rank
                       /\ Rank[x.new] <= Rank[table[x.of]]
    /\ \A x, y \in rows : x.of = y.of /\ x.at <= y.at => Rank[x.new] <= Rank[y.new]

\* The rows of a log, and those runs are about to write.
Rows(step) ==
    tables[step] \cup
        UNION {runs[r].diff[step] : r \in {q \in DOMAIN runs : step \in DOMAIN runs[q].diff}}

RawOf(step) == IF step = "sprint_changelog" THEN raw.sprints ELSE raw.versions

LogInv ==
    /\ Behind(raw.sprints, jira.sprints) /\ Behind(raw.versions, jira.versions)
    /\ Behind(tables.sprints, raw.sprints) /\ Behind(tables.releases, raw.versions)
    /\ Ordered(Rows("sprint_changelog"), tables.sprints, diffs)
    /\ Ordered(Rows("release_changelog"), tables.releases, diffs)
    /\ \A r \in DOMAIN runs : ~runs[r].stale =>
            \A step \in DOMAIN runs[r].diff :
                LogMirror(tables[step] \cup runs[r].diff[step], RawOf(step))

LEMMA Ranks ==
    /\ DOMAIN Rank = {"future", "active", "closed", "unreleased", "released"}
    /\ Rank \in [DOMAIN Rank -> Int] /\ Nothing \notin DOMAIN Rank
    /\ \A a, b \in DOMAIN Rank : Rank[a] = Rank[b] => a = b
    /\ Rank.future < Rank.active /\ Rank.active < Rank.closed
    /\ Rank.unreleased < Rank.released
  BY CleanLayerAssumption DEF Rank

LEMMA BehindIsTransitive ==
    ASSUME NEW a, NEW b, NEW c, Behind(a, b), Behind(b, c)
    PROVE  Behind(a, c)
  <1> SUFFICES ASSUME NEW x \in DOMAIN a
               PROVE  /\ x \in DOMAIN c /\ {a[x], c[x]} \subseteq DOMAIN Rank
                      /\ Rank[a[x]] <= Rank[c[x]]
    BY DEF Behind
  <1>1. /\ x \in DOMAIN c /\ {a[x], b[x], c[x]} \subseteq DOMAIN Rank
        /\ Rank[a[x]] <= Rank[b[x]] /\ Rank[b[x]] <= Rank[c[x]]
    BY DEF Behind
  <1>2. Rank[a[x]] \in Int /\ Rank[b[x]] \in Int /\ Rank[c[x]] \in Int
    BY <1>1, Ranks
  <1> QED
    BY <1>1, <1>2

LEMMA BehindItself ==
    ASSUME NEW a, \A x \in DOMAIN a : a[x] \in DOMAIN Rank
    PROVE  Behind(a, a)
  BY Ranks DEF Behind

\* A table that is upserted from one it was behind.
LEMMA UpsertCatchesUp ==
    ASSUME NEW a, NEW b, Behind(a, b), NEW c, Behind(b, c), NEW u, u = Upserted(a, b)
    PROVE  Behind(u, b) /\ Behind(a, u)
  <1>1. /\ DOMAIN u = DOMAIN b /\ \A x \in DOMAIN u : u[x] = b[x]
    BY DEF Upserted, Behind
  <1>2. \A x \in DOMAIN b : b[x] \in DOMAIN Rank /\ Rank[b[x]] \in Int
    BY Ranks DEF Behind
  <1> QED
    BY <1>1, <1>2 DEF Behind

\* Rows stay ordered when their table moves on.
LEMMA OrderedFollows ==
    ASSUME NEW rows, NEW a, NEW n, Ordered(rows, a, n), NEW b, Behind(a, b)
    PROVE  Ordered(rows, b, n)
  <1>1. ASSUME NEW x \in rows
        PROVE  /\ x.at \in 1 .. n /\ x.of \in DOMAIN b
               /\ {x.new, b[x.of]} \subseteq DOMAIN Rank /\ Rank[x.new] <= Rank[b[x.of]]
    <2>1. /\ x.of \in DOMAIN a /\ {x.new, a[x.of]} \subseteq DOMAIN Rank
          /\ Rank[x.new] <= Rank[a[x.of]]
      BY DEF Ordered
    <2>2. /\ x.of \in DOMAIN b /\ b[x.of] \in DOMAIN Rank /\ Rank[a[x.of]] <= Rank[b[x.of]]
      BY <2>1 DEF Behind
    <2>3. Rank[x.new] \in Int /\ Rank[a[x.of]] \in Int /\ Rank[b[x.of]] \in Int
      BY <2>1, <2>2, Ranks
    <2> QED
      BY <2>1, <2>2, <2>3 DEF Ordered
  <1> QED
    BY <1>1 DEF Ordered

\* A snapshot adds rows that come after all others.
LEMMA SnapshotIsOrdered ==
    ASSUME NEW n \in Nat, NEW rows, NEW table, Ordered(rows, table, n), NEW log,
           \A x \in DOMAIN table : table[x] \in DOMAIN Rank
    PROVE  Ordered(rows \cup SnapshotDiff(table, log, n + 1), table, n + 1)
  <1> DEFINE new == SnapshotDiff(table, log, n + 1)
  <1>1. \A x \in new : x.at = n + 1 /\ x.of \in DOMAIN table /\ x.new = table[x.of]
    BY DEF SnapshotDiff
  <1> HIDE DEF new
  <1>2. \A x \in DOMAIN table : table[x] \in DOMAIN Rank /\ Rank[table[x]] \in Int
    BY Ranks
  <1>3. \A x \in rows : /\ x.at \in Int /\ x.at <= n /\ x.at \in 1 .. n + 1
                        /\ x.of \in DOMAIN table
                        /\ {x.new, table[x.of]} \subseteq DOMAIN Rank
                        /\ Rank[x.new] <= Rank[table[x.of]]
    BY DEF Ordered
  <1>4. ASSUME NEW x \in rows \cup new
        PROVE  /\ x.at \in 1 .. n + 1 /\ x.of \in DOMAIN table
               /\ {x.new, table[x.of]} \subseteq DOMAIN Rank
               /\ Rank[x.new] <= Rank[table[x.of]]
    BY <1>1, <1>2, <1>3
  <1>5. ASSUME NEW x \in rows \cup new, NEW y \in rows \cup new, x.of = y.of, x.at <= y.at
        PROVE  Rank[x.new] <= Rank[y.new]
    <2>1. CASE x \in rows /\ y \in rows
      BY <1>5, <2>1 DEF Ordered
    <2>2. CASE y \in new
      BY <1>1, <1>4, <1>5, <2>2
    <2>3. CASE x \in new /\ y \in rows
      BY <1>1, <1>3, <1>5, <2>3
    <2> QED
      BY <2>1, <2>2, <2>3
  <1> QED
    BY <1>4, <1>5 DEF Ordered, new

\* The value a log gives last is that of a row.
LEMMA LastKnownRow ==
    ASSUME NEW n \in Nat, NEW log, NEW x, \A r \in log : r.at \in 1 .. n,
           \E r \in log : r.of = x
    PROVE  \E r \in log : /\ r.of = x /\ LastKnown(log, x) = r.new
                          /\ \A s \in log : s.of = x => s.at <= r.at
  <1> DEFINE rows == {r \in log : r.of = x}
             times == {r.at : r \in rows}
             last == CHOOSE r \in rows : \A s \in rows : s.at <= r.at
  <1>1. times \in SUBSET Int /\ times # {} /\ times \subseteq 1 .. n
    OBVIOUS
  <1>2. IsFiniteSet(times)
    <2>1. IsFiniteSet(1 .. n)
      BY FS_Interval
    <2> HIDE DEF times
    <2> QED
      BY <1>1, <2>1, FS_Subset
  <1>3. PICK t \in times : \A s \in times : s <= t
    <2> HIDE DEF times
    <2> QED
      BY <1>1, <1>2, GreatestInteger
  <1>4. \E r \in rows : \A s \in rows : s.at <= r.at
    BY <1>3
  <1>5. last \in rows /\ \A s \in rows : s.at <= last.at
    <2> HIDE DEF rows
    <2> QED
      BY <1>4
  <1>6. rows # {} /\ LastKnown(log, x) = last.new
    BY <1>4 DEF LastKnown
  <1> HIDE DEF last
  <1> QED
    BY <1>5, <1>6
LEMMA LogInit == Init => LogInv
  <1> SUFFICES ASSUME Init
               PROVE  LogInv
    OBVIOUS
  <1>1. /\ raw.sprints = <<>> /\ raw.versions = <<>> /\ tables.sprints = <<>>
        /\ tables.releases = <<>> /\ tables.sprint_changelog = {}
        /\ tables.release_changelog = {} /\ runs = <<>>
    BY DEF Init, NewRaw, NewTables
  <1>2. Rows("sprint_changelog") = {} /\ Rows("release_changelog") = {}
    BY <1>1 DEF Rows
  <1> QED
    BY <1>1, <1>2 DEF LogInv, Behind, Ordered

\* The statements leave the logs and their tables alone, or bring a table up to date.
LEMMA CommitKeepsLogs ==
    ASSUME LogInv, RunsInv, DOMAIN runs' = DOMAIN runs, UNCHANGED <<raw, jira, diffs>>,
           \A q \in DOMAIN runs : runs'[q].diff = runs[q].diff /\ runs'[q].stale = runs[q].stale,
           tables'.sprint_changelog = tables.sprint_changelog,
           tables'.release_changelog = tables.release_changelog,
           tables'.sprints = tables.sprints
             \/ tables'.sprints = Upserted(tables.sprints, raw.sprints),
           tables'.releases = tables.releases
             \/ tables'.releases = Upserted(tables.releases, raw.versions)
    PROVE  LogInv'
  <1>1. Behind(tables'.sprints, raw.sprints)
        /\ Ordered(Rows("sprint_changelog"), tables'.sprints, diffs)
    BY UpsertCatchesUp, OrderedFollows DEF LogInv
  <1>2. Behind(tables'.releases, raw.versions)
        /\ Ordered(Rows("release_changelog"), tables'.releases, diffs)
    BY UpsertCatchesUp, OrderedFollows DEF LogInv
  <1>3. Rows("sprint_changelog")' = Rows("sprint_changelog")
        /\ Rows("release_changelog")' = Rows("release_changelog")
    <2>1. ASSUME NEW step \in Logs
          PROVE  {runs'[r].diff[step] : r \in {q \in DOMAIN runs' : step \in DOMAIN runs'[q].diff}}
               = {runs[r].diff[step] : r \in {q \in DOMAIN runs : step \in DOMAIN runs[q].diff}}
      OBVIOUS
    <2> QED
      BY <2>1 DEF Rows, Logs
  <1>4. ASSUME NEW r \in DOMAIN runs', ~runs'[r].stale, NEW step \in DOMAIN runs'[r].diff
        PROVE  LogMirror(tables'[step] \cup runs'[r].diff[step], RawOf(step)')
    <2>1. step \in Logs
      BY DEF RunsInv
    <2> QED
      BY <1>4, <2>1 DEF LogInv, Logs, RawOf
  <1> QED
    BY <1>1, <1>2, <1>3, <1>4 DEF LogInv
\* Who writes a log.
LEMMA WriteKeepsLogs ==
    ASSUME LogInv, RunsInv, DOMAIN runs' = DOMAIN runs, UNCHANGED <<raw, jira, diffs>>,
           \A q \in DOMAIN runs : runs'[q].diff = runs[q].diff /\ runs'[q].stale = runs[q].stale,
           NEW r \in DOMAIN runs, NEW step \in Logs, step \in DOMAIN runs[r].diff,
           DOMAIN tables = TableNames, Only(tables, tables', {step}),
           tables'[step] = tables[step] \cup runs[r].diff[step]
    PROVE  /\ LogInv'
           /\ ~runs[r].stale => LogMirror(tables'[step], RawOf(step))
  <1>1. tables'.sprints = tables.sprints /\ tables'.releases = tables.releases
    BY DEF Only, TableNames, Logs
  <1>2. ASSUME NEW s \in Logs
        PROVE  Rows(s)' = Rows(s) /\ tables[s] \subseteq tables'[s]
    <2>1. {runs'[q].diff[s] : q \in {q \in DOMAIN runs' : s \in DOMAIN runs'[q].diff}}
            = {runs[q].diff[s] : q \in {q \in DOMAIN runs : s \in DOMAIN runs[q].diff}}
      OBVIOUS
    <2>2. CASE s = step
      <3>1. runs[r].diff[s] \subseteq
                UNION {runs[q].diff[s] : q \in {q \in DOMAIN runs : s \in DOMAIN runs[q].diff}}
        BY <2>2
      <3> QED
        BY <2>1, <2>2, <3>1 DEF Rows
    <2>3. CASE s # step
      <3>1. tables'[s] = tables[s]
        BY <2>3 DEF Only, TableNames, Logs
      <3> QED
        BY <2>1, <3>1 DEF Rows
    <2> QED
      BY <2>2, <2>3
  <1>3. Rows("sprint_changelog")' = Rows("sprint_changelog")
        /\ Rows("release_changelog")' = Rows("release_changelog")
    BY <1>2 DEF Logs
  <1>4. ASSUME NEW q \in DOMAIN runs, ~runs[q].stale, NEW s \in DOMAIN runs[q].diff
        PROVE  LogMirror(tables'[s] \cup runs'[q].diff[s], RawOf(s))
    <2>1. s \in Logs
      BY DEF RunsInv
    <2>2. tables[s] \subseteq tables'[s] /\ runs'[q].diff[s] = runs[q].diff[s]
      BY <1>2, <2>1
    <2>3. LogMirror(tables[s] \cup runs[q].diff[s], RawOf(s))
      BY <1>4 DEF LogInv
    <2> QED
      BY <2>2, <2>3 DEF LogMirror
  <1>5. RawOf("sprint_changelog")' = RawOf("sprint_changelog")
        /\ \A s : RawOf(s)' = RawOf(s)
    BY DEF RawOf
  <1>6. LogInv'
    BY <1>1, <1>3, <1>4, <1>5 DEF LogInv
  <1>7. ASSUME ~runs[r].stale
        PROVE  LogMirror(tables'[step], RawOf(step))
    <2>1. LogMirror(tables'[step] \cup runs'[r].diff[step], RawOf(step))
      BY <1>4, <1>7
    <2>2. tables'[step] \cup runs'[r].diff[step] = tables'[step]
      OBVIOUS
    <2> QED
      BY <2>1, <2>2
  <1> QED
    BY <1>6, <1>7

\* Who reads it: a run that has the table up to date finds, or will write, each value.
LEMMA SnapshotMirrors ==
    ASSUME NEW n \in Nat, NEW log, NEW table, NEW rows, \A r \in log : r.at \in 1 .. n,
           CopyOf(table, rows), \A x \in DOMAIN rows : rows[x] \in DOMAIN Rank
    PROVE  LogMirror(log \cup SnapshotDiff(table, log, n + 1), rows)
  <1> SUFFICES ASSUME NEW x \in DOMAIN rows
               PROVE  \E r \in log \cup SnapshotDiff(table, log, n + 1) : r.of = x /\ r.new = rows[x]
    BY DEF LogMirror
  <1>1. x \in DOMAIN table /\ table[x] = rows[x] /\ rows[x] # Nothing
    BY Ranks DEF CopyOf
  <1>2. CASE LastKnown(log, x) = table[x]
    <2>1. \E r \in log : r.of = x
      BY <1>1, <1>2 DEF LastKnown
    <2>2. \E r \in log : r.of = x /\ LastKnown(log, x) = r.new
      BY <2>1, LastKnownRow
    <2> QED
      BY <1>1, <1>2, <2>2
  <1>3. CASE LastKnown(log, x) # table[x]
    <2> DEFINE row == [of |-> x, old |-> LastKnown(log, x), new |-> table[x], at |-> n + 1]
    <2>1. row \in SnapshotDiff(table, log, n + 1)
      BY <1>1, <1>3 DEF SnapshotDiff
    <2> QED
      BY <1>1, <2>1
  <1> QED
    BY <1>2, <1>3

LEMMA UnionGrows ==
    ASSUME NEW A, NEW B, NEW n, n \in A, \A d \in B : d \in A, \A d \in A : d = n \/ d \in B
    PROVE  UNION A = (UNION B) \cup n
  <1>1. ASSUME NEW x \in UNION A
        PROVE  x \in (UNION B) \cup n
    BY <1>1
  <1>2. ASSUME NEW x \in (UNION B) \cup n
        PROVE  x \in UNION A
    BY <1>2
  <1> QED
    BY <1>1, <1>2

LEMMA ReadKeepsLogs ==
    ASSUME TypeInv, MirrorInv, LogInv, NEW r \in DOMAIN runs,
           \/ ReadLog(r, "sprint_changelog", tables.sprints)
           \/ ReadLog(r, "release_changelog", tables.releases)
    PROVE  LogInv'
  <1>a. PICK step \in Logs : \E table :
            /\ ReadLog(r, step, table)
            /\ \/ step = "sprint_changelog" /\ table = tables.sprints
               \/ step = "release_changelog" /\ table = tables.releases
    BY DEF Logs
  <1>1. PICK table :
            /\ ReadLog(r, step, table)
            /\ \/ step = "sprint_changelog" /\ table = tables.sprints
               \/ step = "release_changelog" /\ table = tables.releases
    BY <1>a
  <1> DEFINE new == SnapshotDiff(table, tables[step], diffs + 1)
  <1>2. /\ UNCHANGED <<world, jira, touched, raw, tables, edits, loads>>
        /\ diffs' = diffs + 1 /\ Ready(r, step) /\ DOMAIN runs' = DOMAIN runs
        /\ \A k \in DOMAIN runs : runs'[k].stale = runs[k].stale
        /\ \A k \in DOMAIN runs \ {r} : runs'[k] = runs[k]
        /\ DOMAIN runs'[r].diff = DOMAIN runs[r].diff \cup {step}
        /\ step \notin DOMAIN runs[r].diff /\ runs'[r].diff[step] = new
        /\ \A k \in DOMAIN runs[r].diff : runs'[r].diff[k] = runs[r].diff[k]
    BY <1>1, ReadKeepsRuns DEF TypeInv
  <1>3. diffs \in Nat
    BY DEF TypeInv, RunsInv
  <1>4. \A x \in DOMAIN table : table[x] \in DOMAIN Rank
    BY <1>1 DEF LogInv, Behind
  <1> HIDE DEF new
  <1>5. Rows(step)' = Rows(step) \cup new
    <2> DEFINE diffsOf == {runs[q].diff[step] : q \in {q \in DOMAIN runs : step \in DOMAIN runs[q].diff}}
               after == {runs'[q].diff[step] : q \in {q \in DOMAIN runs' : step \in DOMAIN runs'[q].diff}}
    <2>1. new \in after
      BY <1>2
    <2>2. \A d \in diffsOf : d \in after
      BY <1>2
    <2>3. \A d \in after : d = new \/ d \in diffsOf
      BY <1>2
    <2>4. UNION after = (UNION diffsOf) \cup new
      <3> HIDE DEF diffsOf, after
      <3> QED
        BY <2>1, <2>2, <2>3, UnionGrows
    <2>5. Rows(step)' = tables'[step] \cup UNION after /\ Rows(step) = tables[step] \cup UNION diffsOf
      BY DEF Rows
    <2>6. tables' = tables
      BY <1>2
    <2> QED
      BY <2>4, <2>5, <2>6
  <1>6. ASSUME NEW s \in Logs \ {step}
        PROVE  Rows(s)' = Rows(s)
    <2>1. \A q \in DOMAIN runs : /\ s \in DOMAIN runs'[q].diff <=> s \in DOMAIN runs[q].diff
                                 /\ s \in DOMAIN runs[q].diff => runs'[q].diff[s] = runs[q].diff[s]
      BY <1>2, <1>6
    <2>2. {runs'[q].diff[s] : q \in {q \in DOMAIN runs' : s \in DOMAIN runs'[q].diff}}
            = {runs[q].diff[s] : q \in {q \in DOMAIN runs : s \in DOMAIN runs[q].diff}}
      BY <1>2, <2>1
    <2> QED
      BY <1>2, <2>2 DEF Rows
  <1>7. ASSUME NEW s \in Logs, NEW t, Ordered(Rows(s), t, diffs)
        PROVE  s # step => Ordered(Rows(s)', t, diffs')
    <2>1. ASSUME s # step
          PROVE  Rows(s)' = Rows(s)
      BY <1>6, <2>1
    <2>2. 1 .. diffs \subseteq 1 .. diffs'
      BY <1>2, <1>3
    <2> QED
      BY <1>7, <2>1, <2>2 DEF Ordered
  <1>8. Ordered(Rows(step), table, diffs)
    BY <1>1 DEF LogInv
  <1>9. Ordered(Rows(step)', table, diffs')
    BY <1>2, <1>3, <1>4, <1>5, <1>8, SnapshotIsOrdered DEF new
  <1>10. /\ Ordered(Rows("sprint_changelog")', tables'.sprints, diffs')
         /\ Ordered(Rows("release_changelog")', tables'.releases, diffs')
    <2>1. CASE step = "sprint_changelog" /\ table = tables.sprints
      <3>1. Ordered(Rows("sprint_changelog")', tables'.sprints, diffs')
        BY <1>2, <1>9, <2>1
      <3>2. Ordered(Rows("release_changelog")', tables'.releases, diffs')
        BY <1>2, <1>7, <2>1 DEF Logs, LogInv
      <3> QED
        BY <3>1, <3>2
    <2>2. CASE step = "release_changelog" /\ table = tables.releases
      <3>1. Ordered(Rows("release_changelog")', tables'.releases, diffs')
        BY <1>2, <1>9, <2>2
      <3>2. Ordered(Rows("sprint_changelog")', tables'.sprints, diffs')
        BY <1>2, <1>7, <2>2 DEF Logs, LogInv
      <3> QED
        BY <3>1, <3>2
    <2> QED
      BY <1>1, <2>1, <2>2
  <1>11. ASSUME ~runs[r].stale
         PROVE  LogMirror(tables[step] \cup new, RawOf(step))
    <2>1. CopyOf(table, RawOf(step))
      <3>1. CASE step = "sprint_changelog" /\ table = tables.sprints
        <4>1. "sprints" \in runs[r].done
          BY <1>2, <3>1, Selections DEF Ready, Upstream, Selectable
        <4> QED
          BY <1>11, <3>1, <4>1 DEF MirrorInv, Mirrors, RawOf
      <3>2. CASE step = "release_changelog" /\ table = tables.releases
        <4>1. "releases" \in runs[r].done
          BY <1>2, <3>2, Selections DEF Ready, Upstream, Selectable
        <4> QED
          BY <1>11, <3>2, <4>1 DEF MirrorInv, Mirrors, RawOf
      <3> QED
        BY <1>1, <3>1, <3>2
    <2>2. \A x \in DOMAIN RawOf(step) : RawOf(step)[x] \in DOMAIN Rank
      BY DEF RawOf, LogInv, Behind
    <2>3. \A x \in tables[step] : x.at \in 1 .. diffs
      BY <1>8 DEF Ordered, Rows
    <2> QED
      BY <1>3, <2>1, <2>2, <2>3, SnapshotMirrors DEF new
  <1>12. ASSUME NEW q \in DOMAIN runs', ~runs'[q].stale, NEW s \in DOMAIN runs'[q].diff
         PROVE  LogMirror(tables'[s] \cup runs'[q].diff[s], RawOf(s)')
    <2>1. RawOf(s)' = RawOf(s) /\ tables' = tables
      BY <1>2 DEF RawOf
    <2>2. CASE q = r /\ s = step
      BY <1>2, <1>11, <1>12, <2>1, <2>2
    <2>3. CASE ~(q = r /\ s = step)
      <3>1. s \in DOMAIN runs[q].diff /\ runs'[q].diff[s] = runs[q].diff[s] /\ ~runs[q].stale
        BY <1>2, <1>12, <2>3
      <3> QED
        BY <1>2, <2>1, <3>1 DEF LogInv
    <2> QED
      BY <2>2, <2>3
  <1> QED
    BY <1>2, <1>10, <1>12 DEF LogInv
-----------------------------------------------------------------------------
\* What people may do to issues, sprints and versions, as far as their history goes.
OpenSprint == {{}} \cup {{s} : s \in Open(Sprints, jira.sprints)}

Planned(x, y) ==
    \E sprint \in OpenSprint :
        LET to == (x.sprints \ Open(x.sprints, jira.sprints)) \cup sprint
        IN  /\ to # x.sprints /\ y.sprints = to
            /\ y.moves = x.moves \cup {[at |-> edits + 1, from |-> x.sprints, to |-> to]}

Edited(x, y) ==
    /\ y.type = x.type /\ y.created = x.created
    /\ (y.moves = x.moves /\ y.sprints = x.sprints) \/ Planned(x, y)

LEMMA PeopleEdits ==
    ASSUME JiraInv, People
    PROVE  /\ DOMAIN jira.issues \subseteq DOMAIN jira'.issues
           /\ \A i \in DOMAIN jira.issues : Edited(jira.issues[i], jira'.issues[i])
           /\ \A i \in DOMAIN jira'.issues \ DOMAIN jira.issues :
                    /\ jira'.issues[i].type = <<1, "Task">> /\ jira'.issues[i].moves = {}
                    /\ jira'.issues[i].sprints \in OpenSprint
           /\ Behind(jira.sprints, jira'.sprints) /\ Behind(jira.versions, jira'.versions)
           /\ jira'.sprints = jira.sprints \/ jira'.issues = jira.issues
  <1> DEFINE Goal ==
        /\ DOMAIN jira.issues \subseteq DOMAIN jira'.issues
        /\ \A i \in DOMAIN jira.issues : Edited(jira.issues[i], jira'.issues[i])
        /\ \A i \in DOMAIN jira'.issues \ DOMAIN jira.issues :
                 /\ jira'.issues[i].type = <<1, "Task">> /\ jira'.issues[i].moves = {}
                 /\ jira'.issues[i].sprints \in OpenSprint
        /\ Behind(jira.sprints, jira'.sprints) /\ Behind(jira.versions, jira'.versions)
        /\ jira'.sprints = jira.sprints \/ jira'.issues = jira.issues
  <1>1. \A i \in DOMAIN jira.issues : Edited(jira.issues[i], jira.issues[i])
    BY DEF Edited
  <1>2. Behind(jira.sprints, jira.sprints) /\ Behind(jira.versions, jira.versions)
    <2>1. /\ \A s \in DOMAIN jira.sprints : jira.sprints[s] \in DOMAIN Rank
          /\ \A s \in DOMAIN jira.versions : jira.versions[s] \in DOMAIN Rank
      BY Ranks DEF JiraInv
    <2> QED
      BY <2>1, BehindItself
  <1>3. ASSUME NEW i, NEW p, NEW v, CreateIssue(i, p, v)
        PROVE  Goal
    <2> DEFINE issue == [created |-> Now, type |-> <<1, "Task">>, status |-> InitialStatus,
                         changes |-> {}, sprints |-> p, moves |-> {}, versions |-> v,
                         fixes |-> {}, rows |-> {}, points |-> Nothing, pointChanges |-> {},
                         assigned |-> FALSE]
    <2>1. /\ i \notin DOMAIN jira.issues /\ p \in OpenSprint
          /\ jira' = [jira EXCEPT !.issues = Upserted(@, [j \in {i} |-> issue])]
      BY <1>3 DEF CreateIssue, OpenSprint
    <2>2. issue.type = <<1, "Task">> /\ issue.moves = {} /\ issue.sprints = p
      OBVIOUS
    <2> HIDE DEF issue
    <2>3. /\ jira'.sprints = jira.sprints /\ jira'.versions = jira.versions
          /\ jira'.issues = Upserted(jira.issues, [j \in {i} |-> issue])
      BY <2>1 DEF JiraInv, JiraFields
    <2>4. /\ DOMAIN jira'.issues = DOMAIN jira.issues \cup {i} /\ jira'.issues[i] = issue
          /\ \A j \in DOMAIN jira.issues : jira'.issues[j] = jira.issues[j]
      BY <2>1, <2>3 DEF Upserted
    <2> QED
      BY <1>1, <1>2, <2>1, <2>2, <2>3, <2>4
  <1>4. ASSUME NEW i, NEW new, Change(i, new), Edited(jira.issues[i], new)
        PROVE  Goal
    <2>1. /\ i \in DOMAIN jira.issues /\ jira' = [jira EXCEPT !.issues[i] = new]
      BY <1>4 DEF Change
    <2>2. /\ jira'.sprints = jira.sprints /\ jira'.versions = jira.versions
          /\ jira'.issues = [jira.issues EXCEPT ![i] = new]
      BY <2>1 DEF JiraInv, JiraFields
    <2>3. /\ DOMAIN jira'.issues = DOMAIN jira.issues /\ jira'.issues[i] = new
          /\ \A j \in DOMAIN jira.issues \ {i} : jira'.issues[j] = jira.issues[j]
      BY <2>1, <2>2
    <2> QED
      BY <1>1, <1>2, <1>4, <2>2, <2>3
  <1>5. ASSUME NEW i, NEW s, MoveIssue(i, s)
        PROVE  Goal
    <2> DEFINE old == jira.issues[i]
               new == [old EXCEPT !.status = s,
                        !.changes = @ \cup {[at |-> Now, from |-> old.status, to |-> s,
                                             name |-> jira.statusName[s]]}]
    <2>1. i \in DOMAIN jira.issues /\ Change(i, new)
      BY <1>5 DEF MoveIssue
    <2>2. new.type = old.type /\ new.created = old.created /\ new.moves = old.moves
          /\ new.sprints = old.sprints
      BY <2>1 DEF JiraInv, IssueFields
    <2> HIDE DEF new
    <2> QED
      BY <1>4, <2>1, <2>2 DEF Edited
  <1>6. ASSUME NEW i, NEW p \in {{}} \cup {{x} : x \in Sprints}, PlanIssue(i, p)
        PROVE  Goal
    <2> DEFINE old == jira.issues[i]
               to == (old.sprints \ Open(old.sprints, jira.sprints)) \cup p
               new == [old EXCEPT !.sprints = to,
                        !.moves = @ \cup {[at |-> Now, from |-> old.sprints, to |-> to]}]
    <2>1. i \in DOMAIN jira.issues /\ Change(i, new) /\ to # old.sprints /\ p \in OpenSprint
      BY <1>6 DEF PlanIssue, OpenSprint
    <2>2. new.type = old.type /\ new.created = old.created /\ new.sprints = to
          /\ new.moves = old.moves \cup {[at |-> Now, from |-> old.sprints, to |-> to]}
      BY <2>1 DEF JiraInv, IssueFields
    <2> HIDE DEF new
    <2>3. Planned(old, new)
      BY <2>1, <2>2 DEF Planned, Now
    <2> QED
      BY <1>4, <2>1, <2>2, <2>3 DEF Edited
  <1>7. ASSUME NEW i, NEW v, NEW a, FixIssue(i, v, a)
        PROVE  Goal
    <2> DEFINE old == jira.issues[i]
               new == [old EXCEPT
                        !.versions = IF a = "added" THEN @ \cup {v} ELSE @ \ {v},
                        !.fixes = @ \cup {[at |-> Now, version |-> v, action |-> a]}]
    <2>1. i \in DOMAIN jira.issues /\ Change(i, new)
      BY <1>7 DEF FixIssue
    <2>2. new.type = old.type /\ new.created = old.created /\ new.moves = old.moves
          /\ new.sprints = old.sprints
      BY <2>1 DEF JiraInv, IssueFields
    <2> HIDE DEF new
    <2> QED
      BY <1>4, <2>1, <2>2 DEF Edited
  <1>8. ASSUME NEW i, NEW kind, ToggleRow(i, kind)
        PROVE  Goal
    <2> DEFINE old == jira.issues[i]
               new == [old EXCEPT
                        !.rows = IF kind \in @ THEN @ \ {kind} ELSE @ \cup {kind}]
    <2>1. i \in DOMAIN jira.issues /\ Change(i, new)
      BY <1>8 DEF ToggleRow
    <2>2. new.type = old.type /\ new.created = old.created /\ new.moves = old.moves
          /\ new.sprints = old.sprints
      BY <2>1 DEF JiraInv, IssueFields
    <2> HIDE DEF new
    <2> QED
      BY <1>4, <2>1, <2>2 DEF Edited
  <1>9. ASSUME NEW i, NEW points, EstimateIssue(i, points)
        PROVE  Goal
    <2> DEFINE old == jira.issues[i]
               new == [old EXCEPT !.points = points,
                !.pointChanges = @ \cup {[at |-> Now, from |-> old.points, to |-> points]}]
    <2>1. i \in DOMAIN jira.issues /\ Change(i, new)
      BY <1>9 DEF EstimateIssue
    <2>2. new.type = old.type /\ new.created = old.created /\ new.moves = old.moves
          /\ new.sprints = old.sprints
      BY <2>1 DEF JiraInv, IssueFields
    <2> HIDE DEF new
    <2> QED
      BY <1>4, <2>1, <2>2 DEF Edited
  <1>10. ASSUME NEW i, AssignIssue(i)
         PROVE  Goal
    <2> DEFINE old == jira.issues[i]
               new == [old EXCEPT !.assigned = TRUE]
    <2>1. i \in DOMAIN jira.issues /\ Change(i, new)
      BY <1>10 DEF AssignIssue
    <2>2. new.type = old.type /\ new.created = old.created /\ new.moves = old.moves
          /\ new.sprints = old.sprints
      BY <2>1 DEF JiraInv, IssueFields
    <2> HIDE DEF new
    <2> QED
      BY <1>4, <2>1, <2>2 DEF Edited
  <1>11. ASSUME \/ \E s \in StatusIds, n \in Names : RenameStatus(s, n)
                \/ RenameUser
                \/ \E c \in Columns, s \in StatusIds : ConfigureColumn(c, s)
                \/ \E a, b \in tables.board_columns : SaveCommitmentRule(a, b)
                \/ \E rule \in tables.commitment_rules : DeleteCommitmentRule(rule)
         PROVE  Goal
    <2>1. /\ jira'.issues = jira.issues /\ jira'.sprints = jira.sprints
          /\ jira'.versions = jira.versions
      BY <1>11 DEF RenameStatus, RenameUser, ConfigureColumn, SaveCommitmentRule,
                   DeleteCommitmentRule, RuleEdit, JiraInv, JiraFields
    <2> QED
      BY <1>1, <1>2, <2>1
  <1>12. ASSUME NEW s \in Sprints, StartSprint(s) \/ CloseSprint(s)
         PROVE  Goal
    <2>1. PICK state : /\ jira' = [jira EXCEPT !.sprints[s] = state]
                       /\ \/ jira.sprints[s] = "future" /\ state = "active"
                          \/ jira.sprints[s] = "active" /\ state = "closed"
      BY <1>12 DEF StartSprint, CloseSprint
    <2>2. /\ jira'.issues = jira.issues /\ jira'.versions = jira.versions
          /\ jira'.sprints = [jira.sprints EXCEPT ![s] = state]
      BY <2>1 DEF JiraInv, JiraFields
    <2>3. Behind(jira.sprints, jira'.sprints)
      BY <1>2, <2>1, <2>2, Ranks DEF Behind, JiraInv
    <2> QED
      BY <1>1, <1>2, <2>2, <2>3
  <1>13. ASSUME NEW v \in Versions, ReleaseVersion(v)
         PROVE  Goal
    <2>1. /\ jira' = [jira EXCEPT !.versions[v] = "released"] /\ jira.versions[v] = "unreleased"
      BY <1>13 DEF ReleaseVersion
    <2>2. /\ jira'.issues = jira.issues /\ jira'.sprints = jira.sprints
          /\ jira'.versions = [jira.versions EXCEPT ![v] = "released"]
      BY <2>1 DEF JiraInv, JiraFields
    <2>3. Behind(jira.versions, jira'.versions)
      BY <1>2, <2>1, <2>2, Ranks DEF Behind, JiraInv
    <2> QED
      BY <1>1, <1>2, <2>2, <2>3
  <1> HIDE DEF Goal
  <1>14. Goal
    BY <1>3, <1>5, <1>6, <1>7, <1>8, <1>9, <1>10, <1>11, <1>12, <1>13 DEF People
  <1> QED
    BY <1>14 DEF Goal
-----------------------------------------------------------------------------
\* What run r commits with a step.
Statement(r, step, u) ==
    \/ step = "issue_types" /\ u = CleanIssueTypes(tables, raw)
    \/ step = "issue_statuses" /\ u = CleanIssueStatuses(tables, raw)
    \/ step = "issues" /\ u = CleanIssues(tables, raw)
    \/ step = "labels" /\ u = CleanLabels(tables, raw)
    \/ step = "issue_labels" /\ u = CleanIssueLabels(tables, raw)
    \/ step = "user_issue_roles" /\ u = CleanUserIssueRoles(tables, raw)
    \/ step = "issue_links" /\ u = CleanIssueLinks(tables, raw)
    \/ step = "status_changelog" /\ u = CleanStatusChangelog(tables, raw)
    \/ step = "boards" /\ u = CleanBoards(tables, raw)
    \/ step = "board_columns" /\ u = CleanBoardColumns(tables, raw)
    \/ step = "column_statuses" /\ u = CleanColumnStatuses(tables, raw)
    \/ step = "sprints" /\ u = CleanSprints(tables, raw)
    \/ step = "sprint_issues" /\ u = CleanSprintIssues(tables, raw)
    \/ step = "sprint_issues_changelog" /\ u = CleanSprintIssuesChangelog(tables, raw)
    \/ /\ step \in Logs /\ step \in DOMAIN runs[r].diff
       /\ Only(tables, u, {step}) /\ u[step] = tables[step] \cup runs[r].diff[step]
    \/ step = "releases" /\ u = CleanReleases(tables, raw)
    \/ step = "release_issues" /\ u = CleanReleaseIssues(tables, raw)
    \/ step = "release_issues_changelog" /\ u = CleanReleaseIssuesChangelog(tables, raw)
    \/ step = "worklogs" /\ u = CleanWorklogs(tables, raw)
    \/ step = "comments" /\ u = CleanComments(tables, raw)
    \/ step = "field_keys" /\ u = CleanFieldKeys(tables, raw)
    \/ step = "sprint_field_key" /\ u = CleanSprintFieldKey(tables, raw)
    \/ step = "field_values" /\ u = CleanFieldValues(tables, raw)
    \/ step = "sprint_values" /\ u = CleanSprintValues(tables, raw)
    \/ step = "field_value_changelog" /\ u = CleanFieldValueChangelog(tables, raw)

LEMMA RunStepIs ==
    ASSUME TypeInv, NEW r \in DOMAIN runs, RunStep(r)
    PROVE  \/ \E step, u : Commit(r, step, u) /\ Statement(r, step, u)
           \/ \E step : FailStep(r, step)
           \/ ReadLog(r, "sprint_changelog", tables.sprints)
           \/ ReadLog(r, "release_changelog", tables.releases)
  <1>1. CASE WriteLog(r, "sprint_changelog") \/ WriteLog(r, "release_changelog")
    <2>1. \E step, u : /\ step \in Logs /\ step \in DOMAIN runs[r].diff /\ Commit(r, step, u)
                       /\ Only(tables, u, {step})
                       /\ u[step] = tables[step] \cup runs[r].diff[step]
      BY <1>1, LogWritten
    <2> QED
      BY <2>1 DEF Statement
  <1>2. CASE ~(WriteLog(r, "sprint_changelog") \/ WriteLog(r, "release_changelog"))
    <2>1. /\ Statement(r, "issue_types", CleanIssueTypes(tables, raw))
         /\ Statement(r, "issue_statuses", CleanIssueStatuses(tables, raw))
         /\ Statement(r, "issues", CleanIssues(tables, raw))
         /\ Statement(r, "labels", CleanLabels(tables, raw))
         /\ Statement(r, "issue_labels", CleanIssueLabels(tables, raw))
         /\ Statement(r, "user_issue_roles", CleanUserIssueRoles(tables, raw))
         /\ Statement(r, "issue_links", CleanIssueLinks(tables, raw))
         /\ Statement(r, "status_changelog", CleanStatusChangelog(tables, raw))
      BY DEF Statement
    <2>2. /\ Statement(r, "boards", CleanBoards(tables, raw))
         /\ Statement(r, "board_columns", CleanBoardColumns(tables, raw))
         /\ Statement(r, "column_statuses", CleanColumnStatuses(tables, raw))
         /\ Statement(r, "sprints", CleanSprints(tables, raw))
         /\ Statement(r, "sprint_issues", CleanSprintIssues(tables, raw))
         /\ Statement(r, "sprint_issues_changelog", CleanSprintIssuesChangelog(tables, raw))
         /\ Statement(r, "releases", CleanReleases(tables, raw))
         /\ Statement(r, "release_issues", CleanReleaseIssues(tables, raw))
      BY DEF Statement
    <2>3. /\ Statement(r, "release_issues_changelog", CleanReleaseIssuesChangelog(tables, raw))
         /\ Statement(r, "worklogs", CleanWorklogs(tables, raw))
         /\ Statement(r, "comments", CleanComments(tables, raw))
         /\ Statement(r, "field_keys", CleanFieldKeys(tables, raw))
         /\ Statement(r, "sprint_field_key", CleanSprintFieldKey(tables, raw))
         /\ Statement(r, "field_values", CleanFieldValues(tables, raw))
         /\ Statement(r, "sprint_values", CleanSprintValues(tables, raw))
         /\ Statement(r, "field_value_changelog", CleanFieldValueChangelog(tables, raw))
      BY DEF Statement
    <2> QED
      BY ONLY <1>2, <2>1, <2>2, <2>3, RunStep(r) DEF RunStep
  <1> QED
    BY <1>1, <1>2

LEMMA LogOutcome ==
    ASSUME TypeInv, NEW D, Achieved(D, tables, raw), NEW step \in Logs, NEW u,
           Only(tables, u, {step}), tables[step] \subseteq u[step]
    PROVE  \A s \in D : Mirrors(s, u, raw)
  <1> SUFFICES ASSUME NEW s \in D
               PROVE  Mirrors(s, u, raw)
    OBVIOUS
  <1>1. s \in Steps /\ Mirrors(s, tables, raw)
    BY Selections DEF Achieved, Closed
  <1>2. CASE s = step
    BY <1>1, <1>2 DEF Mirrors, Logs, LogMirror
  <1>3. CASE s # step
    <2>1. About[s] \cap {step} = {}
      BY <1>1, <1>3 DEF Steps, Upstream, About, Logs
    <2> QED
      BY <1>1, <2>1, OnlyKeeps
  <1> QED
    BY <1>2, <1>3

LEMMA StatementOutcome ==
    ASSUME TypeInv, Given, NEW r \in DOMAIN runs, NEW step, NEW u, Statement(r, step, u),
           step \notin Logs, step \in world.steps, Executable(step),
           NEW D, Achieved(D, tables, raw)
    PROVE  Outcome(D, step, u)
  <1>1. /\ step = "board_columns" => raw.columns # <<>>
        /\ step = "issue_statuses" => CanUpsertNames(tables.issue_statuses, StatusRows(raw))
    BY DEF Executable
  <1>2. /\ Outcome(D, "issue_types", CleanIssueTypes(tables, raw))
        /\ Outcome(D, "issues", CleanIssues(tables, raw))
        /\ Outcome(D, "status_changelog", CleanStatusChangelog(tables, raw))
    BY TypesOutcome, IssuesOutcome, ChangelogOutcome
  <1>3. step = "issue_statuses" => Outcome(D, "issue_statuses", CleanIssueStatuses(tables, raw))
    BY <1>1, StatusesOutcome
  <1>4. CASE step \in {"issue_types", "issue_statuses", "issues", "status_changelog"}
    BY <1>2, <1>3, <1>4 DEF Statement, Logs
  <1>5. CASE step \in {"labels", "issue_labels", "user_issue_roles", "issue_links", "worklogs",
                       "comments"}
    BY <1>5, RowsOutcomes DEF Statement, Logs
  <1>6. CASE step \in {"boards", "board_columns", "column_statuses"}
    BY <1>1, <1>6, BoardsOutcomes DEF Statement, Logs
  <1>7. CASE step \in {"sprints", "sprint_issues", "sprint_issues_changelog"}
    BY <1>7, SprintsOutcomes DEF Statement, Logs
  <1>8. CASE step \in {"releases", "release_issues", "release_issues_changelog"}
    BY <1>8, ReleasesOutcomes DEF Statement, Logs
  <1>9. CASE step \in {"field_keys", "sprint_field_key", "field_values", "sprint_values",
                       "field_value_changelog"}
    BY <1>9, FieldsOutcomes DEF Statement, Logs
  <1> QED
    BY <1>4, <1>5, <1>6, <1>7, <1>8, <1>9 DEF Statement

LEMMA ClosedGrows ==
    ASSUME TypeInv, NEW r \in DOMAIN runs, Closed(runs[r].done), NEW step, Ready(r, step)
    PROVE  Closed(runs[r].done \cup {step}) /\ Reached(runs[r].done, step)
  BY DEF Closed, Ready, Reached

\* Another table than a statement's is as it was.
LEMMA StatementWrites ==
    ASSUME TypeInv, NEW r \in DOMAIN runs, NEW step, NEW u, Statement(r, step, u)
    PROVE  /\ step # "issue_types" => u.issue_types = tables.issue_types
           /\ step # "issue_statuses" => u.issue_statuses = tables.issue_statuses
           /\ step \notin {"board_columns", "column_statuses"} =>
                u.column_statuses = tables.column_statuses
           /\ step # "board_columns" => u.board_columns = tables.board_columns
           /\ step # "sprints" => u.sprints = tables.sprints
           /\ step # "releases" => u.releases = tables.releases
           /\ step # "sprint_issues" => u.sprint_issues = tables.sprint_issues
           /\ step # "sprint_issues_changelog" =>
                u.sprint_issues_changelog = tables.sprint_issues_changelog
           /\ step # "sprint_changelog" => u.sprint_changelog = tables.sprint_changelog
           /\ step # "release_changelog" => u.release_changelog = tables.release_changelog
  <1> DEFINE writes(s) ==
        CASE s = "issues" -> {"jira_users", "issues"}
          [] s = "board_columns" -> {"board_columns", "column_statuses", "rebuilds", "commitment_rules"}
          [] s = "sprint_field_key" -> {"field_keys"}
          [] s = "sprint_values" -> {"field_values"}
          [] OTHER -> {s}
  <1>1. DOMAIN tables = TableNames
    BY DEF TypeInv, RefsOk
  <1>2. Only(tables, u, writes(step))
    <2>1. CASE step \in {"issue_types", "issue_statuses", "status_changelog", "labels",
                         "issue_labels", "user_issue_roles", "issue_links", "worklogs",
                         "comments"}
      <3>1. CASE step \in {"issue_types", "issue_statuses", "status_changelog"}
        <4>1. /\ step = "issue_types" => Only(tables, u, {"issue_types"})
              /\ step = "issue_statuses" => Only(tables, u, {"issue_statuses"})
              /\ step = "status_changelog" => Only(tables, u, {"status_changelog"})
          BY <1>1, <3>1, Frames DEF Statement, Logs
        <4>2. Only(tables, u, {step})
          BY ONLY <3>1, <4>1
        <4> QED
          BY <3>1, <4>2
      <3>2. CASE step \in {"labels", "issue_labels", "user_issue_roles"}
        <4>1. /\ step = "labels" => Only(tables, u, {"labels"})
              /\ step = "issue_labels" => Only(tables, u, {"issue_labels"})
              /\ step = "user_issue_roles" => Only(tables, u, {"user_issue_roles"})
          BY <1>1, <3>2, Frames DEF Statement, Logs
        <4>2. Only(tables, u, {step})
          BY ONLY <3>2, <4>1
        <4> QED
          BY <3>2, <4>2
      <3>3. CASE step \in {"issue_links", "worklogs", "comments"}
        <4>1. /\ step = "issue_links" => Only(tables, u, {"issue_links"})
              /\ step = "worklogs" => Only(tables, u, {"worklogs"})
              /\ step = "comments" => Only(tables, u, {"comments"})
          BY <1>1, <3>3, Frames DEF Statement, Logs
        <4>2. Only(tables, u, {step})
          BY ONLY <3>3, <4>1
        <4> QED
          BY <3>3, <4>2
      <3> QED
        BY <2>1, <3>1, <3>2, <3>3
    <2>2. CASE step \in {"boards", "column_statuses", "sprints", "sprint_issues",
                         "sprint_issues_changelog", "releases", "release_issues",
                         "release_issues_changelog", "field_keys", "field_values",
                         "field_value_changelog"}
      <3>1. CASE step \in {"boards", "column_statuses", "sprints", "sprint_issues"}
        <4>1. /\ step = "boards" => Only(tables, u, {"boards"})
              /\ step = "column_statuses" => Only(tables, u, {"column_statuses"})
              /\ step = "sprints" => Only(tables, u, {"sprints"})
              /\ step = "sprint_issues" => Only(tables, u, {"sprint_issues"})
          BY <1>1, <3>1, Frames DEF Statement, Logs
        <4>2. Only(tables, u, {step})
          BY ONLY <3>1, <4>1
        <4> QED
          BY <3>1, <4>2
      <3>2. CASE step \in {"sprint_issues_changelog", "releases", "release_issues"}
        <4>1. /\ step = "sprint_issues_changelog" => Only(tables, u, {"sprint_issues_changelog"})
              /\ step = "releases" => Only(tables, u, {"releases"})
              /\ step = "release_issues" => Only(tables, u, {"release_issues"})
          BY <1>1, <3>2, Frames DEF Statement, Logs
        <4>2. Only(tables, u, {step})
          BY ONLY <3>2, <4>1
        <4> QED
          BY <3>2, <4>2
      <3>3. CASE step \in {"release_issues_changelog", "field_keys", "field_values",
                           "field_value_changelog"}
        <4>1. /\ step = "release_issues_changelog" => Only(tables, u, {"release_issues_changelog"})
              /\ step = "field_keys" => Only(tables, u, {"field_keys"})
              /\ step = "field_values" => Only(tables, u, {"field_values"})
              /\ step = "field_value_changelog" => Only(tables, u, {"field_value_changelog"})
          BY <1>1, <3>3, Frames DEF Statement, Logs
        <4>2. Only(tables, u, {step})
          BY ONLY <3>3, <4>1
        <4> QED
          BY <3>3, <4>2
      <3> QED
        BY <2>2, <3>1, <3>2, <3>3
    <2>3. CASE step \in {"issues", "board_columns", "sprint_field_key", "sprint_values"}
      <3>1. /\ step = "issues" => Only(tables, u, {"jira_users", "issues"})
            /\ step = "board_columns" => Only(tables, u,
                    {"board_columns", "column_statuses", "rebuilds", "commitment_rules"})
            /\ step = "sprint_field_key" => Only(tables, u, {"field_keys"})
            /\ step = "sprint_values" => Only(tables, u, {"field_values"})
        BY <1>1, <2>3, Frames DEF Statement, Logs
      <3> QED
        BY <2>3, <3>1
    <2>4. CASE step \in Logs
      <3>1. Only(tables, u, {step})
        BY <2>4 DEF Statement, Logs
      <3> QED
        BY <2>4, <3>1 DEF Logs
    <2> QED
      BY <2>1, <2>2, <2>3, <2>4 DEF Statement
  <1>3. \A n \in TableNames \ writes(step) : u[n] = tables[n]
    BY <1>2 DEF Only
  <1>4. {"issue_types", "issue_statuses", "column_statuses", "board_columns", "sprints",
         "releases", "sprint_issues", "sprint_issues_changelog", "sprint_changelog",
         "release_changelog"} \subseteq TableNames
    BY DEF TableNames
  <1> QED
    BY <1>3, <1>4
-----------------------------------------------------------------------------
\* The steps of the system, as the proofs take them.
LEMMA StepKinds ==
    ASSUME TypeInv, [Next]_vars
    PROVE  \/ /\ People /\ UNCHANGED <<world, raw, runs, loads, diffs>>
              /\ Only(tables, tables', {"commitment_rules"})
           \/ LoadIssues
           \/ LoadTables
           \/ StartRun
           \/ \E r \in DOMAIN runs : \E step, u : Commit(r, step, u) /\ Statement(r, step, u)
           \/ \E r \in DOMAIN runs : \E step : FailStep(r, step)
           \/ \E r \in DOMAIN runs : \/ ReadLog(r, "sprint_changelog", tables.sprints)
                                     \/ ReadLog(r, "release_changelog", tables.releases)
           \/ UNCHANGED vars
  <1>1. CASE People
    <2>1. UNCHANGED <<world, raw, runs, loads, diffs>>
      BY <1>1, PeopleKeepRaw DEF TypeInv
    <2>2. Only(tables, tables', {"commitment_rules"})
      <3>1. \/ tables' = tables
            \/ \E a, b \in tables.board_columns : SaveCommitmentRule(a, b)
            \/ \E rule \in tables.commitment_rules : DeleteCommitmentRule(rule)
        BY <1>1 DEF People, CreateIssue, MoveIssue, PlanIssue, FixIssue, ToggleRow,
           EstimateIssue, AssignIssue, RenameStatus, RenameUser, StartSprint, CloseSprint,
           ReleaseVersion, ConfigureColumn, Edit
      <3>2. CASE tables' = tables
        BY <3>2 DEF TypeInv, RefsOk, Only
      <3> QED
        BY <2>1, <3>1, <3>2, RulesKeepRefs DEF TypeInv
    <2> QED
      BY <1>1, <2>1, <2>2
  <1>2. ASSUME NEW r \in DOMAIN runs, RunStep(r)
        PROVE  \/ \E step, u : Commit(r, step, u) /\ Statement(r, step, u)
               \/ \E step : FailStep(r, step)
               \/ ReadLog(r, "sprint_changelog", tables.sprints)
               \/ ReadLog(r, "release_changelog", tables.releases)
    BY <1>2, RunStepIs
  <1> QED
    BY <1>1, <1>2 DEF Next

\* What a commit of a step leaves alone.
LEMMA CommitFrame ==
    ASSUME TypeInv, NEW r \in DOMAIN runs, NEW step, NEW u, Commit(r, step, u), Statement(r, step, u)
    PROVE  /\ UNCHANGED <<world, jira, touched, raw, edits, loads, diffs>> /\ tables' = u
           /\ Executable(step) /\ Ready(r, step) /\ step \in world.steps /\ DOMAIN runs' = DOMAIN runs
           /\ runs'[r].done = runs[r].done \cup {step}
           /\ \A k \in DOMAIN runs \ {r} : runs'[k] = runs[k]
           /\ \A k \in DOMAIN runs : /\ runs'[k].stale = runs[k].stale
                                     /\ runs'[k].diff = runs[k].diff
  <1>1. /\ UNCHANGED <<world, jira, touched, raw, edits, loads, diffs>>
        /\ tables' = u /\ Executable(step) /\ Ready(r, step)
        /\ DOMAIN runs' = DOMAIN runs
        /\ runs'[r].done = runs[r].done \cup {step} /\ runs'[r].stale = runs[r].stale
        /\ runs'[r].diff = runs[r].diff
        /\ \A k \in DOMAIN runs \ {r} : runs'[k] = runs[k]
    BY CommitKeepsRuns DEF TypeInv
  <1>2. step \in world.steps
    BY <1>1 DEF Ready
  <1> QED
    BY <1>1, <1>2

\* What a world begins with stays.
LEMMA GivenInit == Init => Given
  <1> SUFFICES ASSUME Init
               PROVE  Given
    OBVIOUS
  <1>1. /\ "issue_types" \notin world.steps => tables.issue_types = <<"Task">>
        /\ "issue_statuses" \notin world.steps =>
                tables.issue_statuses = [s \in StatusIds |-> s]
        /\ jira.issues = <<>> /\ raw.issues = <<>>
    BY DEF Init, NewTables, NewRaw, Before
  <1>2. DOMAIN <<"Task">> = 1 .. 1
    OBVIOUS
  <1> QED
    BY <1>1, <1>2 DEF Given, Loaded

LEMMA GivenStep ==
    ASSUME TypeInv, Given, [Next]_vars
    PROVE  Given'
  <1>1. ASSUME UNCHANGED <<world, jira, raw>>, tables'.issue_types = tables.issue_types \/ "issue_types" \in world.steps,
               tables'.issue_statuses = tables.issue_statuses \/ "issue_statuses" \in world.steps
        PROVE  Given'
    BY <1>1 DEF Given
  <1>2. CASE /\ People /\ UNCHANGED <<world, raw, runs, loads, diffs>>
             /\ Only(tables, tables', {"commitment_rules"})
    <2>1. /\ tables'.issue_types = tables.issue_types
          /\ tables'.issue_statuses = tables.issue_statuses
      BY <1>2 DEF Only, TableNames
    <2>2. \A i \in DOMAIN jira'.issues : jira'.issues[i].type = <<1, "Task">>
      BY <1>2, PeopleEdits DEF TypeInv, Edited, Given
    <2> QED
      BY <1>2, <2>1, <2>2 DEF Given
  <1>3. CASE LoadIssues
    <2>1. /\ UNCHANGED <<world, jira, tables>>
          /\ raw' = [raw EXCEPT
                !.issues = Upserted(@, [i \in touched |-> Fetched(i)]),
                !.tables = @ \cup UNION {Nested(jira.issues[i]) : i \in touched}]
      BY <1>3 DEF LoadIssues, Load
    <2>2. raw'.issues = Upserted(raw.issues, [i \in touched |-> Fetched(i)])
      BY <2>1 DEF TypeInv, RawInv, RawFields
    <2>3. \A i \in touched : Fetched(i).type = <<1, "Task">>
      BY FetchedIsTheIssue DEF TypeInv, JiraInv, IssueFields, Given
    <2>4. \A i \in Loaded(raw') : raw'.issues[i].type = <<1, "Task">>
      BY <2>2, <2>3 DEF Loaded, Upserted, Given
    <2> QED
      BY <2>1, <2>4 DEF Given
  <1>4. CASE LoadTables
    <2>1. UNCHANGED <<world, jira, tables>> /\ raw'.issues = raw.issues
      BY <1>4, TablesLoaded DEF LoadTables, Load, TypeInv
    <2> QED
      BY <2>1 DEF Given, Loaded
  <1>5. CASE StartRun
    BY <1>1, <1>5 DEF StartRun
  <1>6. ASSUME NEW r \in DOMAIN runs, NEW step, NEW u, Commit(r, step, u), Statement(r, step, u)
        PROVE  Given'
    <2>1. UNCHANGED <<world, jira, raw>> /\ tables' = u /\ step \in world.steps
      BY <1>6, CommitFrame
    <2>2. /\ step # "issue_types" => u.issue_types = tables.issue_types
          /\ step # "issue_statuses" => u.issue_statuses = tables.issue_statuses
      BY <1>6, StatementWrites
    <2> QED
      BY <1>1, <2>1, <2>2
  <1>7. CASE \E r \in DOMAIN runs : \E step : FailStep(r, step)
    BY <1>1, <1>7 DEF FailStep
  <1>8. CASE \E r \in DOMAIN runs : \/ ReadLog(r, "sprint_changelog", tables.sprints)
                                    \/ ReadLog(r, "release_changelog", tables.releases)
    BY <1>1, <1>8 DEF ReadLog
  <1>9. CASE UNCHANGED vars
    BY <1>1, <1>9 DEF vars
  <1> QED
    BY <1>2, <1>3, <1>4, <1>5, <1>6, <1>7, <1>8, <1>9, StepKinds
-----------------------------------------------------------------------------
\* A run that is not outdated keeps what it has achieved, whoever takes a step.
LEMMA MirrorInit == Init => MirrorInv
  <1> SUFFICES ASSUME Init
               PROVE  MirrorInv
    OBVIOUS
  <1>1. runs = <<>>
    BY DEF Init
  <1> QED
    BY <1>1 DEF MirrorInv

LEMMA CommitKeepsMirrors ==
    ASSUME TypeInv, Given, MirrorInv, LogInv,
           NEW r \in DOMAIN runs, NEW step, NEW u, Commit(r, step, u), Statement(r, step, u)
    PROVE  MirrorInv'
  <1>1. /\ UNCHANGED <<world, jira, raw, diffs>> /\ tables' = u /\ Executable(step)
        /\ Ready(r, step) /\ step \in world.steps /\ DOMAIN runs' = DOMAIN runs
        /\ runs'[r].done = runs[r].done \cup {step}
        /\ \A k \in DOMAIN runs \ {r} : runs'[k] = runs[k]
        /\ \A k \in DOMAIN runs : runs'[k].stale = runs[k].stale /\ runs'[k].diff = runs[k].diff
    BY CommitFrame
  <1>2. Closed(runs[r].done \cup {step}) /\ Reached(runs[r].done, step)
    BY <1>1, ClosedGrows DEF MirrorInv
  <1>3. ASSUME NEW q \in DOMAIN runs
        PROVE  Closed(runs[q].done)'
    BY <1>1, <1>2 DEF Closed, MirrorInv
  <1>4. ASSUME NEW q \in DOMAIN runs, ~runs[q].stale, step \notin Logs
        PROVE  Outcome(runs[q].done, step, u)
    <2>1. Achieved(runs[q].done, tables, raw)
      BY <1>4 DEF MirrorInv, Achieved
    <2> QED
      BY <1>1, <1>4, <2>1, StatementOutcome
  <1>5. ASSUME step \in Logs
        PROVE  /\ step \in DOMAIN runs[r].diff /\ Only(tables, u, {step})
               /\ u[step] = tables[step] \cup runs[r].diff[step]
    BY <1>5 DEF Statement, Logs
  <1>6. ASSUME NEW q \in DOMAIN runs, ~runs[q].stale
        PROVE  \A s \in runs[q].done : Mirrors(s, u, raw)
    <2>1. CASE step \notin Logs
      BY <1>4, <1>6, <2>1 DEF Outcome
    <2>2. CASE step \in Logs
      <3>1. Achieved(runs[q].done, tables, raw)
        BY <1>6 DEF MirrorInv, Achieved
      <3> QED
        BY <1>5, <2>2, <3>1, LogOutcome
    <2> QED
      BY <2>1, <2>2
  <1>7. ASSUME ~runs[r].stale
        PROVE  Mirrors(step, u, raw)
    <2>1. CASE step \notin Logs
      BY <1>2, <1>4, <1>7, <2>1 DEF Outcome
    <2>2. CASE step \in Logs
      <3>1. RunsInv /\ DOMAIN tables = TableNames
        BY DEF TypeInv, RefsOk
      <3>2. /\ Only(tables, tables', {step})
            /\ tables'[step] = tables[step] \cup runs[r].diff[step]
            /\ step \in DOMAIN runs[r].diff
        BY <1>1, <1>5, <2>2
      <3>3. \A q \in DOMAIN runs : runs'[q].diff = runs[q].diff /\ runs'[q].stale = runs[q].stale
        BY <1>1
      <3>4. UNCHANGED <<raw, jira, diffs>> /\ DOMAIN runs' = DOMAIN runs
        BY <1>1
      <3>5. ~runs[r].stale => LogMirror(tables'[step], RawOf(step))
        BY <2>2, <3>1, <3>2, <3>3, <3>4, WriteKeepsLogs
      <3> QED
        BY <1>1, <1>7, <2>2, <3>5 DEF Mirrors, RawOf, Logs
    <2> QED
      BY <2>1, <2>2
  <1>8. ASSUME NEW q \in DOMAIN runs', ~runs'[q].stale, NEW s \in runs'[q].done
        PROVE  Mirrors(s, tables', raw')
    <2>1. ~runs[q].stale
      BY <1>1, <1>8
    <2>2. CASE s \in runs[q].done
      BY <1>1, <1>6, <2>1, <2>2
    <2>3. CASE s \notin runs[q].done
      <3>1. q = r /\ s = step
        BY <1>1, <1>8, <2>3
      <3> QED
        BY <1>1, <1>7, <2>1, <3>1
    <2> QED
      BY <2>2, <2>3
  <1> QED
    BY <1>1, <1>3, <1>8 DEF Closed, MirrorInv

LEMMA MirrorStep ==
    ASSUME TypeInv, Given, MirrorInv, LogInv, [Next]_vars
    PROVE  MirrorInv'
  <1>1. ASSUME world' = world, DOMAIN runs' = DOMAIN runs,
               \A q \in DOMAIN runs : runs'[q].done = runs[q].done
        PROVE  \A q \in DOMAIN runs' : Closed(runs[q].done)'
    BY <1>1 DEF Closed, MirrorInv
  <1>2. CASE /\ People /\ UNCHANGED <<world, raw, runs, loads, diffs>>
             /\ Only(tables, tables', {"commitment_rules"})
    <2>1. ASSUME NEW q \in DOMAIN runs, ~runs[q].stale, NEW s \in runs[q].done
          PROVE  Mirrors(s, tables', raw)
      <3>1. s \in Steps /\ Mirrors(s, tables, raw)
        BY <2>1, Selections DEF MirrorInv, Closed
      <3>2. About[s] \cap {"commitment_rules"} = {}
        BY <3>1 DEF Steps, Upstream, About
      <3> QED
        BY <1>2, <3>1, <3>2, OnlyKeeps
    <2> QED
      BY <1>1, <1>2, <2>1 DEF Closed, MirrorInv
  <1>3. CASE LoadIssues \/ LoadTables
    <2>1. /\ world' = world /\ DOMAIN runs' = DOMAIN runs
          /\ \A q \in DOMAIN runs : runs'[q].stale = TRUE /\ runs'[q].done = runs[q].done
      BY <1>3, LoadKeepsRuns DEF LoadIssues, LoadTables, TypeInv
    <2> QED
      BY <1>1, <2>1 DEF Closed, MirrorInv
  <1>4. CASE StartRun
    <2>1. /\ UNCHANGED <<world, raw, tables>>
          /\ \E n : /\ DOMAIN runs' = DOMAIN runs \cup {n} /\ runs'[n].done = {}
                    /\ \A k \in DOMAIN runs : runs'[k] = runs[k]
      BY <1>4, StartKeepsRuns DEF TypeInv
    <2>2. \A D : Closed(D)' <=> Closed(D)
      BY <2>1 DEF Closed
    <2>3. Closed({})
      BY DEF Closed
    <2> QED
      BY <2>1, <2>2, <2>3 DEF MirrorInv
  <1>5. CASE \E r \in DOMAIN runs : \E step, u : Commit(r, step, u) /\ Statement(r, step, u)
    BY <1>5, CommitKeepsMirrors
  <1>6. ASSUME UNCHANGED <<world, raw, tables>>, DOMAIN runs' = DOMAIN runs,
               \A k \in DOMAIN runs : /\ runs'[k].done = runs[k].done
                                      /\ runs'[k].stale = runs[k].stale
        PROVE  MirrorInv'
    BY <1>1, <1>6 DEF Closed, MirrorInv
  <1>7. CASE \E r \in DOMAIN runs : \E step : FailStep(r, step)
    BY <1>6, <1>7, FailKeepsRuns DEF TypeInv
  <1>8. CASE \E r \in DOMAIN runs : \/ ReadLog(r, "sprint_changelog", tables.sprints)
                                    \/ ReadLog(r, "release_changelog", tables.releases)
    BY <1>6, <1>8, ReadKeepsRuns DEF TypeInv, Logs
  <1>9. CASE UNCHANGED vars
    BY <1>6, <1>9 DEF vars
  <1> QED
    BY <1>2, <1>3, <1>4, <1>5, <1>7, <1>8, <1>9, StepKinds
-----------------------------------------------------------------------------
\* Nobody writes a log or what it is read from.
LEMMA LogsStay ==
    ASSUME LogInv, RunsInv, UNCHANGED diffs, DOMAIN runs' = DOMAIN runs,
           \A q \in DOMAIN runs : runs'[q].diff = runs[q].diff,
           \A q \in DOMAIN runs : ~runs'[q].stale => ~runs[q].stale /\ raw' = raw,
           \A n \in {"sprints", "releases", "sprint_changelog", "release_changelog"} :
                tables'[n] = tables[n],
           Behind(raw.sprints, raw'.sprints), Behind(raw.versions, raw'.versions),
           Behind(raw'.sprints, jira'.sprints), Behind(raw'.versions, jira'.versions)
    PROVE  LogInv'
  <1>1. /\ tables'.sprints = tables.sprints /\ tables'.releases = tables.releases
        /\ tables'.sprint_changelog = tables.sprint_changelog
        /\ tables'.release_changelog = tables.release_changelog
    OBVIOUS
  <1>2. Behind(tables'.sprints, raw'.sprints)
    BY <1>1, BehindIsTransitive DEF LogInv
  <1>3. Behind(tables'.releases, raw'.versions)
    BY <1>1, BehindIsTransitive DEF LogInv
  <1>4. ASSUME NEW s \in Logs
        PROVE  Rows(s)' = Rows(s)
    <2>1. {runs'[r].diff[s] : r \in {q \in DOMAIN runs' : s \in DOMAIN runs'[q].diff}}
            = {runs[r].diff[s] : r \in {q \in DOMAIN runs : s \in DOMAIN runs[q].diff}}
      OBVIOUS
    <2> QED
      BY <1>1, <2>1 DEF Rows, Logs
  <1>5. /\ Ordered(Rows("sprint_changelog")', tables'.sprints, diffs')
        /\ Ordered(Rows("release_changelog")', tables'.releases, diffs')
    BY <1>1, <1>4 DEF LogInv, Logs
  <1>6. ASSUME NEW r \in DOMAIN runs', ~runs'[r].stale, NEW s \in DOMAIN runs'[r].diff
        PROVE  LogMirror(tables'[s] \cup runs'[r].diff[s], RawOf(s)')
    <2>1. s \in Logs /\ raw' = raw /\ ~runs[r].stale /\ s \in DOMAIN runs[r].diff
      BY <1>6 DEF RunsInv
    <2>2. LogMirror(tables[s] \cup runs[r].diff[s], RawOf(s))
      BY <2>1 DEF LogInv
    <2>3. RawOf(s)' = RawOf(s)
      BY <2>1 DEF RawOf
    <2>4. tables'[s] = tables[s] /\ runs'[r].diff = runs[r].diff
      BY <1>1, <2>1 DEF Logs
    <2> QED
      BY <2>2, <2>3, <2>4
  <1> QED
    BY <1>2, <1>3, <1>5, <1>6 DEF LogInv

LEMMA LogStep ==
    ASSUME TypeInv, MirrorInv, LogInv, [Next]_vars
    PROVE  LogInv'
  <1>1. RunsInv /\ JiraInv /\ RawInv /\ DOMAIN tables = TableNames
    BY DEF TypeInv, RefsOk
  <1>2. /\ Behind(raw.sprints, raw.sprints) /\ Behind(raw.versions, raw.versions)
        /\ Behind(jira.sprints, jira.sprints) /\ Behind(jira.versions, jira.versions)
        /\ Behind(raw.sprints, jira.sprints) /\ Behind(raw.versions, jira.versions)
    <2>1. /\ \A s \in DOMAIN raw.sprints : raw.sprints[s] \in DOMAIN Rank
          /\ \A s \in DOMAIN raw.versions : raw.versions[s] \in DOMAIN Rank
      BY DEF LogInv, Behind
    <2>2. /\ \A s \in DOMAIN jira.sprints : jira.sprints[s] \in DOMAIN Rank
          /\ \A s \in DOMAIN jira.versions : jira.versions[s] \in DOMAIN Rank
      BY <1>1, Ranks DEF JiraInv
    <2> QED
      BY <2>1, <2>2, BehindItself DEF LogInv
  <1>3. CASE /\ People /\ UNCHANGED <<world, raw, runs, loads, diffs>>
             /\ Only(tables, tables', {"commitment_rules"})
    <2>1. Behind(jira.sprints, jira'.sprints) /\ Behind(jira.versions, jira'.versions)
      BY <1>1, <1>3, PeopleEdits
    <2>2. Behind(raw.sprints, jira'.sprints)
      BY <1>2, <2>1, BehindIsTransitive
    <2>3. Behind(raw.versions, jira'.versions)
      BY <1>2, <2>1, BehindIsTransitive
    <2>4. \A n \in {"sprints", "releases", "sprint_changelog", "release_changelog"} :
                tables'[n] = tables[n]
      BY <1>3 DEF Only, TableNames
    <2> QED
      BY <1>1, <1>2, <1>3, <2>2, <2>3, <2>4, LogsStay
  <1>4. CASE LoadIssues \/ LoadTables
    <2>1. /\ DOMAIN runs' = DOMAIN runs /\ UNCHANGED <<tables, diffs, jira>>
          /\ \A q \in DOMAIN runs : runs'[q].stale = TRUE /\ runs'[q].diff = runs[q].diff
      BY <1>1, <1>4, LoadKeepsRuns DEF LoadIssues, LoadTables, Load
    <2>2. \/ raw'.sprints = raw.sprints /\ raw'.versions = raw.versions
          \/ raw'.sprints = jira.sprints /\ raw'.versions = jira.versions
      BY <1>1, <1>4 DEF LoadIssues, LoadTables, RawInv, RawFields
    <2>3. /\ Behind(raw.sprints, raw'.sprints) /\ Behind(raw.versions, raw'.versions)
          /\ Behind(raw'.sprints, jira'.sprints) /\ Behind(raw'.versions, jira'.versions)
      BY <1>2, <2>1, <2>2
    <2> QED
      BY <1>1, <2>1, <2>3, LogsStay
  <1>5. CASE StartRun
    <2>1. /\ UNCHANGED <<jira, raw, tables, diffs>>
          /\ \E n : /\ DOMAIN runs' = DOMAIN runs \cup {n} /\ n \notin DOMAIN runs
                    /\ runs'[n].diff = <<>> /\ \A k \in DOMAIN runs : runs'[k] = runs[k]
      BY <1>1, <1>5, StartKeepsRuns
    <2>2. PICK n : /\ DOMAIN runs' = DOMAIN runs \cup {n} /\ n \notin DOMAIN runs
                   /\ runs'[n].diff = <<>> /\ \A k \in DOMAIN runs : runs'[k] = runs[k]
      BY <2>1
    <2>3. ASSUME NEW s
          PROVE  Rows(s)' = Rows(s)
      <3>1. DOMAIN runs'[n].diff = {}
        BY <2>2
      <3>2. {q \in DOMAIN runs' : s \in DOMAIN runs'[q].diff}
              = {q \in DOMAIN runs : s \in DOMAIN runs[q].diff}
        BY <2>2, <3>1
      <3>3. {runs'[r].diff[s] : r \in {q \in DOMAIN runs' : s \in DOMAIN runs'[q].diff}}
              = {runs[r].diff[s] : r \in {q \in DOMAIN runs : s \in DOMAIN runs[q].diff}}
        BY <2>2, <3>2
      <3> QED
        BY <2>1, <3>3 DEF Rows
    <2>4. ASSUME NEW r \in DOMAIN runs', ~runs'[r].stale, NEW s \in DOMAIN runs'[r].diff
          PROVE  LogMirror(tables'[s] \cup runs'[r].diff[s], RawOf(s)')
      <3>1. r \in DOMAIN runs /\ runs'[r] = runs[r]
        BY <2>2, <2>4
      <3> QED
        BY <2>1, <2>4, <3>1 DEF LogInv, RawOf
    <2> QED
      BY <2>1, <2>3, <2>4 DEF LogInv
  <1>6. ASSUME NEW r \in DOMAIN runs, NEW step, NEW u, Commit(r, step, u), Statement(r, step, u)
        PROVE  LogInv'
    <2>1. /\ UNCHANGED <<jira, raw, diffs>> /\ tables' = u /\ DOMAIN runs' = DOMAIN runs
          /\ \A k \in DOMAIN runs : runs'[k].stale = runs[k].stale /\ runs'[k].diff = runs[k].diff
      BY <1>6, CommitFrame
    <2>2. CASE step \in Logs
      <3>1. /\ step \in DOMAIN runs[r].diff /\ Only(tables, tables', {step})
            /\ tables'[step] = tables[step] \cup runs[r].diff[step]
        BY <1>6, <2>1, <2>2 DEF Statement, Logs
      <3> QED
        BY <1>1, <2>1, <2>2, <3>1, WriteKeepsLogs
    <2>3. CASE step \notin Logs
      <3>1. /\ u.sprint_changelog = tables.sprint_changelog
            /\ u.release_changelog = tables.release_changelog
            /\ step # "sprints" => u.sprints = tables.sprints
            /\ step # "releases" => u.releases = tables.releases
        BY <1>6, <2>3, StatementWrites DEF Logs
      <3>2. step = "sprints" => u.sprints = Upserted(tables.sprints, raw.sprints)
        BY <1>1, <1>6 DEF Statement, Logs, CleanSprints, TableNames
      <3>3. step = "releases" => u.releases = Upserted(tables.releases, raw.versions)
        BY <1>1, <1>6 DEF Statement, Logs, CleanReleases, TableNames
      <3> QED
        BY <1>1, <2>1, <3>1, <3>2, <3>3, CommitKeepsLogs
    <2> QED
      BY <2>2, <2>3
  <1>7. ASSUME UNCHANGED <<jira, raw, tables, diffs>>, DOMAIN runs' = DOMAIN runs,
               \A k \in DOMAIN runs : /\ runs'[k].diff = runs[k].diff
                                      /\ runs'[k].stale = runs[k].stale
        PROVE  LogInv'
    BY <1>1, <1>2, <1>7, LogsStay
  <1>8. CASE \E r \in DOMAIN runs : \E step : FailStep(r, step)
    BY <1>1, <1>7, <1>8, FailKeepsRuns
  <1>9. CASE \E r \in DOMAIN runs : \/ ReadLog(r, "sprint_changelog", tables.sprints)
                                    \/ ReadLog(r, "release_changelog", tables.releases)
    BY <1>9, ReadKeepsLogs
  <1>10. CASE UNCHANGED vars
    BY <1>7, <1>10 DEF vars
  <1> QED
    BY <1>3, <1>4, <1>5, <1>6, <1>8, <1>9, <1>10, StepKinds
-----------------------------------------------------------------------------
RunInv == TypeInv /\ Given /\ MirrorInv /\ LogInv

LEMMA RunStepsKeep == RunInv /\ [Next]_vars => RunInv'
  BY TypeStep, GivenStep, MirrorStep, LogStep DEF RunInv

LEMMA RunCorrect == Spec => []RunInv
  <1>1. Init => RunInv
    BY TypeInit, GivenInit, MirrorInit, LogInit DEF RunInv
  <1> QED
    BY <1>1, RunStepsKeep, PTL DEF Spec

\* Everything there is to achieve is achieved.
LEMMA SettledMirrors ==
    ASSUME RunInv, Settled, NEW s \in world.steps
    PROVE  Mirrors(s, tables, raw)
  BY DEF RunInv, MirrorInv, Settled, Complete

\* A log ends at the state its table mirrors, since the row that has it is of no earlier
\* state than any other, and none is of a later one.
LEMMA LogEnds ==
    ASSUME NEW log, NEW rows, log \subseteq rows, NEW table, NEW n \in Nat,
           Ordered(rows, table, n), NEW source, Behind(table, source), LogMirror(log, source),
           NEW x \in DOMAIN source
    PROVE  LastKnown(log, x) = source[x]
  <1>1. PICK row \in log : row.of = x /\ row.new = source[x]
    BY DEF LogMirror
  <1>2. \A r \in log : r.at \in 1 .. n
    BY DEF Ordered
  <1>3. PICK r \in log : /\ r.of = x /\ LastKnown(log, x) = r.new
                         /\ \A s \in log : s.of = x => s.at <= r.at
    BY <1>1, <1>2, LastKnownRow
  <1>4. /\ Rank[row.new] <= Rank[r.new] /\ r.new \in DOMAIN Rank /\ x \in DOMAIN table
        /\ table[x] \in DOMAIN Rank /\ Rank[r.new] <= Rank[table[x]]
    BY <1>1, <1>3 DEF Ordered
  <1>5. source[x] \in DOMAIN Rank /\ Rank[table[x]] <= Rank[source[x]]
    BY <1>4 DEF Behind
  <1>6. Rank[source[x]] \in Int /\ Rank[r.new] \in Int /\ Rank[table[x]] \in Int
    BY <1>4, <1>5, Ranks
  <1>7. Rank[r.new] = Rank[source[x]]
    BY <1>1, <1>4, <1>5, <1>6
  <1> QED
    BY <1>3, <1>4, <1>5, <1>7, Ranks

\* A run that finished repairs whatever failed, overlapping or outdated runs have left.
THEOREM CompleteRunRepairs == Spec => []CompleteRunMirrorsRaw
  <1>1. ASSUME RunInv, Settled, NEW i \in Loaded(raw)
        PROVE  LET issue == raw.issues[i]
               IN  /\ Has("issue_statuses") => tables.issue_statuses[issue.status] = issue.statusName
                   /\ Has("issues") => i \in DOMAIN tables.issues /\ tables.issues[i] = issue.status
                   /\ Has("issue_labels") /\ "label" \in issue.rows => i \in tables.issue_labels
                   /\ Has("issue_links") /\ "link" \in issue.rows => i \in tables.issue_links
                   /\ Has("worklogs") /\ "worklog" \in issue.rows => i \in tables.worklogs
                   /\ Has("comments") /\ "comment" \in issue.rows => i \in tables.comments
                   /\ Has("user_issue_roles") /\ issue.assignee # Nothing =>
                           <<issue.assignee[1], i>> \in tables.user_issue_roles
                   /\ Has("field_values") /\ issue.points # Nothing =>
                           tables.field_values[<<i, "points">>] = issue.points
                   /\ Has("sprint_values") /\ issue.sprints # {} =>
                           tables.field_values[<<i, "sprint">>] = issue.sprints
                   /\ Has("field_value_changelog") /\ "points" \in raw.tables =>
                           \A c \in issue.pointChanges : <<i, c>> \in tables.field_value_changelog
    <2> DEFINE issue == raw.issues[i]
    <2>1. Has("issue_statuses") => tables.issue_statuses[issue.status] = issue.statusName
      BY <1>1, SettledMirrors DEF Has, Mirrors, StatusesMirror
    <2>2. Has("issues") => i \in DOMAIN tables.issues /\ tables.issues[i] = issue.status
      BY <1>1, SettledMirrors DEF Has, Mirrors, IssuesMirror
    <2>3. /\ Has("issue_labels") /\ "label" \in issue.rows => i \in tables.issue_labels
          /\ Has("issue_links") /\ "link" \in issue.rows => i \in tables.issue_links
      BY <1>1, SettledMirrors DEF Has, Mirrors, RowsMirror
    <2>4. /\ Has("worklogs") /\ "worklog" \in issue.rows => i \in tables.worklogs
          /\ Has("comments") /\ "comment" \in issue.rows => i \in tables.comments
      BY <1>1, SettledMirrors DEF Has, Mirrors, RowsMirror
    <2>5. Has("user_issue_roles") /\ issue.assignee # Nothing =>
                <<issue.assignee[1], i>> \in tables.user_issue_roles
      BY <1>1, SettledMirrors DEF Has, Mirrors, RolesMirror
    <2>6. Has("field_values") /\ issue.points # Nothing =>
                tables.field_values[<<i, "points">>] = issue.points
      BY <1>1, SettledMirrors DEF Has, Mirrors, PointsMirror
    <2>7. Has("sprint_values") /\ issue.sprints # {} =>
                tables.field_values[<<i, "sprint">>] = issue.sprints
      BY <1>1, SettledMirrors DEF Has, Mirrors, SprintFieldMirror
    <2>8. Has("field_value_changelog") /\ "points" \in raw.tables =>
                \A c \in issue.pointChanges : <<i, c>> \in tables.field_value_changelog
      BY <1>1, SettledMirrors DEF Has, Mirrors, PointChangesMirror
    <2> QED
      BY <2>1, <2>2, <2>3, <2>4, <2>5, <2>6, <2>7, <2>8
  <1>2. RunInv => CompleteRunMirrorsRaw
    BY <1>1 DEF CompleteRunMirrorsRaw
  <1> QED
    BY <1>2, RunCorrect, PTL

\* Every status change is in the changelog after a finished run, unless its status goes by
\* a name two statuses have had.
THEOREM StatusChangesAreKept == Spec => []NoStatusChangeIsLost
  <1>1. ASSUME RunInv, Settled, Has("status_changelog")
        PROVE  ChangelogMirror(tables.status_changelog, tables.issue_statuses, raw)
    BY <1>1, SettledMirrors DEF Has, Mirrors
  <1>2. RunInv => NoStatusChangeIsLost
    BY <1>1 DEF NoStatusChangeIsLost, ChangelogMirror
  <1> QED
    BY <1>2, RunCorrect, PTL

\* The latest row of each log has the current value after a finished run, also if runs
\* overlapped while they read and wrote it.
THEOREM LogsAreCurrent == Spec => []LogsEndAtCurrent
  <1>1. ASSUME RunInv, Settled, Has("sprint_changelog"), NEW s \in DOMAIN raw.sprints
        PROVE  LastKnown(tables.sprint_changelog, s) = raw.sprints[s]
    <2>1. LogMirror(tables.sprint_changelog, raw.sprints)
      BY <1>1, SettledMirrors DEF Has, Mirrors
    <2>2. /\ Ordered(Rows("sprint_changelog"), tables.sprints, diffs)
          /\ Behind(tables.sprints, raw.sprints) /\ diffs \in Nat
          /\ tables.sprint_changelog \subseteq Rows("sprint_changelog")
      BY <1>1 DEF RunInv, LogInv, TypeInv, RunsInv, Rows
    <2> QED
      BY <2>1, <2>2, LogEnds
  <1>2. ASSUME RunInv, Settled, Has("release_changelog"), NEW v \in DOMAIN raw.versions
        PROVE  LastKnown(tables.release_changelog, v) = raw.versions[v]
    <2>1. LogMirror(tables.release_changelog, raw.versions)
      BY <1>2, SettledMirrors DEF Has, Mirrors
    <2>2. /\ Ordered(Rows("release_changelog"), tables.releases, diffs)
          /\ Behind(tables.releases, raw.versions) /\ diffs \in Nat
          /\ tables.release_changelog \subseteq Rows("release_changelog")
      BY <1>2 DEF RunInv, LogInv, TypeInv, RunsInv, Rows
    <2> QED
      BY <2>1, <2>2, LogEnds
  <1>3. RunInv => LogsEndAtCurrent
    BY <1>1, <1>2 DEF LogsEndAtCurrent
  <1> QED
    BY <1>3, RunCorrect, PTL

\* The asset checks pass: those of references at any time, those of counts and of closed
\* sprints once a run has finished.
THEOREM AssetChecksPass == Spec => []ChecksPass
  <1>1. ASSUME NEW S, IsFiniteSet(S)
        PROVE  CountsAgree(S, S)
    <2>1. Cardinality(S) \in Nat
      BY <1>1, FS_CardinalityType
    <2> QED
      BY <2>1 DEF CountsAgree
  <1>2. ASSUME RunInv, Settled, Has("issues")
        PROVE  check_raw_clean_issue_count(tables, raw)
    <2>1. Loaded(raw) \subseteq DOMAIN tables.issues
      BY <1>2, SettledMirrors DEF Has, Mirrors, IssuesMirror
    <2>2. DOMAIN tables.issues \subseteq Loaded(raw)
      BY <1>2 DEF RunInv, TypeInv, RefsOk
    <2>3. DOMAIN tables.issues = Loaded(raw)
      BY <2>1, <2>2
    <2>4. Loaded(raw) \subseteq DOMAIN jira.issues /\ IsFiniteSet(DOMAIN jira.issues)
      BY <1>2 DEF RunInv, TypeInv, RawInv, JiraInv
    <2>5. IsFiniteSet(Loaded(raw))
      BY <2>4, FS_Subset
    <2> QED
      BY <1>1, <2>3, <2>5 DEF check_raw_clean_issue_count
  <1>3. ASSUME RunInv, Settled, Has("sprints")
        PROVE  check_raw_clean_sprint_count(tables, raw)
    <2>1. DOMAIN raw.sprints \subseteq DOMAIN tables.sprints
      BY <1>3, SettledMirrors DEF Has, Mirrors, CopyOf
    <2>2. DOMAIN tables.sprints \subseteq DOMAIN raw.sprints
      BY <1>3 DEF RunInv, LogInv, Behind
    <2>3. DOMAIN tables.sprints = DOMAIN raw.sprints
      BY <2>1, <2>2
    <2>4. DOMAIN raw.sprints = {} \/ DOMAIN raw.sprints = Sprints
      BY <1>3 DEF RunInv, TypeInv, RawInv
    <2>5. IsFiniteSet(DOMAIN raw.sprints)
      BY <2>4, FS_EmptySet, CleanLayerAssumption
    <2> QED
      BY <1>1, <2>3, <2>5 DEF check_raw_clean_sprint_count
  <1>4. ASSUME RunInv, Settled, Has("sprint_issues"), "items" \in raw.tables
        PROVE  check_closed_sprint_issues_inactive(tables)
    BY <1>4, SettledMirrors DEF Has, Mirrors
  <1>5. RunInv => ChecksPass
    <2> SUFFICES ASSUME RunInv
                 PROVE  ChecksPass
      OBVIOUS
    <2>1. /\ check_issue_fk_integrity(tables) /\ check_sprint_issues_integrity(tables)
          /\ check_release_issues_integrity(tables) /\ check_no_orphan_worklogs(tables)
          /\ check_field_values_fk_integrity(tables)
          /\ check_status_changelog_fk_integrity(tables)
      BY DEF RunInv, TypeInv, RefsOk
    <2> QED
      BY <1>2, <1>3, <1>4, <2>1 DEF ChecksPass
  <1> QED
    BY <1>5, RunCorrect, PTL
-----------------------------------------------------------------------------
\* The statuses of the columns: complete once a run has inserted them after the last
\* rebuild, which no run has left without its second half.
Covered(columns, statuses, known, w) ==
    \A c \in columns : \A s \in w.columns[c[1]] \cap known : <<c, s>> \in statuses

NoneInBetween ==
    \A q \in DOMAIN runs : "board_columns" \in runs[q].done => "column_statuses" \in runs[q].done

ColumnsInv ==
    \A r \in DOMAIN runs :
        ~runs[r].stale /\ "column_statuses" \in runs[r].done /\ NoneInBetween =>
            Covered(tables.board_columns, tables.column_statuses,
                    DOMAIN tables.issue_statuses, raw)

\* Who has done the statuses of the columns has done the columns and the statuses.
LEMMA BeforeColumnStatuses ==
    ASSUME RunInv, NEW D, Closed(D), "column_statuses" \in D
    PROVE  /\ "board_columns" \in D
           /\ "issue_statuses" \in world.steps => "issue_statuses" \in D
  <1>1. /\ "column_statuses" \in world.steps /\ Selectable(world.steps)
        /\ Upstream["column_statuses"] \cap world.steps \subseteq D
    BY Selections DEF Closed, RunInv
  <1>2. Upstream["column_statuses"] = {"board_columns", "issue_statuses"}
    BY DEF Upstream
  <1>3. "board_columns" \in world.steps
    BY <1>1, <1>2 DEF Selectable
  <1> QED
    BY <1>1, <1>2, <1>3

LEMMA ColumnsInit == Init => ColumnsInv
  <1> SUFFICES ASSUME Init
               PROVE  ColumnsInv
    OBVIOUS
  <1>1. runs = <<>>
    BY DEF Init
  <1> QED
    BY <1>1 DEF ColumnsInv

LEMMA CommitKeepsColumns ==
    ASSUME RunInv, RunInv', ColumnsInv,
           NEW r \in DOMAIN runs, NEW step, NEW u, Commit(r, step, u), Statement(r, step, u)
    PROVE  ColumnsInv'
  <1>1. /\ UNCHANGED <<world, raw>> /\ tables' = u /\ Executable(step)
        /\ Ready(r, step) /\ step \in world.steps /\ DOMAIN runs' = DOMAIN runs
        /\ runs'[r].done = runs[r].done \cup {step}
        /\ \A k \in DOMAIN runs \ {r} : runs'[k] = runs[k]
        /\ \A k \in DOMAIN runs : runs'[k].stale = runs[k].stale
    BY CommitFrame DEF RunInv
  <1>2. /\ step # "issue_statuses" => u.issue_statuses = tables.issue_statuses
        /\ step \notin {"board_columns", "column_statuses"} =>
                u.column_statuses = tables.column_statuses
        /\ step # "board_columns" => u.board_columns = tables.board_columns
    BY StatementWrites DEF RunInv
  <1> SUFFICES ASSUME NEW q \in DOMAIN runs, ~runs[q].stale,
                      "column_statuses" \in runs'[q].done, NoneInBetween'
               PROVE  Covered(u.board_columns, u.column_statuses, DOMAIN u.issue_statuses, raw)
    BY <1>1 DEF ColumnsInv, Covered
  <1>3. Closed(runs[r].done) /\ Closed(runs[q].done)
    BY <1>1 DEF RunInv, MirrorInv
  <1>4. CASE step = "board_columns"
    <2>1. "board_columns" \notin runs[r].done
      BY <1>1, <1>4 DEF Ready
    <2>2. "column_statuses" \notin runs[r].done
      BY <1>3, <2>1, BeforeColumnStatuses
    <2>3. "board_columns" \in runs'[r].done /\ "column_statuses" \notin runs'[r].done
      BY <1>1, <1>4, <2>2
    <2> QED
      BY <1>1, <2>3 DEF NoneInBetween
  <1>5. CASE step = "column_statuses"
    <2>1. u = CleanColumnStatuses(tables, raw) /\ DOMAIN tables = TableNames
      BY <1>5 DEF Statement, Logs, RunInv, TypeInv, RefsOk
    <2>2. "board_columns" \in runs[q].done
      <3>1. CASE "column_statuses" \in runs[q].done
        BY <1>3, <3>1, BeforeColumnStatuses
      <3>2. CASE "column_statuses" \notin runs[q].done
        <4>1. q = r
          BY <1>1, <3>2
        <4>2. Selectable(world.steps) /\ Upstream[step] \cap world.steps \subseteq runs[r].done
          BY <1>1, Selections DEF Ready, RunInv
        <4> QED
          BY <1>1, <1>5, <4>1, <4>2 DEF Selectable, Upstream
      <3> QED
        BY <3>1, <3>2
    <2>3. ColumnsMirror(tables.board_columns, tables.column_statuses, raw)
      BY <2>2 DEF RunInv, MirrorInv, Mirrors
    <2>4. \A c \in tables.board_columns : c[1] \in DOMAIN raw.columns
      BY <2>3 DEF ColumnsMirror
    <2>5. u.column_statuses = tables.column_statuses \cup
            UNION {{<<col, s>> : s \in raw.columns[col[1]] \cap DOMAIN tables.issue_statuses} :
                   col \in {c \in tables.board_columns : c[1] \in DOMAIN raw.columns}}
      BY <2>1 DEF CleanColumnStatuses, TableNames
    <2> QED
      BY <1>2, <1>5, <2>4, <2>5 DEF Covered
  <1>6. CASE step \notin {"board_columns", "column_statuses"}
    <2>1. "column_statuses" \in runs[q].done
      BY <1>1, <1>6
    <2>2. NoneInBetween
      BY <1>1, <1>6 DEF NoneInBetween
    <2>3. Covered(tables.board_columns, tables.column_statuses, DOMAIN tables.issue_statuses, raw)
      BY <2>1, <2>2 DEF ColumnsInv
    <2>4. DOMAIN u.issue_statuses = DOMAIN tables.issue_statuses
      <3>1. CASE step # "issue_statuses"
        BY <1>2, <3>1
      <3>2. CASE step = "issue_statuses"
        <4>1. "issue_statuses" \in runs[q].done
          BY <1>1, <1>3, <2>1, <3>2, BeforeColumnStatuses
        <4>2. StatusesMirror(tables.issue_statuses, raw)
          BY <4>1 DEF RunInv, MirrorInv, Mirrors
        <4>3. u = CleanIssueStatuses(tables, raw)
          BY <3>2 DEF Statement, Logs
        <4>4. DOMAIN tables = TableNames
          BY DEF RunInv, TypeInv, RefsOk
        <4> QED
          BY <4>2, <4>3, <4>4, StatusesStay
      <3> QED
        BY <3>1, <3>2
    <2> QED
      BY <1>2, <1>6, <2>3, <2>4
  <1> QED
    BY <1>4, <1>5, <1>6

LEMMA ColumnsStep ==
    ASSUME RunInv, RunInv', ColumnsInv, [Next]_vars
    PROVE  ColumnsInv'
  <1>1. ASSUME UNCHANGED raw, DOMAIN runs' = DOMAIN runs,
               \A k \in DOMAIN runs : /\ runs'[k].done = runs[k].done
                                      /\ runs'[k].stale = runs[k].stale,
               \A n \in {"board_columns", "column_statuses", "issue_statuses"} :
                    tables'[n] = tables[n]
        PROVE  ColumnsInv'
    <2>1. NoneInBetween' <=> NoneInBetween
      BY <1>1 DEF NoneInBetween
    <2>2. /\ tables'.board_columns = tables.board_columns
          /\ tables'.column_statuses = tables.column_statuses
          /\ tables'.issue_statuses = tables.issue_statuses
      BY <1>1
    <2> QED
      BY <1>1, <2>1, <2>2 DEF ColumnsInv, Covered
  <1>2. CASE /\ People /\ UNCHANGED <<world, raw, runs, loads, diffs>>
             /\ Only(tables, tables', {"commitment_rules"})
    BY <1>1, <1>2 DEF Only, TableNames
  <1>3. CASE LoadIssues \/ LoadTables
    <2>1. /\ DOMAIN runs' = DOMAIN runs /\ \A q \in DOMAIN runs : runs'[q].stale = TRUE
      BY <1>3, LoadKeepsRuns DEF LoadIssues, LoadTables, RunInv, TypeInv
    <2> QED
      BY <2>1 DEF ColumnsInv
  <1>4. CASE StartRun
    <2>1. PICK n : /\ DOMAIN runs' = DOMAIN runs \cup {n} /\ runs'[n].done = {}
                   /\ n \notin DOMAIN runs /\ \A k \in DOMAIN runs : runs'[k] = runs[k]
      BY <1>4, StartKeepsRuns DEF RunInv, TypeInv
    <2>2. UNCHANGED <<raw, tables>>
      BY <1>4, StartKeepsRuns DEF RunInv, TypeInv
    <2>3. NoneInBetween' <=> NoneInBetween
      BY <2>1 DEF NoneInBetween
    <2> QED
      BY <2>1, <2>2, <2>3 DEF ColumnsInv, Covered
  <1>5. CASE \E r \in DOMAIN runs : \E step, u : Commit(r, step, u) /\ Statement(r, step, u)
    BY <1>5, CommitKeepsColumns
  <1>6. CASE \E r \in DOMAIN runs : \E step : FailStep(r, step)
    BY <1>1, <1>6, FailKeepsRuns DEF RunInv, TypeInv
  <1>7. CASE \E r \in DOMAIN runs : \/ ReadLog(r, "sprint_changelog", tables.sprints)
                                    \/ ReadLog(r, "release_changelog", tables.releases)
    BY <1>1, <1>7, ReadKeepsRuns DEF RunInv, TypeInv, Logs
  <1>8. CASE UNCHANGED vars
    BY <1>1, <1>8 DEF vars
  <1> QED
    BY <1>2, <1>3, <1>4, <1>5, <1>6, <1>7, <1>8, StepKinds DEF RunInv

\* The columns of the board have their statuses, whichever runs came in between, unless one
\* has rebuilt the columns and not got to the statuses.
THEOREM ColumnsAreKept == Spec => []ColumnsKeepTheirStatuses
  <1>1. Init => ColumnsInv
    BY ColumnsInit
  <1>2. RunInv /\ RunInv' /\ ColumnsInv /\ [Next]_vars => ColumnsInv'
    BY ColumnsStep
  <1>3. ASSUME RunInv, ColumnsInv, Settled, Has("column_statuses"), NoneInBetween,
               NEW c \in DOMAIN raw.columns, NEW s \in DOMAIN tables.issue_statuses
        PROVE  s \in raw.columns[c] <=> \E k \in tables.column_statuses : k[1][1] = c /\ k[2] = s
    <2>1. PICK r \in DOMAIN runs : runs[r].done = world.steps /\ ~runs[r].stale
      BY <1>3 DEF Settled, Complete
    <2>2. "column_statuses" \in runs[r].done /\ "board_columns" \in runs[r].done
      BY <1>3, <2>1, BeforeColumnStatuses DEF Has, RunInv, MirrorInv
    <2>3. ColumnsMirror(tables.board_columns, tables.column_statuses, raw)
      BY <1>3, <2>1, <2>2 DEF RunInv, MirrorInv, Mirrors
    <2>4. Covered(tables.board_columns, tables.column_statuses, DOMAIN tables.issue_statuses, raw)
      BY <1>3, <2>1, <2>2 DEF ColumnsInv
    <2>5. ASSUME s \in raw.columns[c]
          PROVE  \E k \in tables.column_statuses : k[1][1] = c /\ k[2] = s
      <3>1. PICK col \in tables.board_columns : col[1] = c
        BY <2>3 DEF ColumnsMirror
      <3>2. <<col, s>> \in tables.column_statuses
        BY <1>3, <2>4, <2>5, <3>1 DEF Covered
      <3>3. <<col, s>>[1][1] = c /\ <<col, s>>[2] = s
        BY <3>1
      <3> QED
        BY <3>2, <3>3
    <2>6. ASSUME NEW k \in tables.column_statuses, k[1][1] = c, k[2] = s
          PROVE  s \in raw.columns[c]
      BY <2>3, <2>6 DEF ColumnsMirror
    <2> QED
      BY <2>5, <2>6
  <1>4. RunInv /\ ColumnsInv => ColumnsKeepTheirStatuses
    BY <1>3 DEF ColumnsKeepTheirStatuses, NoneInBetween
  <1> QED
    BY <1>1, <1>2, <1>4, RunCorrect, PTL DEF Spec

-----------------------------------------------------------------------------
\* Sprint fields. What the history of an issue says of a sprint it mentions.
Mentions(moves) == UNION {m.from \cup m.to : m \in moves}

Mention(issue) == IF issue.moves = {} THEN issue.sprints ELSE Mentions(issue.moves)

\* The last move that mentions a sprint is why the issue is in it or not; once an issue has
\* moved, its history mentions all its sprints.
SprintsOk(issue, n) ==
    /\ issue.sprints \subseteq Sprints /\ OneAtATime(issue.moves, n)
    /\ \A m \in issue.moves : m.from \subseteq Sprints /\ m.to \subseteq Sprints
    /\ \A m \in issue.moves : \A s \in m.from \cup m.to :
            (\A k \in issue.moves : s \in k.from \cup k.to => k.at <= m.at) =>
                (s \in m.to <=> s \in issue.sprints)
    /\ issue.moves # {} => issue.sprints \subseteq Mentions(issue.moves)

Shut(s, table) == s \in DOMAIN table /\ table[s] = "closed"

\* Jira's rule.
OneOpen(field) ==
    \A a, b \in field : Shut(a, jira.sprints) \/ Shut(b, jira.sprints) \/ a = b

\* A move keeps closed sprints only, and adds or removes an open one; the raw sprints are
\* those of before or after it.
KeptOk(m) ==
    \E x \in (m.from \ m.to) \cup (m.to \ m.from) : \A s \in m.from \cap m.to :
        /\ Shut(s, jira.sprints)
        /\ Shut(x, raw.sprints) => Shut(s, raw.sprints)

SprintInv ==
    /\ \A i \in DOMAIN jira.issues :
            /\ SprintsOk(jira.issues[i], edits) /\ OneOpen(jira.issues[i].sprints)
            /\ \A m \in jira.issues[i].moves : KeptOk(m)
    /\ \A i \in Loaded(raw) :
            /\ SprintsOk(raw.issues[i], edits)
            /\ raw.issues[i].moves \subseteq jira.issues[i].moves
            /\ Mention(raw.issues[i]) \subseteq Mention(jira.issues[i])
    /\ \A p \in DOMAIN tables.sprint_issues :
            p[2] \in Loaded(raw) /\ p[1] \in Mention(raw.issues[p[2]])

LEMMA SprintInit == Init => SprintInv
  <1> SUFFICES ASSUME Init
               PROVE  SprintInv
    OBVIOUS
  <1>1. jira.issues = <<>> /\ raw.issues = <<>> /\ tables.sprint_issues = <<>>
    BY DEF Init, NewRaw, NewTables
  <1> QED
    BY <1>1 DEF SprintInv, Loaded

\* What a move of the Sprint field does to the history.
LEMMA PlanKeepsHistory ==
    ASSUME NEW n \in Nat, NEW x, SprintsOk(x, n), NEW to \in SUBSET Sprints, NEW y,
           NEW move, move = [at |-> n + 1, from |-> x.sprints, to |-> to],
           y.sprints = to, y.moves = x.moves \cup {move}
    PROVE  SprintsOk(y, n + 1) /\ Mention(x) \subseteq Mention(y)
  <1>1. OneAtATime(y.moves, n + 1)
    <2>1. OneAtATime(x.moves, n) /\ move.at = n + 1
      BY DEF SprintsOk
    <2> QED
      BY <2>1, NewItem
  <1>2. \A m \in y.moves : m.from \subseteq Sprints /\ m.to \subseteq Sprints
    BY DEF SprintsOk
  <1>3. Mentions(y.moves) = Mentions(x.moves) \cup x.sprints \cup to
    <2>1. move.from = x.sprints /\ move.to = to
      OBVIOUS
    <2>2. ASSUME NEW s \in Mentions(y.moves)
          PROVE  s \in Mentions(x.moves) \cup x.sprints \cup to
      BY <2>1, <2>2 DEF Mentions
    <2>3. ASSUME NEW s \in Mentions(x.moves) \cup x.sprints \cup to
          PROVE  s \in Mentions(y.moves)
      BY <2>1, <2>3 DEF Mentions
    <2> QED
      BY <2>2, <2>3
  <1>4. ASSUME NEW m \in y.moves, NEW s \in m.from \cup m.to,
               \A k \in y.moves : s \in k.from \cup k.to => k.at <= m.at
        PROVE  s \in m.to <=> s \in y.sprints
    <2>1. CASE m = move
      BY <2>1
    <2>2. CASE m # move
      <3>1. m \in x.moves /\ m.at \in 1 .. n /\ move.at = n + 1 /\ move \in y.moves
        BY <2>2 DEF SprintsOk, OneAtATime
      <3>2. s \notin move.from \cup move.to
        BY <1>4, <3>1
      <3>3. s \notin x.sprints /\ s \notin to
        BY <3>2
      <3>4. \A k \in x.moves : s \in k.from \cup k.to => k.at <= m.at
        BY <1>4
      <3>5. s \in m.to <=> s \in x.sprints
        BY <3>1, <3>4 DEF SprintsOk
      <3> QED
        BY <3>3, <3>5
    <2> QED
      BY <2>1, <2>2
  <1>5. y.moves # {}
    OBVIOUS
  <1>6. SprintsOk(y, n + 1)
    BY <1>1, <1>2, <1>3, <1>4 DEF SprintsOk
  <1> QED
    BY <1>3, <1>5, <1>6 DEF Mention

LEMMA HistoryStays ==
    ASSUME NEW n \in Nat, NEW x, SprintsOk(x, n), NEW y, y.sprints = x.sprints, y.moves = x.moves
    PROVE  SprintsOk(y, n) /\ SprintsOk(y, n + 1) /\ Mention(y) = Mention(x)
  BY DEF SprintsOk, OneAtATime, Mention

\* Sprints that were shut stay shut.
LEMMA ShutStays ==
    ASSUME NEW a, NEW b, Behind(a, b), NEW s, Shut(s, a), b \in [Sprints -> {"future", "active", "closed"}]
    PROVE  Shut(s, b)
  <1>1. s \in DOMAIN b /\ Rank["closed"] <= Rank[b[s]] /\ b[s] \in {"future", "active", "closed"}
    BY DEF Behind, Shut
  <1>2. b[s] = "closed"
    BY <1>1 DEF Rank
  <1> QED
    BY <1>1, <1>2 DEF Shut

\* People: an issue is created in an open sprint or none, and planned as Jira's rule has it.
LEMMA PlanKeepsRule ==
    ASSUME NEW x, NEW y, Planned(x, y), x.sprints \subseteq Sprints, OneOpen(x.sprints),
           jira.sprints \in [Sprints -> {"future", "active", "closed"}],
           Behind(raw.sprints, jira.sprints)
    PROVE  \E to \in SUBSET Sprints : \E move :
              /\ move = [at |-> edits + 1, from |-> x.sprints, to |-> to]
              /\ y.sprints = to /\ y.moves = x.moves \cup {move}
              /\ OneOpen(to) /\ KeptOk(move)
  <1> DEFINE open == Open(x.sprints, jira.sprints)
  <1>1. PICK sprint \in OpenSprint :
            LET to == (x.sprints \ open) \cup sprint
            IN  /\ to # x.sprints /\ y.sprints = to
                /\ y.moves = x.moves \cup {[at |-> edits + 1, from |-> x.sprints, to |-> to]}
    BY DEF Planned
  <1> DEFINE to == (x.sprints \ open) \cup sprint
             move == [at |-> edits + 1, from |-> x.sprints, to |-> to]
  <1>2. \A s \in x.sprints : s \in open <=> ~Shut(s, jira.sprints)
    BY DEF Open, Shut
  <1>3. \A a, b \in open : a = b
    <2>1. open \subseteq x.sprints
      BY DEF Open
    <2> QED
      BY <1>2, <2>1 DEF OneOpen
  <1>4. /\ sprint \subseteq Sprints /\ \A s \in sprint : ~Shut(s, jira.sprints)
        /\ \A a, b \in sprint : a = b
    BY DEF OpenSprint, Open, Shut
  <1> HIDE DEF open
  <1>5. OneOpen(to)
    BY <1>2, <1>4 DEF OneOpen
  <1>6. to # x.sprints /\ y.sprints = to /\ y.moves = x.moves \cup {move}
    BY <1>1
  <1>7. \A s \in x.sprints \cap to : Shut(s, jira.sprints)
    <2> SUFFICES ASSUME NEW s \in x.sprints, s \in to, ~Shut(s, jira.sprints)
                 PROVE  FALSE
      OBVIOUS
    <2>1. s \in open /\ s \in sprint
      BY <1>2
    <2>2. \A t \in x.sprints : t \in open => t = s
      BY <1>3, <2>1
    <2>3. \A t \in sprint : t = s
      BY <1>4, <2>1
    <2>4. to = x.sprints
      BY <2>1, <2>2, <2>3
    <2> QED
      BY <1>6, <2>4
  <1>8. PICK q \in (x.sprints \ to) \cup (to \ x.sprints) : TRUE
    BY <1>6
  <1>9. ~Shut(q, jira.sprints)
    BY <1>2, <1>4
  <1>10. ~Shut(q, raw.sprints)
    BY <1>9, ShutStays
  <1>11. move.from = x.sprints /\ move.to = to
    OBVIOUS
  <1>12. KeptOk(move)
    <2> HIDE DEF move, to
    <2> QED
      BY <1>7, <1>8, <1>10, <1>11 DEF KeptOk
  <1>13. to \in SUBSET Sprints
    BY <1>4
  <1> HIDE DEF to
  <1> QED
    BY <1>5, <1>6, <1>12, <1>13

LEMMA PeopleKeepSprints ==
    ASSUME RunInv, RunInv', SprintInv, People,
           UNCHANGED <<world, raw, runs, loads, diffs>>, Only(tables, tables', {"commitment_rules"})
    PROVE  SprintInv'
  <1>1. /\ jira.sprints \in [Sprints -> {"future", "active", "closed"}]
        /\ jira'.sprints \in [Sprints -> {"future", "active", "closed"}]
        /\ edits \in Nat /\ Behind(raw.sprints, jira.sprints)
    BY DEF RunInv, TypeInv, JiraInv, LogInv
  <1>2. /\ DOMAIN jira.issues \subseteq DOMAIN jira'.issues
        /\ \A i \in DOMAIN jira.issues : Edited(jira.issues[i], jira'.issues[i])
        /\ \A i \in DOMAIN jira'.issues \ DOMAIN jira.issues :
                /\ jira'.issues[i].moves = {} /\ jira'.issues[i].sprints \in OpenSprint
        /\ Behind(jira.sprints, jira'.sprints)
        /\ jira'.sprints = jira.sprints \/ jira'.issues = jira.issues
    BY PeopleEdits DEF RunInv, TypeInv
  <1>3. edits' = edits + 1
    BY DEF People, CreateIssue, MoveIssue, PlanIssue, FixIssue, ToggleRow, EstimateIssue,
           AssignIssue, RenameStatus, RenameUser, StartSprint, CloseSprint, ReleaseVersion,
           ConfigureColumn, SaveCommitmentRule, DeleteCommitmentRule, Edit, RuleEdit
  <1>4. \A s : Shut(s, jira.sprints) => Shut(s, jira'.sprints)
    BY <1>1, <1>2, ShutStays
  <1>5. ASSUME NEW m, KeptOk(m)
        PROVE  KeptOk(m)'
    BY <1>4, <1>5 DEF KeptOk
  <1>6. ASSUME NEW field, OneOpen(field)
        PROVE  OneOpen(field)'
    BY <1>4, <1>6 DEF OneOpen
  <1>7. ASSUME NEW i \in DOMAIN jira.issues
        PROVE  /\ SprintsOk(jira'.issues[i], edits')
               /\ \A a, b \in jira'.issues[i].sprints :
                    Shut(a, jira'.sprints) \/ Shut(b, jira'.sprints) \/ a = b
               /\ \A m \in jira'.issues[i].moves : KeptOk(m)'
               /\ jira.issues[i].moves \subseteq jira'.issues[i].moves
               /\ Mention(jira.issues[i]) \subseteq Mention(jira'.issues[i])
    <2> DEFINE x == jira.issues[i]
               y == jira'.issues[i]
    <2>1. SprintsOk(x, edits) /\ OneOpen(x.sprints) /\ \A m \in x.moves : KeptOk(m)
      BY DEF SprintInv
    <2>2. Edited(x, y)
      BY <1>2
    <2>3. CASE y.moves = x.moves /\ y.sprints = x.sprints
      <3>1. SprintsOk(y, edits + 1) /\ Mention(y) = Mention(x)
        BY <1>1, <2>1, <2>3, HistoryStays
      <3>2. \A a, b \in x.sprints : Shut(a, jira'.sprints) \/ Shut(b, jira'.sprints) \/ a = b
        BY <1>4, <2>1 DEF OneOpen
      <3>3. \A m \in x.moves : KeptOk(m)'
        BY <1>5, <2>1
      <3> QED
        BY <1>3, <2>3, <3>1, <3>2, <3>3
    <2>4. CASE Planned(x, y)
      <3>1. x.sprints \subseteq Sprints
        BY <2>1 DEF SprintsOk
      <3>7. PICK to \in SUBSET Sprints : \E move :
              /\ move = [at |-> edits + 1, from |-> x.sprints, to |-> to]
              /\ y.sprints = to /\ y.moves = x.moves \cup {move}
              /\ OneOpen(to) /\ KeptOk(move)
        BY <1>1, <2>1, <2>4, <3>1, PlanKeepsRule
      <3>2. PICK move :
              /\ move = [at |-> edits + 1, from |-> x.sprints, to |-> to]
              /\ y.sprints = to /\ y.moves = x.moves \cup {move}
              /\ OneOpen(to) /\ KeptOk(move)
        BY <3>7
      <3>3. SprintsOk(y, edits + 1)
        BY <1>1, <2>1, <3>2, PlanKeepsHistory
      <3>4. Mention(x) \subseteq Mention(y)
        BY <1>1, <2>1, <3>2, PlanKeepsHistory
      <3>5. \A m \in y.moves : KeptOk(m)'
        BY <1>5, <2>1, <3>2
      <3>6. \A a, b \in y.sprints : Shut(a, jira'.sprints) \/ Shut(b, jira'.sprints) \/ a = b
        BY <1>4, <3>2 DEF OneOpen
      <3> QED
        BY <1>3, <3>2, <3>3, <3>4, <3>5, <3>6
    <2> QED
      BY <2>2, <2>3, <2>4 DEF Edited
  <1>8. ASSUME NEW i \in DOMAIN jira'.issues, i \notin DOMAIN jira.issues
        PROVE  /\ SprintsOk(jira'.issues[i], edits')
               /\ \A a, b \in jira'.issues[i].sprints : a = b
               /\ jira'.issues[i].moves = {}
    <2>1. jira'.issues[i].moves = {} /\ jira'.issues[i].sprints \in OpenSprint
      BY <1>2, <1>8
    <2> QED
      BY <2>1 DEF SprintsOk, OneAtATime, OpenSprint, Open
  <1>9. ASSUME NEW i \in DOMAIN jira'.issues
        PROVE  /\ SprintsOk(jira'.issues[i], edits')
               /\ \A a, b \in jira'.issues[i].sprints :
                    Shut(a, jira'.sprints) \/ Shut(b, jira'.sprints) \/ a = b
               /\ \A m \in jira'.issues[i].moves : KeptOk(m)'
    BY <1>7, <1>8
  <1>10. ASSUME NEW i \in Loaded(raw)
         PROVE  /\ SprintsOk(raw.issues[i], edits')
                /\ raw.issues[i].moves \subseteq jira'.issues[i].moves
                /\ Mention(raw.issues[i]) \subseteq Mention(jira'.issues[i])
    <2>1. i \in DOMAIN jira.issues
      BY DEF RunInv, TypeInv, RawInv
    <2>2. /\ SprintsOk(raw.issues[i], edits)
          /\ raw.issues[i].moves \subseteq jira.issues[i].moves
          /\ Mention(raw.issues[i]) \subseteq Mention(jira.issues[i])
      BY DEF SprintInv
    <2>3. SprintsOk(raw.issues[i], edits + 1)
      BY <1>1, <2>2, HistoryStays
    <2> QED
      BY <1>3, <1>7, <2>1, <2>2, <2>3
  <1>11. tables'.sprint_issues = tables.sprint_issues
    BY DEF Only, TableNames
  <1>12. \A i \in DOMAIN jira'.issues : OneOpen(jira.issues[i].sprints)'
    BY <1>9 DEF OneOpen
  <1> QED
    BY <1>9, <1>10, <1>11, <1>12 DEF SprintInv, Loaded, KeptOk, OneOpen

\* Loads.
LEMMA LoadKeepsSprints ==
    ASSUME RunInv, RunInv', SprintInv, LoadIssues \/ LoadTables
    PROVE  SprintInv'
  <1>1. /\ edits \in Nat /\ JiraInv /\ RawInv /\ touched \subseteq DOMAIN jira.issues
        /\ Loaded(raw) \subseteq DOMAIN jira.issues
    BY DEF RunInv, TypeInv, JiraInv, RawInv
  <1>2. CASE LoadIssues
    <2>1. /\ UNCHANGED <<world, jira, tables, edits>>
          /\ raw' = [raw EXCEPT
                !.issues = Upserted(@, [i \in touched |-> Fetched(i)]),
                !.tables = @ \cup UNION {Nested(jira.issues[i]) : i \in touched}]
      BY <1>2 DEF LoadIssues, Load
    <2>2. /\ raw'.issues = Upserted(raw.issues, [i \in touched |-> Fetched(i)])
          /\ raw'.sprints = raw.sprints
      BY <1>1, <2>1 DEF RawInv, RawFields
    <2>3. /\ Loaded(raw') = Loaded(raw) \cup touched
          /\ \A i \in touched : raw'.issues[i] = Fetched(i)
          /\ \A i \in Loaded(raw) \ touched : raw'.issues[i] = raw.issues[i]
      BY <2>2 DEF Loaded, Upserted
    <2>4. ASSUME NEW i \in touched
          PROVE  /\ SprintsOk(raw'.issues[i], edits)
                 /\ raw'.issues[i].moves = jira.issues[i].moves
                 /\ Mention(raw'.issues[i]) = Mention(jira.issues[i])
      <3> DEFINE x == Fetched(i)
      <3>1. x.moves = jira.issues[i].moves /\ x.sprints = jira.issues[i].sprints
        BY <1>1, FetchedIsTheIssue DEF IssueFields
      <3>2. SprintsOk(jira.issues[i], edits)
        BY <1>1 DEF SprintInv
      <3> HIDE DEF x
      <3>3. SprintsOk(x, edits) /\ Mention(x) = Mention(jira.issues[i])
        BY <1>1, <3>1, <3>2, HistoryStays
      <3> QED
        BY <2>3, <3>1, <3>3 DEF x
    <2>5. ASSUME NEW i \in Loaded(raw')
          PROVE  /\ SprintsOk(raw'.issues[i], edits)
                 /\ raw'.issues[i].moves \subseteq jira.issues[i].moves
                 /\ Mention(raw'.issues[i]) \subseteq Mention(jira.issues[i])
      <3>1. CASE i \in touched
        BY <2>4, <3>1
      <3>2. CASE i \notin touched
        BY <2>3, <3>2 DEF SprintInv
      <3> QED
        BY <3>1, <3>2
    <2>6. ASSUME NEW p \in DOMAIN tables.sprint_issues
          PROVE  p[2] \in Loaded(raw') /\ p[1] \in Mention(raw'.issues[p[2]])
      <3>1. p[2] \in Loaded(raw) /\ p[1] \in Mention(raw.issues[p[2]])
        BY DEF SprintInv
      <3>2. CASE p[2] \in touched
        <4>1. Mention(raw.issues[p[2]]) \subseteq Mention(jira.issues[p[2]])
          BY <3>1 DEF SprintInv
        <4>2. Mention(raw'.issues[p[2]]) = Mention(jira.issues[p[2]])
          BY <2>4, <3>2
        <4> QED
          BY <2>3, <3>1, <4>1, <4>2
      <3>3. CASE p[2] \notin touched
        BY <2>3, <3>1, <3>3
      <3> QED
        BY <3>2, <3>3
    <2>7. \A i \in DOMAIN jira.issues :
            /\ SprintsOk(jira.issues[i], edits) /\ OneOpen(jira.issues[i].sprints)'
            /\ \A m \in jira.issues[i].moves : KeptOk(m)'
      BY <2>1, <2>2 DEF SprintInv, OneOpen, KeptOk
    <2> QED
      BY <2>1, <2>5, <2>6, <2>7 DEF SprintInv, OneOpen, KeptOk, Loaded
  <1>3. CASE LoadTables
    <2>1. UNCHANGED <<world, jira, tables, edits>> /\ raw'.issues = raw.issues
          /\ raw'.sprints = jira.sprints
      BY <1>1, <1>3 DEF LoadTables, Load, RawInv, RawFields
    <2>2. ASSUME NEW m, KeptOk(m)
          PROVE  KeptOk(m)'
      BY <2>1, <2>2 DEF KeptOk
    <2>3. \A i \in DOMAIN jira.issues : \A m \in jira.issues[i].moves : KeptOk(m)'
      BY <2>2 DEF SprintInv
    <2>4. \A i \in DOMAIN jira.issues : OneOpen(jira.issues[i].sprints)'
      BY <2>1 DEF SprintInv, OneOpen
    <2> QED
      BY <2>1, <2>3, <2>4 DEF SprintInv, Loaded, OneOpen, KeptOk
  <1> QED
    BY <1>2, <1>3

\* The changelog has rows of the sprints an issue mentions.
LEMMA EventsMention ==
    ASSUME NEW w, NEW e \in WholeSetEvents(w) \cup SnapshotEvents(w)
    PROVE  e.issue \in Loaded(w) /\ e.of \in Mention(w.issues[e.issue])
  <1>1. CASE e \in WholeSetEvents(w)
    <2>1. PICK i \in Loaded(w) : \E m \in w.issues[i].moves :
              e \in {Event(i, s, m.at, "added") : s \in m.to} \cup
                    {Event(i, s, m.at, "removed") : s \in m.from}
      BY <1>1 DEF WholeSetEvents
    <2>2. PICK m \in w.issues[i].moves :
              e \in {Event(i, s, m.at, "added") : s \in m.to} \cup
                    {Event(i, s, m.at, "removed") : s \in m.from}
      BY <2>1
    <2>3. e.issue = i /\ e.of \in m.from \cup m.to
      BY <2>2 DEF Event
    <2> QED
      BY <2>3 DEF Mention, Mentions
  <1>2. CASE e \in SnapshotEvents(w)
    BY <1>2 DEF SnapshotEvents, Event, Mention
  <1> QED
    BY <1>1, <1>2

LEMMA CommitKeepsSprints ==
    ASSUME RunInv, RunInv', SprintInv,
           NEW r \in DOMAIN runs, NEW step, NEW u, Commit(r, step, u), Statement(r, step, u)
    PROVE  SprintInv'
  <1>1. UNCHANGED <<world, jira, raw, edits>> /\ tables' = u
    BY CommitFrame DEF RunInv
  <1>2. step # "sprint_issues" => u.sprint_issues = tables.sprint_issues
    BY StatementWrites DEF RunInv
  <1>3. ASSUME NEW p \in DOMAIN u.sprint_issues
        PROVE  p[2] \in Loaded(raw) /\ p[1] \in Mention(raw.issues[p[2]])
    <2>1. CASE p \in DOMAIN tables.sprint_issues
      BY <2>1 DEF SprintInv
    <2>2. CASE p \notin DOMAIN tables.sprint_issues
      <3> DEFINE events == KnownEvents(WholeSetEvents(raw) \cup SnapshotEvents(raw),
                                       tables, tables.sprints)
      <3>1. u = CleanSprintIssues(tables, raw) /\ DOMAIN tables = TableNames
        BY <1>2, <1>3, <2>2 DEF Statement, Logs, RunInv, TypeInv, RefsOk
      <3>2. p \in DOMAIN Members(events)
        BY <1>3, <2>2, <3>1 DEF CleanSprintIssues, Upserted, TableNames
      <3>3. PICK e \in events : p = <<e.of, e.issue>>
        BY <3>2 DEF Members
      <3>4. e \in WholeSetEvents(raw) \cup SnapshotEvents(raw)
        BY DEF KnownEvents
      <3> QED
        BY <3>3, <3>4, EventsMention
    <2> QED
      BY <2>1, <2>2
  <1> QED
    BY <1>1, <1>3 DEF SprintInv, OneOpen, KeptOk, Loaded

LEMMA SprintStep == RunInv /\ RunInv' /\ SprintInv /\ [Next]_vars => SprintInv'
  <1> SUFFICES ASSUME RunInv, RunInv', SprintInv, [Next]_vars
               PROVE  SprintInv'
    OBVIOUS
  <1>1. ASSUME UNCHANGED <<jira, raw, tables, edits>>
        PROVE  SprintInv'
    BY <1>1 DEF SprintInv, OneOpen, KeptOk, Loaded
  <1>2. CASE StartRun \/ UNCHANGED vars
    BY <1>1, <1>2 DEF StartRun, vars
  <1>3. CASE \E r \in DOMAIN runs : \E step : FailStep(r, step)
    BY <1>1, <1>3, FailKeepsRuns DEF RunInv, TypeInv
  <1>4. CASE \E r \in DOMAIN runs : \/ ReadLog(r, "sprint_changelog", tables.sprints)
                                    \/ ReadLog(r, "release_changelog", tables.releases)
    BY <1>1, <1>4, ReadKeepsRuns DEF RunInv, TypeInv, Logs
  <1> QED
    BY <1>2, <1>3, <1>4, PeopleKeepSprints, LoadKeepsSprints, CommitKeepsSprints, StepKinds
       DEF RunInv

LEMMA SprintsCorrect == Spec => []SprintInv
  BY SprintInit, SprintStep, RunCorrect, PTL DEF Spec
-----------------------------------------------------------------------------
\* The events of an issue and a sprint.
LEMMA EventsAre ==
    ASSUME NEW w, NEW i \in Loaded(w), NEW s, NEW e
    PROVE  /\ e \in WholeSetEvents(w) /\ e.of = s /\ e.issue = i <=>
                \E m \in w.issues[i].moves :
                    \/ s \in m.to /\ e = Event(i, s, m.at, "added")
                    \/ s \in m.from /\ e = Event(i, s, m.at, "removed")
           /\ e \in DifferenceEvents(w) /\ e.of = s /\ e.issue = i <=>
                \E m \in w.issues[i].moves :
                    \/ s \in m.to \ m.from /\ e = Event(i, s, m.at, "added")
                    \/ s \in m.from \ m.to /\ e = Event(i, s, m.at, "removed")
           /\ e \in SnapshotEvents(w) /\ e.of = s /\ e.issue = i <=>
                /\ w.issues[i].moves = {} /\ s \in w.issues[i].sprints
                /\ e = Event(i, s, w.issues[i].created, "added")
  <1>1. \A j, x, at, action : /\ Event(j, x, at, action).issue = j
                              /\ Event(j, x, at, action).of = x
    BY DEF Event
  <1>2. e \in WholeSetEvents(w) <=>
            \E j \in Loaded(w) : \E m \in w.issues[j].moves :
                \/ \E x \in m.to : e = Event(j, x, m.at, "added")
                \/ \E x \in m.from : e = Event(j, x, m.at, "removed")
    BY DEF WholeSetEvents
  <1>3. e \in DifferenceEvents(w) <=>
            \E j \in Loaded(w) : \E m \in w.issues[j].moves :
                \/ \E x \in m.to \ m.from : e = Event(j, x, m.at, "added")
                \/ \E x \in m.from \ m.to : e = Event(j, x, m.at, "removed")
    BY DEF DifferenceEvents
  <1>4. e \in SnapshotEvents(w) <=>
            \E j \in Loaded(w) : /\ w.issues[j].moves = {}
                                 /\ \E x \in w.issues[j].sprints :
                                        e = Event(j, x, w.issues[j].created, "added")
    BY DEF SnapshotEvents
  <1>5. e \in WholeSetEvents(w) /\ e.of = s /\ e.issue = i <=>
            \E m \in w.issues[i].moves :
                \/ s \in m.to /\ e = Event(i, s, m.at, "added")
                \/ s \in m.from /\ e = Event(i, s, m.at, "removed")
    BY <1>1, <1>2
  <1>6. e \in DifferenceEvents(w) /\ e.of = s /\ e.issue = i <=>
            \E m \in w.issues[i].moves :
                \/ s \in m.to \ m.from /\ e = Event(i, s, m.at, "added")
                \/ s \in m.from \ m.to /\ e = Event(i, s, m.at, "removed")
    BY <1>1, <1>3
  <1>7. e \in SnapshotEvents(w) /\ e.of = s /\ e.issue = i <=>
            /\ w.issues[i].moves = {} /\ s \in w.issues[i].sprints
            /\ e = Event(i, s, w.issues[i].created, "added")
    BY <1>1, <1>4
  <1> QED
    BY <1>5, <1>6, <1>7

\* Of one event the latest is it.
LEMMA LatestOfOne ==
    ASSUME NEW e, e.action = "added"
    PROVE  Latest({e}) = e
  <1>1. \E x \in {e} : \A f \in {e} :
            f.at < x.at \/ (f.at = x.at /\ (x.action = "removed" \/ f.action = "added"))
    OBVIOUS
  <1> QED
    BY <1>1 DEF Latest

\* An issue has an event of each sprint it mentions.
LEMMA EventsOfMentioned ==
    ASSUME NEW w, NEW i \in Loaded(w), NEW s, NEW mine,
           mine = {e \in WholeSetEvents(w) \cup SnapshotEvents(w) : e.of = s /\ e.issue = i}
    PROVE  mine = {} <=> s \notin Mention(w.issues[i])
  <1>1. ASSUME s \notin Mention(w.issues[i])
        PROVE  mine = {}
    BY <1>1, EventsMention
  <1>2. ASSUME s \in Mention(w.issues[i])
        PROVE  mine # {}
    <2>1. CASE w.issues[i].moves = {}
      <3> DEFINE e == Event(i, s, w.issues[i].created, "added")
      <3>1. e \in SnapshotEvents(w) /\ e.of = s /\ e.issue = i
        BY <1>2, <2>1, EventsAre DEF Mention
      <3> QED
        BY <3>1
    <2>2. CASE w.issues[i].moves # {}
      <3>1. PICK m \in w.issues[i].moves : s \in m.from \cup m.to
        BY <1>2, <2>2 DEF Mention, Mentions
      <3>2. PICK e : \/ s \in m.to /\ e = Event(i, s, m.at, "added")
                     \/ s \in m.from /\ e = Event(i, s, m.at, "removed")
        BY <3>1
      <3>3. \E k \in w.issues[i].moves :
                    \/ s \in k.to /\ e = Event(i, s, k.at, "added")
                    \/ s \in k.from /\ e = Event(i, s, k.at, "removed")
        BY <3>1, <3>2
      <3>4. e \in WholeSetEvents(w) /\ e.of = s /\ e.issue = i
        BY <3>3, EventsAre
      <3> QED
        BY <3>4
    <2> QED
      BY <2>1, <2>2
  <1> QED
    BY <1>1, <1>2

\* Where no move keeps a sprint, whole sets and differences give the same events of it.
LEMMA ReadingsOfAMove ==
    ASSUME NEW w, NEW i \in Loaded(w), NEW s,
           \A m \in w.issues[i].moves : s \notin m.from \cap m.to
    PROVE  \A e : e.of = s /\ e.issue = i =>
              (e \in DifferenceEvents(w) \cup SnapshotEvents(w)
                    <=> e \in WholeSetEvents(w) \cup SnapshotEvents(w))
  <1>1. \A e : e \in WholeSetEvents(w) /\ e.of = s /\ e.issue = i <=>
            \E m \in w.issues[i].moves :
                \/ s \in m.to /\ e = Event(i, s, m.at, "added")
                \/ s \in m.from /\ e = Event(i, s, m.at, "removed")
    BY EventsAre
  <1>2. \A e : e \in DifferenceEvents(w) /\ e.of = s /\ e.issue = i <=>
            \E m \in w.issues[i].moves :
                \/ s \in m.to \ m.from /\ e = Event(i, s, m.at, "added")
                \/ s \in m.from \ m.to /\ e = Event(i, s, m.at, "removed")
    BY EventsAre
  <1> QED
    BY <1>1, <1>2

\* Where no move keeps a sprint, the latest event of it says whether the issue is in it.
LEMMA LatestTells ==
    ASSUME NEW w, NEW i \in Loaded(w), NEW s, NEW n \in Nat, SprintsOk(w.issues[i], n), NEW mine,
           mine = {e \in WholeSetEvents(w) \cup SnapshotEvents(w) : e.of = s /\ e.issue = i},
           \A m \in w.issues[i].moves : s \notin m.from \cap m.to
    PROVE  mine # {} /\ Latest(mine).action = "added" <=> s \in w.issues[i].sprints
  <1> DEFINE issue == w.issues[i]
  <1>1. \A e : e \in mine <=>
            \/ \E m \in issue.moves : \/ s \in m.to /\ e = Event(i, s, m.at, "added")
                                      \/ s \in m.from /\ e = Event(i, s, m.at, "removed")
            \/ /\ issue.moves = {} /\ s \in issue.sprints
               /\ e = Event(i, s, issue.created, "added")
    BY EventsAre
  <1>3. CASE issue.moves = {}
    <2> DEFINE e == Event(i, s, issue.created, "added")
    <2>1. CASE s \in issue.sprints
      <3>1. mine = {e} /\ e.action = "added"
        BY <1>1, <1>3, <2>1 DEF Event
      <3> QED
        BY <2>1, <3>1, LatestOfOne
    <2>2. CASE s \notin issue.sprints
      <3>1. mine = {}
        BY <1>1, <1>3, <2>2
      <3> QED
        BY <2>2, <3>1
    <2> QED
      BY <2>1, <2>2
  <1>4. CASE issue.moves # {} /\ mine = {}
    <2>1. s \notin Mentions(issue.moves)
      BY <1>4, EventsOfMentioned DEF Mention
    <2> QED
      BY <1>4, <2>1 DEF SprintsOk
  <1>5. CASE issue.moves # {} /\ mine # {}
    <2>1. \A e \in mine : e.at \in 1 .. n /\ e.action \in {"added", "removed"}
      BY <1>1, <1>5 DEF SprintsOk, OneAtATime, Event
    <2> DEFINE last == Latest(mine)
    <2>2. /\ last \in mine
          /\ \A f \in mine : f.at < last.at \/ f.at = last.at
      BY <1>5, <2>1, LatestEvent
    <2> HIDE DEF last
    <2>3. PICK m \in issue.moves : \/ s \in m.to /\ last = Event(i, s, m.at, "added")
                                   \/ s \in m.from /\ last = Event(i, s, m.at, "removed")
      BY <1>1, <1>5, <2>2
    <2>4. last.at = m.at /\ m.at \in 1 .. n
      BY <2>3 DEF Event, SprintsOk, OneAtATime
    <2>5. ASSUME NEW k \in issue.moves, s \in k.from \cup k.to
          PROVE  k.at <= m.at
      <3> DEFINE f == Event(i, s, k.at, IF s \in k.to THEN "added" ELSE "removed")
      <3>1. f \in mine
        BY <1>1, <2>5
      <3>2. f.at = k.at /\ k.at \in 1 .. n
        BY DEF Event, SprintsOk, OneAtATime
      <3>3. k.at < m.at \/ k.at = m.at
        BY <2>2, <2>4, <3>1, <3>2
      <3> QED
        BY <2>4, <3>2, <3>3
    <2>6. s \in m.from \cup m.to
      BY <2>3
    <2>7. s \in m.to <=> s \in issue.sprints
      BY <2>5, <2>6 DEF SprintsOk
    <2>8. last.action = "added" <=> s \in m.to
      BY <2>3 DEF Event
    <2> QED
      BY <1>5, <2>7, <2>8 DEF last
  <1> QED
    BY <1>3, <1>4, <1>5

-----------------------------------------------------------------------------
\* The raw tables keep Jira's rule for an issue, so no move of it keeps an open sprint:
\* another open sprint would have been in the field with it.
LEMMA OneOfFew ==
    ASSUME NEW S, IsFiniteSet(S), Cardinality(S) <= 1, NEW a \in S, NEW b \in S
    PROVE  a = b
  <1> SUFFICES ASSUME a # b
               PROVE  FALSE
    OBVIOUS
  <1>1. /\ IsFiniteSet(S \ {a}) /\ Cardinality(S \ {a}) = Cardinality(S) - 1
        /\ Cardinality(S) \in Nat
    BY FS_RemoveElement, FS_CardinalityType
  <1>2. Cardinality(S \ {a}) = 0
    <2>1. Cardinality(S \ {a}) \in Nat
      BY <1>1, FS_CardinalityType
    <2> QED
      BY <1>1, <2>1
  <1>3. S \ {a} = {}
    BY <1>1, <1>2, FS_EmptySet
  <1> QED
    BY <1>3

LEMMA NoneKept ==
    ASSUME RunInv, SprintInv, NEW i \in Loaded(raw), AtMostOneOpen(i),
           NEW s \in DOMAIN raw.sprints, raw.sprints[s] # "closed",
           NEW m \in raw.issues[i].moves
    PROVE  s \notin m.from \cap m.to
  <1> SUFFICES ASSUME s \in m.from, s \in m.to
               PROVE  FALSE
    OBVIOUS
  <1>1. DOMAIN raw.sprints = Sprints
    BY DEF RunInv, TypeInv, RawInv
  <1>2. m.from \subseteq Sprints /\ m.to \subseteq Sprints
    BY DEF SprintInv, SprintsOk
  <1>3. KeptOk(m)
    <2>1. i \in DOMAIN jira.issues
      BY DEF RunInv, TypeInv, RawInv
    <2> QED
      BY <2>1 DEF SprintInv
  <1>4. PICK x \in (m.from \ m.to) \cup (m.to \ m.from) :
            Shut(x, raw.sprints) => Shut(s, raw.sprints)
    BY <1>3 DEF KeptOk
  <1>5. x \in Sprints /\ raw.sprints[x] # "closed"
    BY <1>1, <1>2, <1>4 DEF Shut
  <1>6. ASSUME NEW field \in {m.from, m.to}, x \in field
        PROVE  x = s
    <2> DEFINE S == Open(field, raw.sprints)
    <2>1. s \in S /\ x \in S
      BY <1>1, <1>5, <1>6 DEF Open
    <2>2. S \subseteq Sprints
      BY <1>1 DEF Open
    <2>3. IsFiniteSet(S)
      BY <2>2, FS_Subset, CleanLayerAssumption
    <2>4. Cardinality(S) <= 1
      BY DEF AtMostOneOpen
    <2> HIDE DEF S
    <2> QED
      BY <2>1, <2>3, <2>4, OneOfFew
  <1> QED
    BY <1>4, <1>6

\* What sprint_issues and its changelog are to hold.
Membership(members) ==
    \A i \in Loaded(raw) : AtMostOneOpen(i) =>
        \A s \in DOMAIN raw.sprints :
            Active(members, s, i) <=> s \in Open(raw.issues[i].sprints, raw.sprints)

WholeLog(log) ==
    log = {e \in DifferenceEvents(raw) \cup SnapshotEvents(raw) : e.of \in DOMAIN raw.sprints}

MemberInv ==
    \A r \in DOMAIN runs : ~runs[r].stale =>
        /\ "sprint_issues" \in runs[r].done /\ "items" \in raw.tables =>
                Membership(tables.sprint_issues)
        /\ "sprint_issues_changelog" \in runs[r].done =>
                "items" \in raw.tables /\ WholeLog(tables.sprint_issues_changelog)

LEMMA MembershipOutcome ==
    ASSUME RunInv, SprintInv, DOMAIN tables.issues = Loaded(raw),
           CopyOf(tables.sprints, raw.sprints), "items" \in raw.tables,
           NEW u, u = CleanSprintIssues(tables, raw)
    PROVE  Membership(u.sprint_issues)
  <1> DEFINE all == WholeSetEvents(raw) \cup SnapshotEvents(raw)
             events == KnownEvents(all, tables, tables.sprints)
             rows == Upserted(tables.sprint_issues, Members(events))
             members == [p \in DOMAIN rows |-> rows[p] /\ tables.sprints[p[1]] # "closed"]
  <1>1. u.sprint_issues = members
    BY DEF CleanSprintIssues, RunInv, TypeInv, RefsOk, TableNames
  <1>2. DOMAIN tables.sprints = DOMAIN raw.sprints
        /\ \A s \in DOMAIN raw.sprints : tables.sprints[s] = raw.sprints[s]
    BY DEF CopyOf, RunInv, LogInv, Behind
  <1> SUFFICES ASSUME NEW i \in Loaded(raw), AtMostOneOpen(i), NEW s \in DOMAIN raw.sprints
               PROVE  Active(members, s, i) <=> s \in Open(raw.issues[i].sprints, raw.sprints)
    BY <1>1 DEF Membership
  <1> DEFINE mine == {e \in all : e.of = s /\ e.issue = i}
  <1>3. mine = {e \in events : e.of = s /\ e.issue = i}
    BY <1>2 DEF KnownEvents
  <1>4. /\ mine # {} => (Active(rows, s, i) <=> Latest(mine).action = "added")
        /\ mine = {} => (Active(rows, s, i) <=> Active(tables.sprint_issues, s, i))
    <2> HIDE DEF mine, events
    <2> QED
      BY <1>3, MembersAre
  <1>5. Active(members, s, i) <=> Active(rows, s, i) /\ raw.sprints[s] # "closed"
    <2> HIDE DEF rows
    <2>1. <<s, i>>[1] = s
      OBVIOUS
    <2> QED
      BY <1>2, <2>1 DEF Active
  <1>6. mine = {} => ~Active(tables.sprint_issues, s, i)
    <2>1. mine = {} => s \notin Mention(raw.issues[i])
      BY EventsOfMentioned
    <2>2. <<s, i>> \in DOMAIN tables.sprint_issues => s \in Mention(raw.issues[i])
      BY DEF SprintInv
    <2> QED
      BY <2>1, <2>2 DEF Active
  <1>7. raw.sprints[s] # "closed" =>
            (mine # {} /\ Latest(mine).action = "added" <=> s \in raw.issues[i].sprints)
    <2> SUFFICES ASSUME raw.sprints[s] # "closed"
                 PROVE  mine # {} /\ Latest(mine).action = "added" <=> s \in raw.issues[i].sprints
      OBVIOUS
    <2>1. SprintsOk(raw.issues[i], edits) /\ edits \in Nat
      BY DEF SprintInv, RunInv, TypeInv, JiraInv
    <2>2. \A m \in raw.issues[i].moves : s \notin m.from \cap m.to
      BY NoneKept
    <2> QED
      BY <2>1, <2>2, LatestTells
  <1>8. s \in Open(raw.issues[i].sprints, raw.sprints) <=>
            s \in raw.issues[i].sprints /\ raw.sprints[s] # "closed"
    BY DEF Open
  <1> HIDE DEF mine, rows, members
  <1> QED
    BY <1>4, <1>5, <1>6, <1>7, <1>8

LEMMA WholeLogOutcome ==
    ASSUME RunInv, DOMAIN tables.issues = Loaded(raw), CopyOf(tables.sprints, raw.sprints),
           NEW u, u = CleanSprintIssuesChangelog(tables, raw)
    PROVE  WholeLog(u.sprint_issues_changelog)
  <1> DEFINE all == DifferenceEvents(raw) \cup SnapshotEvents(raw)
  <1>1. u.sprint_issues_changelog = KnownEvents(all, tables, tables.sprints)
    BY DEF CleanSprintIssuesChangelog, RunInv, TypeInv, RefsOk, TableNames
  <1>2. DOMAIN tables.sprints = DOMAIN raw.sprints
    BY DEF CopyOf, RunInv, LogInv, Behind
  <1>3. \A e \in all : e.issue \in Loaded(raw)
    BY DEF DifferenceEvents, SnapshotEvents, Event
  <1> QED
    BY <1>1, <1>2, <1>3 DEF KnownEvents, WholeLog

\* Who has done sprint_issues has done what it reads.
LEMMA BeforeMembership ==
    ASSUME RunInv, NEW D, Closed(D),
           "sprint_issues" \in D \/ "sprint_issues_changelog" \in D
    PROVE  {"issues", "sprints", "sprint_issues"} \subseteq D
  <1>1. Selectable(world.steps) /\ D \subseteq world.steps
        /\ \A s \in D : Upstream[s] \cap world.steps \subseteq D
    BY Selections DEF Closed, RunInv
  <1>2. /\ Upstream["sprint_issues_changelog"] = {"sprint_issues"}
        /\ Upstream["sprint_issues"] = {"sprints"} /\ Upstream["sprints"] = {"issues"}
    BY DEF Upstream
  <1>3. "sprint_issues" \in D
    BY <1>1, <1>2 DEF Selectable
  <1>4. "sprints" \in D /\ "issues" \in world.steps
    BY <1>1, <1>2, <1>3 DEF Selectable
  <1> QED
    BY <1>1, <1>2, <1>3, <1>4

LEMMA MemberInit == Init => MemberInv
  <1> SUFFICES ASSUME Init
               PROVE  MemberInv
    OBVIOUS
  <1>1. runs = <<>>
    BY DEF Init
  <1> QED
    BY <1>1 DEF MemberInv

LEMMA CommitKeepsMembers ==
    ASSUME RunInv, RunInv', SprintInv, MemberInv,
           NEW r \in DOMAIN runs, NEW step, NEW u, Commit(r, step, u), Statement(r, step, u)
    PROVE  MemberInv'
  <1>1. /\ UNCHANGED <<world, raw>> /\ tables' = u /\ Executable(step)
        /\ Ready(r, step) /\ DOMAIN runs' = DOMAIN runs
        /\ runs'[r].done = runs[r].done \cup {step}
        /\ \A k \in DOMAIN runs \ {r} : runs'[k] = runs[k]
        /\ \A k \in DOMAIN runs : runs'[k].stale = runs[k].stale
    BY CommitFrame DEF RunInv
  <1>2. /\ step # "sprint_issues" => u.sprint_issues = tables.sprint_issues
        /\ step # "sprint_issues_changelog" =>
                u.sprint_issues_changelog = tables.sprint_issues_changelog
    BY StatementWrites DEF RunInv
  <1> SUFFICES ASSUME NEW q \in DOMAIN runs, ~runs[q].stale
               PROVE  /\ "sprint_issues" \in runs'[q].done /\ "items" \in raw.tables =>
                            Membership(u.sprint_issues)
                      /\ "sprint_issues_changelog" \in runs'[q].done =>
                            "items" \in raw.tables /\ WholeLog(u.sprint_issues_changelog)
    BY <1>1 DEF MemberInv, Membership, WholeLog, AtMostOneOpen, Loaded
  <1>3. runs[q].done \subseteq runs'[q].done /\ runs'[q].done \subseteq runs[q].done \cup {step}
    BY <1>1
  <1>4. Closed(runs'[q].done) /\ Closed(runs[q].done)
    <2>1. Closed(runs[q].done)'
      BY <1>1 DEF RunInv, MirrorInv
    <2>2. Closed(runs[q].done)
      BY DEF RunInv, MirrorInv
    <2> QED
      BY <1>1, <2>1, <2>2 DEF Closed
  <1>5. ASSUME step \in {"sprint_issues", "sprint_issues_changelog"}, step \in runs'[q].done
        PROVE  DOMAIN tables.issues = Loaded(raw) /\ CopyOf(tables.sprints, raw.sprints)
    <2>1. {"issues", "sprints"} \subseteq runs'[q].done
      BY <1>4, <1>5, BeforeMembership
    <2>2. "issues" \in runs[q].done /\ "sprints" \in runs[q].done
      BY <1>3, <1>5, <2>1
    <2>3. Achieved(runs[q].done, tables, raw)
      BY <1>4 DEF Achieved, RunInv, MirrorInv
    <2>4. Mirrors("sprints", tables, raw)
      BY <2>2, <2>3 DEF Achieved
    <2>5. CopyOf(tables.sprints, raw.sprints)
      BY <2>4 DEF Mirrors
    <2>6. DOMAIN tables.issues = Loaded(raw)
      BY <2>2, <2>3, IssuesKnown DEF RunInv
    <2> QED
      BY <2>5, <2>6
  <1>6. ASSUME "sprint_issues" \in runs'[q].done, "items" \in raw.tables
        PROVE  Membership(u.sprint_issues)
    <2>1. CASE step = "sprint_issues"
      <3>1. u = CleanSprintIssues(tables, raw)
        BY <2>1 DEF Statement, Logs
      <3> QED
        BY <1>5, <1>6, <2>1, <3>1, MembershipOutcome
    <2>2. CASE step # "sprint_issues"
      BY <1>2, <1>3, <1>6, <2>2 DEF MemberInv
    <2> QED
      BY <2>1, <2>2
  <1>7. ASSUME "sprint_issues_changelog" \in runs'[q].done
        PROVE  "items" \in raw.tables /\ WholeLog(u.sprint_issues_changelog)
    <2>1. CASE step = "sprint_issues_changelog"
      <3>1. u = CleanSprintIssuesChangelog(tables, raw)
        BY <2>1 DEF Statement, Logs
      <3>2. "items" \in raw.tables
        BY <1>1, <2>1 DEF Executable
      <3> QED
        BY <1>5, <1>7, <2>1, <3>1, <3>2, WholeLogOutcome
    <2>2. CASE step # "sprint_issues_changelog"
      BY <1>2, <1>3, <1>7, <2>2 DEF MemberInv
    <2> QED
      BY <2>1, <2>2
  <1> QED
    BY <1>6, <1>7

LEMMA MemberStep ==
    ASSUME RunInv, RunInv', SprintInv, MemberInv, [Next]_vars
    PROVE  MemberInv'
  <1>1. ASSUME UNCHANGED raw, DOMAIN runs' = DOMAIN runs,
               \A k \in DOMAIN runs : /\ runs'[k].done = runs[k].done
                                      /\ runs'[k].stale = runs[k].stale,
               tables'.sprint_issues = tables.sprint_issues,
               tables'.sprint_issues_changelog = tables.sprint_issues_changelog
        PROVE  MemberInv'
    BY <1>1 DEF MemberInv, Membership, WholeLog, AtMostOneOpen, Loaded
  <1>2. CASE /\ People /\ UNCHANGED <<world, raw, runs, loads, diffs>>
             /\ Only(tables, tables', {"commitment_rules"})
    BY <1>1, <1>2 DEF Only, TableNames
  <1>3. CASE LoadIssues \/ LoadTables
    <2>1. DOMAIN runs' = DOMAIN runs /\ \A q \in DOMAIN runs : runs'[q].stale = TRUE
      BY <1>3, LoadKeepsRuns DEF LoadIssues, LoadTables, RunInv, TypeInv
    <2> QED
      BY <2>1 DEF MemberInv
  <1>4. CASE StartRun
    <2>1. PICK n : /\ DOMAIN runs' = DOMAIN runs \cup {n} /\ runs'[n].done = {}
                   /\ \A k \in DOMAIN runs : runs'[k] = runs[k]
      BY <1>4, StartKeepsRuns DEF RunInv, TypeInv
    <2>2. UNCHANGED <<raw, tables>>
      BY <1>4, StartKeepsRuns DEF RunInv, TypeInv
    <2> QED
      BY <2>1, <2>2 DEF MemberInv, Membership, WholeLog, AtMostOneOpen, Loaded
  <1>5. CASE \E r \in DOMAIN runs : \E step, u : Commit(r, step, u) /\ Statement(r, step, u)
    BY <1>5, CommitKeepsMembers
  <1>6. CASE \E r \in DOMAIN runs : \E step : FailStep(r, step)
    BY <1>1, <1>6, FailKeepsRuns DEF RunInv, TypeInv
  <1>7. CASE \E r \in DOMAIN runs : \/ ReadLog(r, "sprint_changelog", tables.sprints)
                                    \/ ReadLog(r, "release_changelog", tables.releases)
    BY <1>1, <1>7, ReadKeepsRuns DEF RunInv, TypeInv, Logs
  <1>8. CASE UNCHANGED vars
    BY <1>1, <1>8 DEF vars
  <1> QED
    BY <1>2, <1>3, <1>4, <1>5, <1>6, <1>7, <1>8, StepKinds DEF RunInv

LEMMA MembersCorrect == Spec => []MemberInv
  <1>1. RunInv /\ RunInv' /\ SprintInv /\ MemberInv /\ [Next]_vars => MemberInv'
    BY MemberStep
  <1> QED
    BY <1>1, MemberInit, RunCorrect, SprintsCorrect, PTL DEF Spec

\* After a finished run issues are active in the open sprint of their Sprint field and in
\* no other, and of the versions of their history in those they have.
THEOREM MembershipIsTrue == Spec => []MembershipIsJiras
  <1>1. ASSUME RunInv, MemberInv, Settled, Has("sprint_issues"), "items" \in raw.tables
        PROVE  Membership(tables.sprint_issues)
    BY <1>1 DEF MemberInv, Settled, Complete, Has
  <1>2. ASSUME RunInv, Settled, Has("release_issues")
        PROVE  ReleaseMirror(tables.release_issues, raw)
    BY <1>2, SettledMirrors DEF Has, Mirrors
  <1>3. RunInv /\ MemberInv => MembershipIsJiras
    BY <1>1, <1>2 DEF MembershipIsJiras, Membership, ReleaseMirror
  <1> QED
    BY <1>3, RunCorrect, MembersCorrect, PTL

\* After a finished run sprint_issues and its changelog, though one reads the changes of the
\* Sprint field as whole sets and the other as differences, agree about open sprints.
THEOREM ReadingsAgree == Spec => []HistoryExplainsMembership
  <1>1. ASSUME RunInv, SprintInv, MemberInv, Settled, Has("sprint_issues_changelog"),
               NEW i \in Loaded(raw), NEW s \in Open(DOMAIN raw.sprints, raw.sprints),
               AtMostOneOpen(i), NEW events,
               events = Events(tables.sprint_issues_changelog, s, i)
        PROVE  Active(tables.sprint_issues, s, i)
                    <=> events # {} /\ Latest(events).action = "added"
    <2>1. PICK r \in DOMAIN runs : runs[r].done = world.steps /\ ~runs[r].stale
      BY <1>1 DEF Settled, Complete
    <2>2. "sprint_issues_changelog" \in runs[r].done /\ Closed(runs[r].done)
      BY <1>1, <2>1 DEF Has, RunInv, MirrorInv
    <2>3. "sprint_issues" \in runs[r].done
      BY <1>1, <2>2, BeforeMembership
    <2>4. /\ Membership(tables.sprint_issues)
          /\ WholeLog(tables.sprint_issues_changelog)
      BY <1>1, <2>1, <2>2, <2>3 DEF MemberInv
    <2>5. s \in DOMAIN raw.sprints /\ raw.sprints[s] # "closed"
      BY DEF Open
    <2>6. Active(tables.sprint_issues, s, i) <=> s \in raw.issues[i].sprints
      BY <1>1, <2>4, <2>5 DEF Membership, Open
    <2> DEFINE mine == {e \in WholeSetEvents(raw) \cup SnapshotEvents(raw) : e.of = s /\ e.issue = i}
    <2>7. SprintsOk(raw.issues[i], edits) /\ edits \in Nat
      BY <1>1 DEF SprintInv, RunInv, TypeInv, JiraInv
    <2>8. \A m \in raw.issues[i].moves : s \notin m.from \cap m.to
      BY <1>1, <2>5, NoneKept
    <2>9. mine # {} /\ Latest(mine).action = "added" <=> s \in raw.issues[i].sprints
      BY <2>7, <2>8, LatestTells
    <2>11. \A e : e.of = s /\ e.issue = i =>
              (e \in DifferenceEvents(raw) \cup SnapshotEvents(raw)
                    <=> e \in WholeSetEvents(raw) \cup SnapshotEvents(raw))
      BY <2>8, ReadingsOfAMove
    <2>12. {e \in DifferenceEvents(raw) \cup SnapshotEvents(raw) : e.of = s /\ e.issue = i} = mine
      BY <2>11
    <2>10. events = mine
      <3> HIDE DEF mine
      <3> QED
        BY <1>1, <2>4, <2>5, <2>12 DEF Events, WholeLog
    <2> HIDE DEF mine
    <2> QED
      BY <2>6, <2>9, <2>10
  <1>2. RunInv /\ SprintInv /\ MemberInv => HistoryExplainsMembership
    BY <1>1 DEF HistoryExplainsMembership
  <1> QED
    BY <1>2, RunCorrect, SprintsCorrect, MembersCorrect, PTL
=================================================================================
