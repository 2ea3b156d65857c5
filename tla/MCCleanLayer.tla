------------------------------ MODULE MCCleanLayer ------------------------------
(* The worlds in which CleanLayer is checked. *)
EXTENDS CleanLayer

CONSTANTS i1, i2

\* Nothing in the clean layer tells issues, or sprints, apart but by what happens to them.
Symmetry == Permutations({i1, i2}) \cup Permutations(Sprints)

World(issues, kinds, steps, nested, maxEdits, maxLoads, maxRuns, maxFailures) ==
    [issues |-> issues, edits |-> kinds, steps |-> steps, tables |-> nested,
     maxEdits |-> maxEdits, maxLoads |-> maxLoads, maxRuns |-> maxRuns, maxFailures |-> maxFailures]

StatusWorld == World({i1, i2}, {"create", "move", "rename"},
    {"issue_statuses", "issues", "status_changelog"}, {}, 4, 2, 2, 1)

BoardWorld == World({i1}, {"create", "columns", "rules"},
    {"issue_statuses", "boards", "board_columns", "column_statuses"}, {}, 2, 3, 2, 1)

SprintWorld == World({i1}, {"create", "plan", "sprint"},
    {"issues", "sprints", "sprint_issues", "sprint_issues_changelog"}, {"items"}, 4, 2, 2, 1)

SprintLogWorld == World({}, {"sprint"}, {"sprints", "sprint_changelog"}, {}, 3, 3, 3, 1)

ReleaseWorld == World({i1}, {"create", "fix"},
    {"issues", "releases", "release_issues", "release_issues_changelog",
     "release_changelog"}, {"items"}, 3, 2, 2, 0)

RowsWorld == World({i1}, {"create", "rows", "assign", "rename"},
    {"issue_types", "issues", "labels", "issue_labels", "user_issue_roles", "issue_links",
     "worklogs", "comments"}, {}, 3, 2, 1, 1)

FieldWorld == World({i1}, {"create", "points", "plan"},
    {"issues", "field_keys", "sprint_field_key", "field_values", "sprint_values",
     "field_value_changelog"}, {}, 3, 2, 2, 1)

RuleWorld == World({}, {"rules"}, {"boards", "board_columns", "column_statuses"},
    {}, 2, 1, 2, 1)

PassingWorlds == {StatusWorld, BoardWorld, SprintWorld, SprintLogWorld, ReleaseWorld,
                  RowsWorld, FieldWorld}

RuleWorlds == {RuleWorld}
=============================================================================
