---------------------------- MODULE MCMetricReports ----------------------------
(* The worlds and the board with which MetricReports is checked. *)
EXTENDS MetricReports

CONSTANTS i1, i2

\* Issues are told apart by their histories only.
Symmetry == Permutations({i1, i2})

World(issues, kinds, known, resolves, maxNow, maxEvents) ==
    [issues |-> issues, kinds |-> kinds, known |-> known, resolves |-> resolves,
     maxNow |-> maxNow, maxEvents |-> maxEvents, sprint |-> [start |-> 1, end |-> 3]]

\* To do, in progress, done and cancelled; the last two share a column.
MCCategories == <<"to_do", "in_progress", "done", "done">>

Column(position, name, status) ==
    [id |-> position, position |-> position, name |-> name, status |-> status]

MCBoard == {Column(1, "to do", 1), Column(2, "progress", 2), Column(3, "done", 3),
            Column(3, "done", 4)}

MCRuleSpans == {<<1, 3>>, <<2, 3>>, <<1, 2>>}

\* What theorems about the reports ask of the board and of the rules.
ASSUME BoardHypotheses ==
    /\ ByName.end = Done /\ get_done_column_ids(Board) = Done
    /\ \A c, d \in Board : c.status = Initial => c.position <= d.position
    /\ \A span \in RuleSpans : {span[1], span[2]} \subseteq {c.id : c \in Board}

FlowWorlds ==
    {World({i1, i2}, {"create", "move"}, {}, TRUE, 5, 5),
     World({i1, i2}, {"create", "move"}, 1 .. 4, TRUE, 5, 5),
     World({i1, i2}, {"create", "move"}, 1 .. 4, FALSE, 4, 4)}

RuleWorld == World({i1}, {"create", "move", "rule"}, {}, TRUE, 4, 5)

SprintWorlds ==
    {World({i1, i2}, {"create", "plan", "move"}, {}, TRUE, 5, 4),
     World({i1}, {"create", "plan", "move"}, {}, TRUE, 5, 6)}

\* A sprint of four ticks, in which an issue can come and go more than once.
LongSprintWorld ==
    [World({i1}, {"create", "plan"}, {}, TRUE, 6, 5) EXCEPT !.sprint.end = 5]

EstimateWorld == World({i1}, {"create", "plan", "move", "estimate"}, 1 .. 4, TRUE, 5, 4)

MCWorlds == FlowWorlds \cup SprintWorlds \cup {RuleWorld, LongSprintWorld, EstimateWorld}
=============================================================================
