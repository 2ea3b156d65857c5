------------------------------ MODULE MCFactStore ------------------------------
(****************************************************************************)
(* Instances of FactStore whose plans are those of module MetricAssets.     *)
(* Each metric is a model of one asset; the results are chosen so that runs *)
(* overlap in some observations, leave out others and mix base and slices.  *)
(****************************************************************************)
EXTENDS FactStore

CONSTANTS p1, p2, r1, v1, v2

INSTANCE MetricAssets

MCProjects == {p1, p2}

K(m, p, t, r, v) == [metric |-> m, project |-> p, time |-> t, rule |-> r, value |-> v]
B(m, p, t) == K(m, p, t, NoRule, NoValue)

QualityMetrics == {"defect_density_by_type", "backflow_column_rate"}
MCMetrics == {"throughput_count", "cfd_count", "estimate_volatility_abs",
              "input_flow_weekly"} \cup QualityMetrics

\* Throughput of a week with a slice, and later of two weeks once the rule is off.
Throughput ==
    {calculate_throughput({p1}, res) : res \in
        {{B("throughput_count", p1, 1), K("throughput_count", p1, 1, r1, v1)},
         {B("throughput_count", p1, 1), B("throughput_count", p1, 2)}}}

\* Cumulative flow whose rule has a single value: a base and a sliced call.
CumulativeFlow ==
    {calculate_cumulative_flow_diagram({p1},
        {B("cfd_count", p1, 1), K("cfd_count", p1, 1, r1, v1)})}

\* Quality with both metrics in each of two projects: two calls of equal scope.
Quality ==
    {calculate_quality_metrics({p1, p2},
        {B(m, p, 1) : m \in QualityMetrics, p \in {p1, p2}})}

\* An estimation snapshot with a row and one without.
Estimation ==
    {calculate_estimation_metrics({p1}, res, 1) : res \in
        {{}, {B("estimate_volatility_abs", p1, 1)}}}

\* The weekly intake of one project, or of two.
InputFlow ==
    {calculate_input_flow({B("input_flow_weekly", p, 1) : p \in ps}) :
        ps \in {{p1}, {p1, p2}}}

\* The assets whose concurrent runs the lock keeps apart.
LockedPlans == Throughput \cup CumulativeFlow \cup Quality \cup Estimation \cup InputFlow

\* The hypothesis LockCovers of the theorems holds of them.
ASSUME LockedPlansShareNoMetric ==
    \A p, q \in LockedPlans : \A i \in 1 .. Len(p), j \in 1 .. Len(q) :
        p[i].metrics \cap q[j].metrics # {} => p[i].metrics = q[j].metrics

-----------------------------------------------------------------------------
\* Assets whose lock is on the metrics that occur in the rows. A run that has rows
\* of both metrics and a run that has rows of one take different locks.
OneOrBoth(Plan(_), metrics) ==
    {Plan({B(m, p1, 1) : m \in ms}) : ms \in SUBSET metrics \ {{}}}

SprintHealthMetrics == {"sprint_added_issues_count", "sprint_spillover_count"}
FlowDynamicsMetrics == {"daily_status_entry_count", "field_change_count"}
DeliveryMetrics == {"release_burnup_scope_sp", "release_burnup_done_sp"}
CycleTimeExtMetrics == {"issue_lifetime_days", "epic_delivery_time"}

BacklogRuns ==
    {calculate_backlog_growth({p1}, {B("backlog_size", p1, 1)}, found) :
        found \in {{}, {"backlog_stale_count"}}}

PartialScopes ==
    OneOrBoth(LAMBDA res : calculate_quality_metrics({p1}, res), QualityMetrics) \cup
    OneOrBoth(calculate_sprint_health, SprintHealthMetrics) \cup
    OneOrBoth(calculate_flow_dynamics, FlowDynamicsMetrics) \cup
    OneOrBoth(calculate_delivery_metrics, DeliveryMetrics) \cup
    OneOrBoth(calculate_cycle_time_extended, CycleTimeExtMetrics) \cup
    BacklogRuns

PartialScopeMetrics ==
    QualityMetrics \cup SprintHealthMetrics \cup FlowDynamicsMetrics \cup
    DeliveryMetrics \cup CycleTimeExtMetrics \cup BacklogRequired \cup BacklogOptional

-----------------------------------------------------------------------------
\* Assets that write slice by slice, for a rule of two values.
TwoSlices(m) ==
    {B(m, p1, 1), K(m, p1, 1, r1, v1), K(m, p1, 1, r1, v2)}

TwoValues ==
    {calculate_cumulative_flow_diagram({p1}, TwoSlices("cfd_count")),
     calculate_backlog_growth({p1}, TwoSlices("backlog_size"), {}),
     calculate_aging_extended({p1}, UNION {TwoSlices(m) : m \in AgingExtendedMetrics})}

TwoValueMetrics == {"cfd_count"} \cup BacklogRequired \cup AgingExtendedMetrics
=============================================================================
