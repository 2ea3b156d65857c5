----------------------------- MODULE MetricAssets -----------------------------
(****************************************************************************)
(* The Dagster assets that compute metrics, reduced to what each does to    *)
(* the metric store: the calls of write_fact_values a run makes for the     *)
(* observations `res` it has computed (what it computes is left open).      *)
(* An operator per asset; its value is the plan of module FactStore.        *)
(*                                                                          *)
(* The assets differ in what they pass as the scope of the write:           *)
(*   fixed scope    the metrics of the asset and every project it loaded    *)
(*   scope of data  the metrics and projects that occur in the rows         *)
(*   by project     one call for each project                               *)
(*   by value       base rows first, then a call for each slice value       *)
(****************************************************************************)
EXTENDS Integers, FiniteSets, SequencesExt

CONSTANT NoRule

Metrics_(rows) == {k.metric : k \in rows}
Projects_(rows) == {k.project : k \in rows}
RulesIn(rows) == {k.rule : k \in rows} \ {NoRule}
ValuesIn(rows) == {k.value : k \in rows}
Base(rows) == {k \in rows : k.rule = NoRule}
OfProject(rows, p) == {k \in rows : k.project = p}

\* time_id_start and time_id_end are the extremes of the rows being written.
BatchOf(metrics, projects, rows) ==
    [rows |-> rows, metrics |-> metrics, projects |-> projects,
     lo |-> Min({k.time : k \in rows}), hi |-> Max({k.time : k \in rows})]

CallIf(metrics, projects, rows) ==
    IF rows = {} THEN <<>> ELSE <<BatchOf(metrics, projects, rows)>>

\* One call with base and slices together; nothing without base rows.
FixedScope(metrics, projects, res) ==
    IF Base(res) = {} THEN <<>> ELSE <<BatchOf(metrics, projects, res)>>

\* One call; metric_ids and project_agg_ids are the ones that occur in the rows.
ScopeOfData(res) == CallIf(Metrics_(res), Projects_(res), res)

ForEach(set, Plan(_)) == LET s == SetToSeq(set)
                         IN  FlattenSeq([i \in 1 .. Len(s) |-> Plan(s[i])])

\* A call for the base rows of a project and, if it has any, one for each value
\* of each rule, which iter_slicing_results yields one at a time.
ByValue(metrics, projects, res, Calls(_, _)) ==
    ForEach(projects, LAMBDA p :
        LET rows == OfProject(res, p)
            base == Base(rows)
            OfSlice(r, v) == {k \in rows : k.rule = r /\ k.value = v}
        IN  CallIf(metrics, {p}, base) \o
            ForEach(RulesIn(rows), LAMBDA r :
                ForEach(ValuesIn(rows \ base), LAMBDA v : Calls(p, OfSlice(r, v)))))

-----------------------------------------------------------------------------
\* Fixed scope.
LeadTimeMetrics == {"lead_time_days"}
ThroughputMetrics == {"throughput_count"}
AgingMetrics == {"aging_days"}
TimeToMarketMetrics == {"ttm_days"}
EstimationMetrics == {"estimate_volatility_abs"}
FlowEfficiencyMetrics == {"flow_active_days", "flow_wait_days", "flow_efficiency_pct"}
VelocityMetrics == {"velocity_planned_sp", "velocity_completed_sp",
                    "velocity_planned_count", "velocity_completed_count"}

calculate_lead_time(projects, res) == FixedScope(LeadTimeMetrics, projects, res)

calculate_throughput(projects, res) == FixedScope(ThroughputMetrics, projects, res)

calculate_aging(projects, res) == FixedScope(AgingMetrics, projects, res)

calculate_time_to_market(projects, res) == FixedScope(TimeToMarketMetrics, projects, res)

calculate_flow_efficiency(projects, res) ==
    FixedScope(FlowEfficiencyMetrics, projects, res)

calculate_velocity(projects, res) == FixedScope(VelocityMetrics, projects, res)

\* The snapshot of today; with no rows it still clears today's base rows.
calculate_estimation_metrics(projects, res, today) ==
    << [rows |-> res, metrics |-> EstimationMetrics, projects |-> projects,
        lo |-> today, hi |-> today] >>

-----------------------------------------------------------------------------
\* Scope of data.
calculate_sprint_health(res) == ScopeOfData(res)

calculate_flow_dynamics(res) == ScopeOfData(res)

calculate_input_flow(res) == ScopeOfData(res)

calculate_waste_metrics(res) == ScopeOfData(res)

calculate_delivery_metrics(res) == ScopeOfData(res)

calculate_cycle_time_extended(res) == ScopeOfData(res)

\* By project, with the metrics that occur in the project's rows.
calculate_quality_metrics(projects, res) ==
    ForEach(projects, LAMBDA p :
        CallIf(Metrics_(OfProject(res, p)), {p}, OfProject(res, p)))

-----------------------------------------------------------------------------
\* By value. A project without base rows is skipped altogether.
calculate_cumulative_flow_diagram(projects, res) ==
    LET withBase == {p \in projects : Base(OfProject(res, p)) # {}}
    IN  ByValue({"cfd_count"}, withBase, res,
                LAMBDA p, rows : CallIf({"cfd_count"}, {p}, rows))

BacklogRequired == {"backlog_size", "backlog_created", "backlog_resolved",
                    "backlog_net_growth"}
BacklogOptional == {"backlog_avg_age_days", "backlog_stale_count",
                    "backlog_oldest_days", "backlog_stale_pct"}

\* `found`: the optional metrics whose lookup raised no exception in this run.
calculate_backlog_growth(projects, res, found) ==
    LET metrics == BacklogRequired \cup found
        withBase == {p \in projects : Base(OfProject(res, p)) # {}}
    IN  ByValue(metrics, withBase, res, LAMBDA p, rows : CallIf(metrics, {p}, rows))

AgingExtendedOrder == <<"blocked_time_total", "stale_days">>
AgingExtendedMetrics == Range(AgingExtendedOrder)

\* Within a value, a call for each metric, each with the scope of both.
calculate_aging_extended(projects, res) ==
    ByValue(AgingExtendedMetrics, projects, res, LAMBDA p, rows :
        FlattenSeq([i \in 1 .. Len(AgingExtendedOrder) |->
            CallIf(AgingExtendedMetrics, {p},
                   {k \in rows : k.metric = AgingExtendedOrder[i]})]))
=============================================================================
