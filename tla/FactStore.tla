------------------------------- MODULE FactStore -------------------------------
(****************************************************************************)
(* The metric store: table metrics.fact_values, its writers and the rule    *)
(* that unslices its rows.                                                  *)
(*                                                                          *)
(* A writer is a process that executes metric assets one after the other.   *)
(* A run of an asset is a plan, the sequence of calls of write_fact_values  *)
(* it makes (module MetricAssets says which plans each asset can have).     *)
(* Every call is one READ COMMITTED transaction, modelled statement by      *)
(* statement because other transactions commit between its statements:      *)
(*                                                                          *)
(*   Stage   the rows go to the session's temporary table                   *)
(*   Lock    pg_advisory_xact_lock on the hash of the sorted metric ids     *)
(*   Scan    the DELETE statement takes its snapshot of committed rows      *)
(*   Delete  it waits for rows another transaction has deleted, re-checks   *)
(*           its WHERE clause on what is left, and deletes that             *)
(*   Insert  the staged rows are inserted; the foreign key of slice_rule_id *)
(*           holds the rules they name                                      *)
(*   Commit  all of it becomes visible, and the advisory lock is released   *)
(*                                                                          *)
(* The table has no unique constraint: only the lock keeps two writers from *)
(* inserting the same observation.                                          *)
(****************************************************************************)
EXTENDS Naturals, Sequences

CONSTANTS
    Writers,          \* concurrently running pipeline steps
    Metrics,          \* metrics.calculations ids
    Projects,         \* metrics.dim_projects ids
    Rules,            \* metrics.slice_rules ids
    Values,           \* slice values
    MaxTime,          \* time ids are 1..MaxTime
    Plans,            \* what a run of an asset may do: sequences of batches
    UseAdvisoryLock,  \* FACT_VALUES_USE_ADVISORY_LOCK
    MaxWrites,        \* bound on the number of transactions of a behaviour
    NoRule,           \* slice_rule_id IS NULL
    NoValue           \* slice_value IS NULL

Times == 1 .. MaxTime

\* What one row observes: the entity is folded into the time.
Keys == [metric : Metrics, project : Projects, time : Times,
         rule : Rules \cup {NoRule}, value : Values \cup {NoValue}]

\* The arguments of one call of write_fact_values.
Batches == [rows : SUBSET Keys, metrics : SUBSET Metrics,
            projects : SUBSET Projects, lo : Times, hi : Times]

\* The callers compute the scope of the DELETE from a superset of the rows.
CoversItsRows(b) ==
    \A k \in b.rows : /\ k.metric \in b.metrics
                      /\ k.project \in b.projects
                      /\ k.time \in b.lo .. b.hi

\* A stored row: the observation it was inserted for, the transaction that
\* inserted it (with key, the row's id) and its current slice_rule_id.
Rows == [key : Keys, tx : 1 .. MaxWrites, rule : Rules \cup {NoRule}]

ASSUME ConstantsAssumption ==
    /\ MaxTime \in Nat
    /\ MaxWrites \in Nat
    /\ UseAdvisoryLock \in BOOLEAN
    /\ NoRule \notin Rules
    /\ NoValue \notin Values
    /\ Plans \subseteq Seq(Batches)
    /\ \A p \in Plans : \A i \in 1 .. Len(p) : CoversItsRows(p[i])

VARIABLES
    facts,    \* committed rows of fact_values
    rules,    \* committed rows of slice_rules
    pc,       \* where each writer is
    plan,     \* the plan of its run
    step,     \* the batch of the plan it is at
    tx,       \* the number of its current transaction
    seen,     \* ids in the snapshot of its DELETE statement
    deleted,  \* rows its DELETE removed, not yet committed
    nextTx    \* next transaction number

vars == <<facts, rules, pc, plan, step, tx, seen, deleted, nextTx>>

Batch(w) == plan[w][step[w]]

RulesOf(b) == {k.rule : k \in b.rows}

Id(f) == [key |-> f.key, tx |-> f.tx]

\* The row still carries the rule it was inserted with.
Live(f) == f.rule = f.key.rule

\* Mutant: the DELETE before slices were introduced.
AnySlice(rule, b) == TRUE

(****************************************************************************)
(* The three WHERE clauses of the DELETE: rows of the batch's rules when it *)
(* has only sliced rows, unsliced rows when it has only those or none, and  *)
(* no condition on the rule when it has both.                               *)
(****************************************************************************)
SliceMatches(rule, b) ==
    \/ rule \in RulesOf(b)
    \/ RulesOf(b) = {} /\ rule = NoRule
    \/ NoRule \in RulesOf(b) /\ RulesOf(b) # {NoRule}

\* Mutant: the DELETE forgets project_agg_id.
InScopeOfAnyProject(f, b) ==
    /\ f.key.metric \in b.metrics
    /\ f.key.time \in b.lo .. b.hi
    /\ SliceMatches(f.rule, b)

InScope(f, b) ==
    /\ f.key.metric \in b.metrics
    /\ f.key.project \in b.projects
    /\ f.key.time \in b.lo .. b.hi
    /\ SliceMatches(f.rule, b)

NewRows(w) == {[key |-> k, tx |-> tx[w], rule |-> k.rule] : k \in Batch(w).rows}

\* Mutant: a session-level lock, still held between two calls of a run.
InSessionLock(w) ==
    \/ pc[w] \in {"locked", "scanned", "deleted", "inserted"}
    \/ pc[w] = "run" /\ step[w] > 1

InLockedSection(w) == pc[w] \in {"locked", "scanned", "deleted", "inserted"}

\* Mutant: pg_try_advisory_xact_lock with its answer ignored.
NeverWaits(w) == TRUE

\* The lock key is the whole metric set, so only writers of equal sets meet.
LockFree(w) ==
    \A x \in Writers \ {w} :
        InLockedSection(x) => Batch(x).metrics # Batch(w).metrics

-----------------------------------------------------------------------------
Init ==
    /\ facts = {}
    /\ rules = Rules
    /\ pc = [w \in Writers |-> "idle"]
    /\ plan = [w \in Writers |-> <<>>]
    /\ step = [w \in Writers |-> 1]
    /\ tx = [w \in Writers |-> 0]
    /\ seen = [w \in Writers |-> {}]
    /\ deleted = [w \in Writers |-> {}]
    /\ nextTx = 1

Goto(w, label) == pc' = [pc EXCEPT ![w] = label]

\* An asset starts: it reads the enabled rules and computes what it will write.
StartRun(w) ==
    /\ pc[w] = "idle"
    /\ nextTx <= MaxWrites
    /\ \E p \in Plans :
        /\ p # <<>>
        /\ \A i \in 1 .. Len(p) : RulesOf(p[i]) \subseteq rules \cup {NoRule}
        /\ plan' = [plan EXCEPT ![w] = p]
    /\ step' = [step EXCEPT ![w] = 1]
    /\ Goto(w, "run")
    /\ UNCHANGED <<facts, rules, tx, seen, deleted, nextTx>>

\* engine.begin(), the temporary table and its rows.
Stage(w) ==
    /\ pc[w] = "run"
    /\ nextTx <= MaxWrites
    /\ tx' = [tx EXCEPT ![w] = nextTx]
    /\ nextTx' = nextTx + 1
    /\ Goto(w, "staged")
    /\ UNCHANGED <<facts, rules, plan, step, seen, deleted>>

\* The lock is skipped when it is switched off or no metric is named.
Lock(w) ==
    /\ pc[w] = "staged"
    /\ UseAdvisoryLock /\ Batch(w).metrics # {} => LockFree(w)
    /\ Goto(w, "locked")
    /\ UNCHANGED <<facts, rules, plan, step, tx, seen, deleted, nextTx>>

Scan(w) ==
    /\ pc[w] = "locked"
    /\ seen' = [seen EXCEPT ![w] = {Id(f) : f \in {g \in facts : InScope(g, Batch(w))}}]
    /\ Goto(w, "scanned")
    /\ UNCHANGED <<facts, rules, plan, step, tx, deleted, nextTx>>

\* A row another transaction has deleted is waited for. Rows that went away are
\* skipped, rows that changed are matched again, rows that appeared are not seen.
Delete(w) ==
    /\ pc[w] = "scanned"
    /\ \A x \in Writers \ {w} : \A f \in deleted[x] : Id(f) \notin seen[w]
    /\ deleted' = [deleted EXCEPT ![w] =
            {f \in facts : Id(f) \in seen[w] /\ InScope(f, Batch(w))}]
    /\ Goto(w, "deleted")
    /\ UNCHANGED <<facts, rules, plan, step, tx, seen, nextTx>>

\* A rule that has gone violates the foreign key: the transaction can only Abort.
Insert(w) ==
    /\ pc[w] = "deleted"
    /\ RulesOf(Batch(w)) \subseteq rules \cup {NoRule}
    /\ Goto(w, "inserted")
    /\ UNCHANGED <<facts, rules, plan, step, tx, seen, deleted, nextTx>>

EndTransaction(w) ==
    /\ tx' = [tx EXCEPT ![w] = 0]
    /\ seen' = [seen EXCEPT ![w] = {}]
    /\ deleted' = [deleted EXCEPT ![w] = {}]

EndRun(w) ==
    /\ Goto(w, "idle")
    /\ plan' = [plan EXCEPT ![w] = <<>>]
    /\ step' = [step EXCEPT ![w] = 1]

\* Mutant: one call too many.
CommitAndGoOn(w) ==
    /\ pc[w] = "inserted"
    /\ facts' = (facts \ deleted[w]) \cup NewRows(w)
    /\ EndTransaction(w)
    /\ IF step[w] <= Len(plan[w])
       THEN /\ step' = [step EXCEPT ![w] = @ + 1]
            /\ Goto(w, "run")
            /\ plan' = plan
       ELSE EndRun(w)
    /\ UNCHANGED <<rules, nextTx>>

\* Back to the asset: its next call, or the end of its run.
Commit(w) ==
    /\ pc[w] = "inserted"
    /\ facts' = (facts \ deleted[w]) \cup NewRows(w)
    /\ EndTransaction(w)
    /\ IF step[w] < Len(plan[w])
       THEN /\ step' = [step EXCEPT ![w] = @ + 1]
            /\ Goto(w, "run")
            /\ plan' = plan
       ELSE EndRun(w)
    /\ UNCHANGED <<rules, nextTx>>

\* Any statement may fail and the process may die: the transaction rolls back
\* and the run ends with the calls made so far committed.
Abort(w) ==
    /\ pc[w] # "idle"
    /\ EndTransaction(w)
    /\ EndRun(w)
    /\ UNCHANGED <<facts, rules, nextTx>>

\* The error a missing rule raises in the INSERT.
FailInsert(w) ==
    /\ pc[w] = "deleted"
    /\ ~ RulesOf(Batch(w)) \subseteq rules \cup {NoRule}
    /\ Abort(w)

\* The FK action: rows of a deleted rule lose it and keep their slice value.
Unsliced(f, r) == IF f.rule = r THEN [f EXCEPT !.rule = NoRule] ELSE f

\* DELETE /slice-rules/{id}. The foreign key makes it wait for transactions that
\* have inserted rows of the rule, and the SET NULL for those that deleted some.
DeleteSliceRule(r) ==
    /\ r \in rules
    /\ \A w \in Writers :
        /\ pc[w] = "inserted" => r \notin RulesOf(Batch(w))
        /\ \A f \in deleted[w] : f.rule # r
    /\ rules' = rules \ {r}
    /\ facts' = {Unsliced(f, r) : f \in facts}
    /\ UNCHANGED <<pc, plan, step, tx, seen, deleted, nextTx>>

Write(w) == Lock(w) \/ Scan(w) \/ Delete(w) \/ Insert(w) \/ Commit(w)

Next ==
    \/ \E w \in Writers : StartRun(w) \/ Stage(w) \/ Write(w) \/ Abort(w)
    \/ \E r \in Rules : DeleteSliceRule(r)

Spec == Init /\ [][Next]_vars

(****************************************************************************)
(* Postgres executes the statements of an open transaction and queues those *)
(* who wait for a lock in order; a statement that cannot succeed aborts.    *)
(* Nothing forces an asset to start or a rule to be deleted.                *)
(****************************************************************************)
Fairness == \A w \in Writers : /\ SF_vars(Lock(w))
                               /\ WF_vars(Write(w))
                               /\ WF_vars(FailInsert(w))

FairSpec == Spec /\ Fairness

-----------------------------------------------------------------------------
Labels == {"idle", "run", "staged", "locked", "scanned", "deleted", "inserted"}

\* Every variable has its type, and a writer that is not idle is at a batch of a plan.
TypeOK ==
    /\ facts \subseteq Rows
    /\ rules \subseteq Rules
    /\ pc \in [Writers -> Labels]
    /\ plan \in [Writers -> Plans \cup {<<>>}]
    /\ step \in [Writers -> Nat \ {0}]
    /\ \A w \in Writers : pc[w] # "idle" => step[w] <= Len(plan[w])
    /\ tx \in [Writers -> 0 .. MaxWrites]
    /\ seen \in [Writers -> SUBSET [key : Keys, tx : 1 .. MaxWrites]]
    /\ deleted \in [Writers -> SUBSET Rows]
    /\ nextTx \in 1 .. MaxWrites + 1

\* No observation is stored twice, whatever writers interleave: among the rows
\* that carry their own rule there is one row for each metric, project, time and
\* slice. Nothing in the schema enforces it (fact_values has no unique key).
NoDuplicateFacts ==
    \A f, g \in facts : Live(f) /\ Live(g) /\ f.key = g.key => f = g

\* A write of sliced rows never removes an unsliced row and a write of unsliced
\* rows never removes a sliced one, whatever happens to the slice rules between
\* its statements (the comment above the DELETE of write_fact_values).
SlicedAndBaseApart ==
    [][\A w \in Writers : Commit(w) =>
        \A f \in facts \ facts' :
            /\ NoRule \notin RulesOf(Batch(w)) /\ Batch(w).rows # {} => f.rule # NoRule
            /\ RulesOf(Batch(w)) \subseteq {NoRule} => f.rule = NoRule]_vars

\* No write of a run removes an observation that an earlier write of the same run
\* inserted: the calls an asset makes do not overwrite each other.
RunKeepsItsRows ==
    [][\A w \in Writers : Commit(w) =>
        \A f \in facts \ facts' : \A i \in 1 .. step[w] - 1 :
            f.key \notin plan[w][i].rows]_vars

\* The comment on fact_values.slice_rule_id: "NULL for unsliced values".
NullRuleMeansUnsliced ==
    \A f \in facts : f.rule = NoRule => f.key.rule = NoRule

\* Every transaction that has staged its rows ends: writers that wait for the
\* advisory lock, and then for rows another has deleted, never close a circle. (A
\* circle with the deletion of a rule is cut by Postgres: it is an Abort, or a
\* DeleteSliceRule that does not happen.)
EveryWriteEnds ==
    \A w \in Writers : pc[w] = "staged" ~> pc[w] \in {"run", "idle"}

-----------------------------------------------------------------------------
\* The refinement: the store has the rows that carry their own rule.
Stored == {Id(f) : f \in {g \in facts : Live(g)}}

\* What a batch covers: the observations whose rows, as inserted, it deletes.
Covered(b) == {k \in Keys : InScope([key |-> k, rule |-> k.rule], b)}

PlannedWrites ==
    {[rows |-> b.rows, covers |-> Covered(b)] :
        b \in UNION {{p[i] : i \in 1 .. Len(p)} : p \in Plans}}

Atomic == INSTANCE AtomicFactStore WITH Writes <- PlannedWrites, store <- Stored

\* Concurrent writers, crashes and deleted rules included, the table behaves as
\* the atomic store: a commit replaces exactly what is then in its scope.
WritesAreAtomic == Atomic!Spec
=============================================================================
