---------------------------- MODULE AtomicFactStore ----------------------------
(****************************************************************************)
(* What write_fact_values promises ("Atomic idempotent write of fact_values *)
(* rows"): a store that holds at most one row for each observation, in      *)
(* which a write replaces, in one step, everything in its scope by its      *)
(* rows.  Rows of a slice rule disappear from their series when the rule is *)
(* deleted.                                                                 *)
(****************************************************************************)
EXTENDS Naturals

CONSTANTS
    Writes,           \* possible writes: their rows and the observations covered
    Rules,            \* slice rules
    MaxWrites         \* bound on the number of writes

VARIABLE store  \* the rows: an observation and the write it comes from

Init == store = {}

Replace(w, n) ==
    store' = {e \in store : e.key \notin w.covers} \cup
             {[key |-> k, tx |-> n] : k \in w.rows}

DropRule(r) == store' = {e \in store : e.key.rule # r}

Next ==
    \/ \E w \in Writes, n \in 1 .. MaxWrites : Replace(w, n)
    \/ \E r \in Rules : DropRule(r)

Spec == Init /\ [][Next]_store
=============================================================================
