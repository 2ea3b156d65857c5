---------------------------- MODULE FactStoreProofs ----------------------------
(****************************************************************************)
(* Proofs about module FactStore, for any writers, plans and rules.         *)
(*                                                                          *)
(* The inductive invariant says what the lock and the scan add up to: a     *)
(* writer that has scanned has seen, or has already deleted, every live row *)
(* in its scope, and stays in that position because nobody whose metrics    *)
(* meet its own can commit before it does.                                  *)
(****************************************************************************)
EXTENDS FactStore, TLAPS

\* The hypothesis on the plans: metric sets that meet are equal, so that calls
\* that can delete or insert the same rows take the same lock.
LockCovers ==
    \A p, q \in Plans : \A i \in 1 .. Len(p), j \in 1 .. Len(q) :
        p[i].metrics \cap q[j].metrics # {} => p[i].metrics = q[j].metrics

InTransaction(w) == pc[w] \notin {"idle", "run"}

Numbered == \A w \in Writers : InTransaction(w) => tx[w] # 0

TypeInv == TypeOK /\ Numbered

-----------------------------------------------------------------------------
\* A writer that is not idle is at a batch of a plan, which covers its rows.
LEMMA BatchType ==
    ASSUME TypeOK, NEW w \in Writers, pc[w] # "idle"
    PROVE  /\ plan[w] \in Plans
           /\ step[w] \in 1 .. Len(plan[w])
           /\ Batch(w) \in Batches
           /\ CoversItsRows(Batch(w))
  <1>1. step[w] \in Nat \ {0} /\ step[w] <= Len(plan[w])
    BY DEF TypeOK
  <1>2. plan[w] \in Plans \cup {<<>>}
    BY DEF TypeOK
  <1>3. Len(<<>>) = 0
    OBVIOUS
  <1>4. plan[w] \in Plans
    BY <1>1, <1>2, <1>3
  <1>5. plan[w] \in Seq(Batches)
    BY <1>4, ConstantsAssumption
  <1>6. step[w] \in 1 .. Len(plan[w])
    BY <1>1, <1>5
  <1> QED
    BY <1>4, <1>5, <1>6, ConstantsAssumption DEF Batch

\* What a transaction inserts are rows of the table.
LEMMA NewRowsType ==
    ASSUME TypeInv, NEW w \in Writers, InTransaction(w)
    PROVE  NewRows(w) \subseteq Rows
  <1>1. Batch(w) \in Batches
    BY BatchType DEF TypeInv, InTransaction
  <1>2. tx[w] \in 1 .. MaxWrites
    BY ConstantsAssumption DEF TypeInv, TypeOK, Numbered
  <1>3. \A k \in Batch(w).rows : k \in Keys /\ k.rule \in Rules \cup {NoRule}
    BY <1>1 DEF Batches, Keys
  <1> QED
    BY <1>2, <1>3 DEF NewRows, Rows

\* A row without its rule is still a row.
LEMMA UnslicedType ==
    ASSUME NEW f \in Rows, NEW r
    PROVE  Unsliced(f, r) \in Rows
  BY DEF Unsliced, Rows

LEMMA TypeInit == Init => TypeInv
  BY ConstantsAssumption DEF Init, TypeInv, TypeOK, Labels, Numbered, InTransaction

LEMMA TypeStep == TypeInv /\ [Next]_vars => TypeInv'
  <1> SUFFICES ASSUME TypeInv, [Next]_vars
               PROVE  TypeInv'
    OBVIOUS
  <1>0. /\ \A w \in Writers : pc[w] # "idle" => plan[w] \in Plans /\ Len(plan[w]) \in Nat
        /\ \A w \in Writers : InTransaction(w) => NewRows(w) \subseteq Rows
    BY BatchType, NewRowsType, ConstantsAssumption DEF TypeInv
  <1> USE ConstantsAssumption DEF TypeInv, TypeOK, Labels, Numbered, InTransaction, Goto
  <1>1. ASSUME NEW w \in Writers, StartRun(w)
        PROVE  TypeInv'
    <2>1. PICK p \in Plans : p # <<>> /\ plan' = [plan EXCEPT ![w] = p]
      BY <1>1 DEF StartRun
    <2>2. p \in Seq(Batches)
      BY <2>1
    <2>3. Len(p) >= 1
      BY <2>1, <2>2
    <2> QED
      BY <1>1, <2>1, <2>3 DEF StartRun
  <1>2. ASSUME NEW w \in Writers, Stage(w)
        PROVE  TypeInv'
    BY <1>2 DEF Stage
  <1>3. ASSUME NEW w \in Writers, Lock(w)
        PROVE  TypeInv'
    BY <1>3 DEF Lock
  <1>4. ASSUME NEW w \in Writers, Scan(w)
        PROVE  TypeInv'
    <2>1. {Id(f) : f \in {g \in facts : InScope(g, Batch(w))}}
              \subseteq [key : Keys, tx : 1 .. MaxWrites]
      BY DEF Id, Rows
    <2> QED
      BY <1>4, <2>1 DEF Scan
  <1>5. ASSUME NEW w \in Writers, Delete(w)
        PROVE  TypeInv'
    BY <1>5 DEF Delete
  <1>6. ASSUME NEW w \in Writers, Insert(w)
        PROVE  TypeInv'
    BY <1>6 DEF Insert
  <1>7. ASSUME NEW w \in Writers, Commit(w)
        PROVE  TypeInv'
    <2>1. NewRows(w) \subseteq Rows /\ Len(plan[w]) \in Nat
      BY <1>0, <1>7 DEF Commit
    <2>2. CASE step[w] < Len(plan[w])
      <3>1. /\ plan' = plan
            /\ step' = [step EXCEPT ![w] = step[w] + 1]
            /\ pc' = [pc EXCEPT ![w] = "run"]
        BY <1>7, <2>2 DEF Commit
      <3>2. ASSUME NEW x \in Writers, pc'[x] # "idle"
            PROVE  step'[x] <= Len(plan'[x])
        BY <2>1, <2>2, <3>1, <3>2
      <3>3. facts' \subseteq Rows /\ step' \in [Writers -> Nat \ {0}]
        BY <1>7, <2>1, <3>1 DEF Commit
      <3>4. Numbered'
        BY <1>7, <3>1 DEF Commit, EndTransaction
      <3> QED
        BY <1>7, <3>1, <3>2, <3>3, <3>4 DEF Commit, EndTransaction
    <2>3. CASE ~(step[w] < Len(plan[w]))
      <3>1. /\ plan' = [plan EXCEPT ![w] = <<>>]
            /\ step' = [step EXCEPT ![w] = 1]
            /\ pc' = [pc EXCEPT ![w] = "idle"]
        BY <1>7, <2>3 DEF Commit, EndRun
      <3>2. facts' \subseteq Rows
        BY <1>7, <2>1 DEF Commit
      <3> QED
        BY <1>7, <3>1, <3>2 DEF Commit, EndTransaction
    <2> QED
      BY <2>2, <2>3
  <1>8. ASSUME NEW w \in Writers, Abort(w)
        PROVE  TypeInv'
    BY <1>8 DEF Abort, EndTransaction, EndRun
  <1>9. ASSUME NEW r \in Rules, DeleteSliceRule(r)
        PROVE  TypeInv'
    <2>1. facts' \subseteq Rows
      BY <1>9, UnslicedType DEF DeleteSliceRule
    <2> QED
      BY <1>9, <2>1 DEF DeleteSliceRule
  <1>10. CASE UNCHANGED vars
    BY <1>10 DEF vars
  <1> QED
    BY <1>1, <1>2, <1>3, <1>4, <1>5, <1>6, <1>7, <1>8, <1>9, <1>10 DEF Next, Write

\* Every variable keeps its type, for every number of writers and any plans.
THEOREM TypeCorrect == Spec => []TypeOK
  <1>1. TypeInv => TypeOK
    BY DEF TypeInv
  <1> QED
    BY TypeInit, TypeStep, <1>1, PTL DEF Spec

-----------------------------------------------------------------------------
\* Writers in the locked section are about different metrics.
LockExclusion ==
    \A w, x \in Writers :
        w # x /\ InLockedSection(w) /\ InLockedSection(x) =>
            Batch(w).metrics \cap Batch(x).metrics = {}

\* A row carries the rule it was inserted with, or none.
RulesOnlyDisappear == \A f \in facts : Live(f) \/ f.rule = NoRule

\* The live rows a writer is about to replace.
Replaced(w) == {f \in facts : Live(f) /\ InScope(f, Batch(w))}

\* After the scan none of them is missing from the snapshot, and after the delete
\* none is left undeleted.
ScannedAll(w) ==
    /\ pc[w] = "scanned" => \A f \in Replaced(w) : Id(f) \in seen[w]
    /\ pc[w] \in {"deleted", "inserted"} => Replaced(w) \subseteq deleted[w]

ScanIsComplete == \A w \in Writers : ScannedAll(w)

\* What a writer deletes is in its scope.
DeletedInScope ==
    \A w \in Writers : \A f \in deleted[w] :
        pc[w] \in {"deleted", "inserted"} /\ InScope(f, Batch(w))

\* The invariant that needs no lock, and the one that does.
RowInv == TypeInv /\ RulesOnlyDisappear /\ DeletedInScope

LockInv == RowInv /\ LockExclusion /\ ScanIsComplete /\ NoDuplicateFacts

\* The deletion of a rule leaves the live rows of the others, and no other row
\* becomes live.
LEMMA LiveAfterRuleDeletion ==
    ASSUME TypeInv, RulesOnlyDisappear, NEW r \in Rules, DeleteSliceRule(r)
    PROVE  \A f : f \in facts' /\ Live(f) <=> f \in facts /\ Live(f) /\ f.rule # r
  <1>0. facts' = {Unsliced(f, r) : f \in facts} /\ facts \subseteq Rows /\ r # NoRule
    BY ConstantsAssumption DEF DeleteSliceRule, TypeInv, TypeOK
  <1>1. ASSUME NEW g \in facts, Live(Unsliced(g, r))
        PROVE  Unsliced(g, r) = g /\ g.rule # r
    <2>1. CASE g.rule = r
      <3>1. Unsliced(g, r).key = g.key /\ Unsliced(g, r).rule = NoRule
        BY <1>0, <2>1 DEF Unsliced, Rows
      <3>2. g.key.rule = NoRule
        BY <1>1, <3>1 DEF Live
      <3>3. Live(g) \/ g.rule = NoRule
        BY DEF RulesOnlyDisappear
      <3> QED
        BY <1>0, <2>1, <3>2, <3>3 DEF Live
    <2>2. CASE g.rule # r
      BY <2>2 DEF Unsliced
    <2> QED
      BY <2>1, <2>2
  <1>2. ASSUME NEW f, f \in facts', Live(f)
        PROVE  f \in facts /\ f.rule # r
    BY <1>0, <1>1, <1>2
  <1>3. ASSUME NEW f \in facts, f.rule # r
        PROVE  f \in facts'
    BY <1>0, <1>3 DEF Unsliced
  <1> QED
    BY <1>2, <1>3

LEMMA RowInit == Init => RowInv
  BY TypeInit DEF RowInv, Init, RulesOnlyDisappear, DeletedInScope

LEMMA RowStep == RowInv /\ [Next]_vars => RowInv'
  <1> SUFFICES ASSUME RowInv, [Next]_vars
               PROVE  RulesOnlyDisappear' /\ DeletedInScope'
    BY TypeStep DEF RowInv
  <1>0. TypeOK
    BY DEF RowInv, TypeInv
  <1> USE DEF RowInv, RulesOnlyDisappear, DeletedInScope
  <1>1. ASSUME NEW w \in Writers, StartRun(w)
        PROVE  RulesOnlyDisappear' /\ DeletedInScope'
    <2>1. \A f \in deleted[w] : FALSE
      BY <1>1 DEF StartRun
    <2> QED
      BY <1>0, <1>1, <2>1 DEF StartRun, Goto, Batch, TypeOK
  <1>2. ASSUME NEW w \in Writers, Stage(w) \/ Lock(w) \/ Scan(w) \/ Insert(w)
        PROVE  RulesOnlyDisappear' /\ DeletedInScope'
    BY <1>0, <1>2 DEF Stage, Lock, Scan, Insert, Goto, Batch, TypeOK
  <1>3. ASSUME NEW w \in Writers, Delete(w)
        PROVE  RulesOnlyDisappear' /\ DeletedInScope'
    BY <1>0, <1>3 DEF Delete, Goto, Batch, TypeOK
  <1>4. ASSUME NEW w \in Writers, Commit(w)
        PROVE  RulesOnlyDisappear' /\ DeletedInScope'
    <2>1. RulesOnlyDisappear'
      BY <1>4 DEF Commit, NewRows, Live
    <2>2. \A x \in Writers \ {w} : /\ plan'[x] = plan[x] /\ step'[x] = step[x]
                                   /\ pc'[x] = pc[x] /\ deleted'[x] = deleted[x]
      BY <1>0, <1>4 DEF Commit, EndTransaction, EndRun, Goto, TypeOK
    <2>3. deleted'[w] = {}
      BY <1>0, <1>4 DEF Commit, EndTransaction, TypeOK
    <2> QED
      BY <2>1, <2>2, <2>3 DEF Batch
  <1>5. ASSUME NEW w \in Writers, Abort(w)
        PROVE  RulesOnlyDisappear' /\ DeletedInScope'
    BY <1>0, <1>5 DEF Abort, EndTransaction, EndRun, Goto, Batch, TypeOK
  <1>6. ASSUME NEW r \in Rules, DeleteSliceRule(r)
        PROVE  RulesOnlyDisappear' /\ DeletedInScope'
    <2>1. ASSUME NEW g \in facts
          PROVE  Live(Unsliced(g, r)) \/ Unsliced(g, r).rule = NoRule
      <3>1. g \in Rows
        BY <1>0 DEF TypeOK
      <3> QED
        BY <3>1 DEF Unsliced, Rows
    <2> QED
      BY <1>6, <2>1 DEF DeleteSliceRule, Batch
  <1>7. CASE UNCHANGED vars
    BY <1>7 DEF vars, Batch
  <1> QED
    BY <1>1, <1>2, <1>3, <1>4, <1>5, <1>6, <1>7 DEF Next, Write

\* No write of sliced rows removes an unsliced row, and no write of unsliced rows
\* a sliced one, with or without the advisory lock and whatever the plans.
THEOREM SlicesStayApart == Spec => SlicedAndBaseApart
  <1> DEFINE Kept(w) ==
        \A f \in facts \ facts' :
            /\ NoRule \notin RulesOf(Batch(w)) /\ Batch(w).rows # {} => f.rule # NoRule
            /\ RulesOf(Batch(w)) \subseteq {NoRule} => f.rule = NoRule
  <1>1. ASSUME RowInv, NEW w \in Writers, Commit(w)
        PROVE  Kept(w)
    <2>1. ASSUME NEW f \in facts \ facts'
          PROVE  SliceMatches(f.rule, Batch(w))
      BY <1>1 DEF Commit, RowInv, DeletedInScope, InScope
    <2>2. Batch(w).rows # {} => RulesOf(Batch(w)) # {}
      BY DEF RulesOf
    <2> QED
      BY <2>1, <2>2 DEF SliceMatches
  <1>2. RowInv => [\A w \in Writers : Commit(w) => Kept(w)]_vars
    BY <1>1
  <1> QED
    BY <1>2, RowInit, RowStep, PTL DEF Spec, SlicedAndBaseApart

-----------------------------------------------------------------------------
\* Two writers whose metrics meet are not in the locked section together.
LEMMA LockKeepsApart ==
    ASSUME TypeOK, LockExclusion, LockCovers, UseAdvisoryLock,
           NEW w \in Writers, Lock(w),
           NEW x \in Writers, x # w, InLockedSection(x)
    PROVE  Batch(w).metrics \cap Batch(x).metrics = {}
  <1>1. pc[w] # "idle" /\ pc[x] # "idle"
    BY DEF Lock, InLockedSection
  <1>2. /\ plan[w] \in Plans /\ step[w] \in 1 .. Len(plan[w])
        /\ plan[x] \in Plans /\ step[x] \in 1 .. Len(plan[x])
    BY <1>1, BatchType
  <1>3. Batch(w).metrics \cap Batch(x).metrics # {} =>
            Batch(w).metrics = Batch(x).metrics
    BY <1>2 DEF LockCovers, Batch
  <1>4. Batch(w).metrics = {} \/ Batch(w).metrics # Batch(x).metrics
    BY DEF Lock, LockFree
  <1> QED
    BY <1>3, <1>4

\* What another writer of the locked section commits is not in the scope.
LEMMA CommitOutOfScope ==
    ASSUME TypeOK, LockExclusion, NEW w \in Writers, pc[w] = "inserted",
           NEW x \in Writers, x # w, InLockedSection(x), NEW f \in NewRows(w)
    PROVE  ~InScope(f, Batch(x))
  <1>1. f.key \in Batch(w).rows
    BY DEF NewRows
  <1>2. f.key.metric \in Batch(w).metrics
    BY <1>1, BatchType DEF CoversItsRows
  <1>3. Batch(w).metrics \cap Batch(x).metrics = {}
    BY DEF LockExclusion, InLockedSection
  <1> QED
    BY <1>2, <1>3 DEF InScope

\* The live row of an observation that a writer inserts is in its scope.
LEMMA OwnRowsInScope ==
    ASSUME TypeOK, NEW w \in Writers, pc[w] # "idle",
           NEW f, Live(f), f.key \in Batch(w).rows
    PROVE  InScope(f, Batch(w))
  <1>1. CoversItsRows(Batch(w))
    BY BatchType
  <1>2. f.rule \in RulesOf(Batch(w))
    BY DEF Live, RulesOf
  <1> QED
    BY <1>1, <1>2 DEF InScope, CoversItsRows, SliceMatches

LEMMA LockInit == Init => LockInv
  BY RowInit DEF LockInv, Init, LockExclusion, ScanIsComplete, ScannedAll, NoDuplicateFacts,
                 InLockedSection

LEMMA LockStep ==
    ASSUME LockCovers, UseAdvisoryLock, LockInv, [Next]_vars
    PROVE  LockInv'
  <1>0. TypeOK /\ TypeInv /\ RulesOnlyDisappear /\ RowInv'
    BY RowStep DEF LockInv, RowInv, TypeInv
  <1> SUFFICES LockExclusion' /\ ScanIsComplete' /\ NoDuplicateFacts'
    BY <1>0 DEF LockInv
  <1>a. LockExclusion /\ ScanIsComplete /\ NoDuplicateFacts
    BY DEF LockInv
  <1>1. ASSUME NEW w \in Writers, StartRun(w)
        PROVE  LockExclusion' /\ ScanIsComplete' /\ NoDuplicateFacts'
    BY <1>0, <1>a, <1>1 DEF StartRun, Goto, TypeOK, LockExclusion, ScanIsComplete, ScannedAll,
        NoDuplicateFacts, InLockedSection, Replaced, Batch
  <1>2. ASSUME NEW w \in Writers, Stage(w)
        PROVE  LockExclusion' /\ ScanIsComplete' /\ NoDuplicateFacts'
    BY <1>0, <1>a, <1>2 DEF Stage, Goto, TypeOK, LockExclusion, ScanIsComplete, ScannedAll,
        NoDuplicateFacts, InLockedSection, Replaced, Batch
  <1>3. ASSUME NEW w \in Writers, Lock(w)
        PROVE  LockExclusion' /\ ScanIsComplete' /\ NoDuplicateFacts'
    <2>1. \A x \in Writers \ {w} : InLockedSection(x) =>
              Batch(w).metrics \cap Batch(x).metrics = {}
      BY <1>0, <1>a, <1>3, LockKeepsApart
    <2>2. LockExclusion'
      BY <1>0, <1>a, <1>3, <2>1 DEF Lock, Goto, TypeOK, LockExclusion, InLockedSection, Batch
    <2>3. ScanIsComplete' /\ NoDuplicateFacts'
      BY <1>0, <1>a, <1>3 DEF Lock, Goto, TypeOK, ScanIsComplete, ScannedAll, NoDuplicateFacts,
          Replaced, Batch
    <2> QED
      BY <2>2, <2>3
  <1>4. ASSUME NEW w \in Writers, Scan(w)
        PROVE  LockExclusion' /\ ScanIsComplete' /\ NoDuplicateFacts'
    BY <1>0, <1>a, <1>4 DEF Scan, Goto, TypeOK, LockExclusion, ScanIsComplete, ScannedAll,
        NoDuplicateFacts, InLockedSection, Replaced, Batch
  <1>5. ASSUME NEW w \in Writers, Delete(w)
        PROVE  LockExclusion' /\ ScanIsComplete' /\ NoDuplicateFacts'
    BY <1>0, <1>a, <1>5 DEF Delete, Goto, TypeOK, LockExclusion, ScanIsComplete, ScannedAll,
        NoDuplicateFacts, InLockedSection, Replaced, Batch
  <1>6. ASSUME NEW w \in Writers, Insert(w)
        PROVE  LockExclusion' /\ ScanIsComplete' /\ NoDuplicateFacts'
    BY <1>0, <1>a, <1>6 DEF Insert, Goto, TypeOK, LockExclusion, ScanIsComplete, ScannedAll,
        NoDuplicateFacts, InLockedSection, Replaced, Batch
  <1>7. ASSUME NEW w \in Writers, Commit(w)
        PROVE  LockExclusion' /\ ScanIsComplete' /\ NoDuplicateFacts'
    <2>0. /\ pc[w] = "inserted" /\ pc'[w] \in {"run", "idle"}
          /\ facts' = (facts \ deleted[w]) \cup NewRows(w)
          /\ \A x \in Writers \ {w} :
                /\ pc'[x] = pc[x] /\ plan'[x] = plan[x] /\ step'[x] = step[x]
                /\ seen'[x] = seen[x] /\ deleted'[x] = deleted[x]
      BY <1>0, <1>7 DEF Commit, EndTransaction, EndRun, Goto, TypeOK
    <2>1. LockExclusion'
      BY <1>a, <2>0 DEF LockExclusion, InLockedSection, Batch
    <2>2. ASSUME NEW x \in Writers \ {w}, InLockedSection(x)
          PROVE  Replaced(x)' \subseteq Replaced(x)
      <3>1. \A f \in NewRows(w) : ~InScope(f, Batch(x))
        BY <1>0, <1>a, <2>0, <2>2, CommitOutOfScope
      <3>2. Batch(x)' = Batch(x)
        BY <2>0 DEF Batch
      <3> QED
        BY <2>0, <3>1, <3>2 DEF Replaced
    <2>3. ScanIsComplete'
      BY <1>a, <2>0, <2>2 DEF ScanIsComplete, ScannedAll, InLockedSection
    <2>4. NoDuplicateFacts'
      <3>1. \A f \in facts \ deleted[w] : Live(f) => f.key \notin Batch(w).rows
        BY <1>0, <1>a, <2>0, OwnRowsInScope DEF ScanIsComplete, ScannedAll, Replaced
      <3>2. \A f \in NewRows(w) : f.key \in Batch(w).rows
        BY DEF NewRows
      <3>3. \A f, g \in NewRows(w) : f.key = g.key => f = g
        BY DEF NewRows
      <3> QED
        BY <1>a, <2>0, <3>1, <3>2, <3>3 DEF NoDuplicateFacts
    <2> QED
      BY <2>1, <2>3, <2>4
  <1>8. ASSUME NEW w \in Writers, Abort(w)
        PROVE  LockExclusion' /\ ScanIsComplete' /\ NoDuplicateFacts'
    BY <1>0, <1>a, <1>8 DEF Abort, EndTransaction, EndRun, Goto, TypeOK, LockExclusion,
        ScanIsComplete, ScannedAll, NoDuplicateFacts, InLockedSection, Replaced, Batch
  <1>9. ASSUME NEW r \in Rules, DeleteSliceRule(r)
        PROVE  LockExclusion' /\ ScanIsComplete' /\ NoDuplicateFacts'
    <2>0. UNCHANGED <<pc, plan, step, seen, deleted>>
      BY <1>9 DEF DeleteSliceRule
    <2>1. \A f \in facts' : Live(f) => f \in facts
      BY <1>0, <1>9, LiveAfterRuleDeletion
    <2>2. LockExclusion'
      BY <1>a, <2>0 DEF LockExclusion, InLockedSection, Batch
    <2>3. ScanIsComplete'
      BY <1>a, <2>0, <2>1 DEF ScanIsComplete, ScannedAll, Replaced, Batch
    <2>4. NoDuplicateFacts'
      BY <1>a, <2>1 DEF NoDuplicateFacts
    <2> QED
      BY <2>2, <2>3, <2>4
  <1>10. CASE UNCHANGED vars
    BY <1>a, <1>10 DEF vars, LockExclusion, ScanIsComplete, ScannedAll, NoDuplicateFacts,
        InLockedSection, Replaced, Batch
  <1> QED
    BY <1>1, <1>2, <1>3, <1>4, <1>5, <1>6, <1>7, <1>8, <1>9, <1>10 DEF Next, Write

\* With the advisory lock on, and plans whose metric sets are equal wherever they
\* meet, no observation is stored twice.
THEOREM LockPreventsDuplicates ==
    ASSUME LockCovers, UseAdvisoryLock
    PROVE  Spec => []NoDuplicateFacts
  <1>1. LockInv /\ [Next]_vars => LockInv'
    BY LockStep
  <1>2. LockInv => NoDuplicateFacts
    BY DEF LockInv
  <1> QED
    BY LockInit, <1>1, <1>2, PTL DEF Spec

-----------------------------------------------------------------------------
\* For a row that carries its own rule, to be covered is to be in scope.
LEMMA CoveredIsInScope ==
    ASSUME NEW f \in Rows, Live(f), NEW b
    PROVE  f.key \in Covered(b) <=> InScope(f, b)
  <1>1. f.key \in Keys
    BY DEF Rows
  <1> DEFINE g == [key |-> f.key, rule |-> f.key.rule]
  <1>2. g.key = f.key /\ g.rule = f.rule
    BY DEF Live
  <1>3. InScope(g, b) <=> InScope(f, b)
    BY <1>2 DEF InScope
  <1> QED
    BY <1>1, <1>3 DEF Covered

\* A commit is a Replace of the atomic store.
LEMMA CommitReplaces ==
    ASSUME LockInv, NEW w \in Writers, Commit(w)
    PROVE  \E b \in PlannedWrites, n \in 1 .. MaxWrites : Atomic!Replace(b, n)
  <1>0. TypeOK /\ TypeInv /\ pc[w] = "inserted"
    BY DEF LockInv, RowInv, TypeInv, Commit
  <1>1. plan[w] \in Plans /\ step[w] \in 1 .. Len(plan[w]) /\ Batch(w) \in Batches
    BY <1>0, BatchType
  <1> DEFINE b == [rows |-> Batch(w).rows, covers |-> Covered(Batch(w))]
  <1>2. b \in PlannedWrites
    BY <1>1 DEF PlannedWrites, Batch
  <1>3. tx[w] \in 1 .. MaxWrites
    <2>1. tx[w] # 0
      BY <1>0 DEF TypeInv, Numbered, InTransaction
    <2>2. tx[w] \in 0 .. MaxWrites
      BY <1>0 DEF TypeOK
    <2> QED
      BY <2>1, <2>2, ConstantsAssumption
  <1>4. ASSUME NEW f \in facts, Live(f)
        PROVE  f \in deleted[w] <=> f.key \in Covered(Batch(w))
    <2>1. f \in Rows
      BY <1>0 DEF TypeOK
    <2>2. InScope(f, Batch(w)) => f \in deleted[w]
      BY <1>0, <1>4 DEF LockInv, ScanIsComplete, ScannedAll, Replaced
    <2>3. f \in deleted[w] => InScope(f, Batch(w))
      BY DEF LockInv, RowInv, DeletedInScope
    <2> QED
      BY <1>4, <2>1, <2>2, <2>3, CoveredIsInScope
  <1>5. \A f \in NewRows(w) : Live(f) /\ Id(f) = [key |-> f.key, tx |-> tx[w]]
    BY DEF NewRows, Live, Id
  <1>6. /\ \A f \in NewRows(w) : f.key \in Batch(w).rows
        /\ \A k \in Batch(w).rows : \E f \in NewRows(w) : f.key = k
    <2>1. ASSUME NEW k \in Batch(w).rows
          PROVE  \E f \in NewRows(w) : f.key = k
      <3>1. [key |-> k, tx |-> tx[w], rule |-> k.rule] \in NewRows(w)
        BY DEF NewRows
      <3> QED
        BY <3>1
    <2> QED
      BY <2>1 DEF NewRows
  <1>7. \A f \in facts : Id(f).key = f.key
    BY DEF Id
  <1>8. Stored' = {Id(f) : f \in {g \in facts \ deleted[w] : Live(g)}} \cup
                  {Id(f) : f \in NewRows(w)}
    BY <1>5 DEF Stored, Commit
  <1>9. {Id(f) : f \in {g \in facts \ deleted[w] : Live(g)}} =
        {e \in Stored : e.key \notin Covered(Batch(w))}
    BY <1>4, <1>7 DEF Stored
  <1>10. {Id(f) : f \in NewRows(w)} = {[key |-> k, tx |-> tx[w]] : k \in Batch(w).rows}
    BY <1>5, <1>6
  <1>11. Atomic!Replace(b, tx[w])
    BY <1>8, <1>9, <1>10 DEF Atomic!Replace
  <1> QED
    BY <1>2, <1>3, <1>11

\* The deletion of a rule is a DropRule of the atomic store.
LEMMA RuleDeletionDrops ==
    ASSUME LockInv, NEW r \in Rules, DeleteSliceRule(r)
    PROVE  Atomic!DropRule(r)
  <1>1. \A f : f \in facts' /\ Live(f) <=> f \in facts /\ Live(f) /\ f.rule # r
    BY LiveAfterRuleDeletion DEF LockInv, RowInv
  <1>2. \A f : Live(f) => (Id(f).key.rule = r <=> f.rule = r)
    BY DEF Live, Id
  <1>3. Stored' = {e \in Stored : e.key.rule # r}
    BY <1>1, <1>2 DEF Stored
  <1> QED
    BY <1>3 DEF Atomic!DropRule

\* Under the same hypotheses the table, with writers interleaved statement by
\* statement, behaves as the atomic store.
THEOREM StoreIsAtomic ==
    ASSUME LockCovers, UseAdvisoryLock
    PROVE  Spec => WritesAreAtomic
  <1>1. Init => Atomic!Init
    BY DEF Init, Atomic!Init, Stored
  <1>2. LockInv /\ [Next]_vars => LockInv'
    BY LockStep
  <1>3. LockInv /\ [Next]_vars => [Atomic!Next]_Stored
    <2> SUFFICES ASSUME LockInv, [Next]_vars
                 PROVE  Atomic!Next \/ Stored' = Stored
      OBVIOUS
    <2>1. CASE facts' = facts
      BY <2>1 DEF Stored
    <2>2. ASSUME NEW w \in Writers, Commit(w)
          PROVE  Atomic!Next
      BY <2>2, CommitReplaces DEF Atomic!Next
    <2>3. ASSUME NEW r \in Rules, DeleteSliceRule(r)
          PROVE  Atomic!Next
      BY <2>3, RuleDeletionDrops DEF Atomic!Next
    <2>4. facts' = facts \/ (\E w \in Writers : Commit(w))
              \/ (\E r \in Rules : DeleteSliceRule(r))
      BY DEF Next, vars, Write, StartRun, Stage, Lock, Scan, Delete, Insert, Abort
    <2> QED
      BY <2>1, <2>2, <2>3, <2>4
  <1> QED
    BY <1>1, <1>2, <1>3, LockInit, PTL DEF Spec, WritesAreAtomic, Atomic!Spec
-----------------------------------------------------------------------------
\* A call spares an observation that an earlier one has inserted, even if its rule
\* is deleted in between and the row has lost it.
Spares(b, k) == \A r \in {k.rule, NoRule} : ~InScope([key |-> k, rule |-> r], b)

\* The hypothesis on the plans for what follows. It is about one run and not about
\* two: neither the lock nor other writers matter to it.
LaterCallsSpare ==
    \A p \in Plans : \A i, j \in 1 .. Len(p) : i < j => \A k \in p[i].rows : Spares(p[j], k)

\* Being in scope depends on the observation and the current rule of a row only.
LEMMA ScopeOfKeyAndRule ==
    ASSUME NEW f, NEW b
    PROVE  InScope(f, b) <=> InScope([key |-> f.key, rule |-> f.rule], b)
  <1> DEFINE g == [key |-> f.key, rule |-> f.rule]
  <1>1. g.key = f.key /\ g.rule = f.rule
    OBVIOUS
  <1> HIDE DEF g
  <1>2. InScope(f, b) <=> InScope(g, b)
    BY <1>1 DEF InScope
  <1> QED
    BY <1>2 DEF g

\* If its calls spare what the earlier ones inserted, a run keeps its rows: with or
\* without the lock, whoever else writes and whichever rules are deleted meanwhile.
THEOREM RunsKeepTheirRows ==
    ASSUME LaterCallsSpare
    PROVE  Spec => RunKeepsItsRows
  <1> DEFINE Kept(w) == \A f \in facts \ facts' : \A i \in 1 .. step[w] - 1 :
                            f.key \notin plan[w][i].rows
  <1>1. ASSUME RowInv, NEW w \in Writers, Commit(w)
        PROVE  Kept(w)
    <2> SUFFICES ASSUME NEW f \in facts \ facts', NEW i \in 1 .. step[w] - 1,
                        f.key \in plan[w][i].rows
                 PROVE  FALSE
      OBVIOUS
    <2>1. TypeOK /\ pc[w] # "idle"
      BY <1>1 DEF RowInv, TypeInv, Commit
    <2>2. plan[w] \in Plans /\ step[w] \in 1 .. Len(plan[w])
      BY <2>1, BatchType
    <2>3. step[w] \in Nat /\ Len(plan[w]) \in Nat
      BY <2>1, <2>2, ConstantsAssumption DEF TypeOK
    <2>4. i \in 1 .. Len(plan[w]) /\ i < step[w]
      BY <2>2, <2>3
    <2>5. Spares(Batch(w), f.key)
      BY <2>2, <2>4 DEF LaterCallsSpare, Batch
    <2>6. InScope(f, Batch(w))
      BY <1>1 DEF Commit, RowInv, DeletedInScope
    <2>7. f.rule \in {f.key.rule, NoRule}
      BY <1>1 DEF RowInv, RulesOnlyDisappear, Live
    <2> QED
      BY <2>5, <2>6, <2>7, ScopeOfKeyAndRule DEF Spares
  <1>2. RowInv => [\A w \in Writers : Commit(w) => Kept(w)]_vars
    BY <1>1
  <1> QED
    BY <1>2, RowInit, RowStep, PTL DEF Spec, RunKeepsItsRows

-----------------------------------------------------------------------------
\* What a run that ends between two of its calls leaves: each series it has written
\* is the new one, each it has not written is as it was.

\* The calls of a run cover different observations.
CallsApart ==
    \A p \in Plans : \A i, j \in 1 .. Len(p) : i # j => Covered(p[i]) \cap Covered(p[j]) = {}

\* The live observations in the scope of a call.
KeysIn(b) == {f.key : f \in {g \in facts : Live(g) /\ InScope(g, b)}}

\* They are what the call wrote, but for the rules deleted since.
Accomplished(b) == KeysIn(b) = {k \in b.rows : k.rule \in rules \cup {NoRule}}

\* The calls a run has made so far are accomplished.
CallsSoFar(w) ==
    pc[w] # "idle" => \A i \in 1 .. step[w] - 1 : Accomplished(plan[w][i])

\* Only its own commit, or the deletion of a rule, changes what is in the scope of a
\* call of the run, and its commit accomplishes it.
CallByCall(w) ==
    \A i \in 1 .. Len(plan[w]) : \A b \in {plan[w][i]} :
        \/ KeysIn(b)' = KeysIn(b)
        \/ \E r \in Rules : DeleteSliceRule(r)
        \/ Commit(w) /\ i = step[w] /\ Accomplished(b)'

\* Meanwhile nobody else commits to the metrics of the run.
Undisturbed(w) ==
    \A x \in Writers \ {w} : Commit(x) =>
        \A i \in 1 .. Len(plan[w]) : plan[w][i].metrics \cap Batch(x).metrics = {}

\* The rules that rows and pending inserts name exist (the foreign key of slice_rule_id).
RulesExist ==
    /\ \A f \in facts : f.rule \in rules \cup {NoRule}
    /\ \A w \in Writers : pc[w] = "inserted" => RulesOf(Batch(w)) \subseteq rules \cup {NoRule}

CallInv(w) == RowInv /\ RulesExist /\ ScannedAll(w) /\ CallsSoFar(w)

\* The foreign key holds after every step.
LEMMA RulesExistStep == RowInv /\ RulesExist /\ [Next]_vars => RulesExist'
  <1> SUFFICES ASSUME RowInv, RulesExist, [Next]_vars
               PROVE  RulesExist'
    OBVIOUS
  <1>0. TypeOK
    BY DEF RowInv, TypeInv
  <1>1. ASSUME NEW w \in Writers, StartRun(w) \/ Stage(w) \/ Lock(w) \/ Scan(w) \/ Delete(w)
        PROVE  RulesExist'
    <2>1. UNCHANGED <<facts, rules>> /\ pc'[w] # "inserted"
      BY <1>0, <1>1 DEF StartRun, Stage, Lock, Scan, Delete, Goto, TypeOK
    <2>2. \A x \in Writers \ {w} : pc'[x] = pc[x] /\ plan'[x] = plan[x] /\ step'[x] = step[x]
      BY <1>0, <1>1 DEF StartRun, Stage, Lock, Scan, Delete, Goto, TypeOK
    <2> QED
      BY <2>1, <2>2 DEF RulesExist, Batch
  <1>2. ASSUME NEW w \in Writers, Insert(w)
        PROVE  RulesExist'
    BY <1>0, <1>2 DEF Insert, Goto, RulesExist, Batch, TypeOK
  <1>3. ASSUME NEW w \in Writers, Commit(w)
        PROVE  RulesExist'
    <2>1. \A f \in NewRows(w) : f.rule \in RulesOf(Batch(w))
      BY DEF NewRows, RulesOf
    <2>2. facts' = (facts \ deleted[w]) \cup NewRows(w) /\ rules' = rules /\ pc[w] = "inserted"
      BY <1>3 DEF Commit
    <2>3. \A f \in facts' : f.rule \in rules' \cup {NoRule}
      BY <2>1, <2>2 DEF RulesExist
    <2>4. pc'[w] # "inserted"
      BY <1>0, <1>3 DEF Commit, EndRun, Goto, TypeOK
    <2>5. \A x \in Writers \ {w} : pc'[x] = pc[x] /\ Batch(x)' = Batch(x)
      BY <1>0, <1>3 DEF Commit, EndRun, Goto, Batch, TypeOK
    <2> QED
      BY <2>2, <2>3, <2>4, <2>5 DEF RulesExist
  <1>4. ASSUME NEW w \in Writers, Abort(w)
        PROVE  RulesExist'
    BY <1>0, <1>4 DEF Abort, EndRun, Goto, RulesExist, Batch, TypeOK
  <1>5. ASSUME NEW r \in Rules, DeleteSliceRule(r)
        PROVE  RulesExist'
    <2>1. ASSUME NEW f \in facts
          PROVE  Unsliced(f, r).rule \in (rules \ {r}) \cup {NoRule}
      <3>1. f \in Rows
        BY <1>0 DEF TypeOK
      <3> QED
        BY <3>1 DEF Unsliced, Rows, RulesExist
    <2>2. \A f \in facts' : f.rule \in rules' \cup {NoRule}
      BY <1>5, <2>1 DEF DeleteSliceRule
    <2>3. \A w \in Writers : pc[w] = "inserted" => r \notin RulesOf(Batch(w))
      BY <1>5 DEF DeleteSliceRule
    <2>4. \A w \in Writers : pc'[w] = pc[w] /\ Batch(w)' = Batch(w)
      BY <1>5 DEF DeleteSliceRule, Batch
    <2>5. rules' = rules \ {r}
      BY <1>5 DEF DeleteSliceRule
    <2> QED
      BY <2>2, <2>3, <2>4, <2>5 DEF RulesExist
  <1>6. CASE UNCHANGED vars
    BY <1>6 DEF vars, RulesExist, Batch
  <1> QED
    BY <1>1, <1>2, <1>3, <1>4, <1>5, <1>6 DEF Next, Write

\* No row and no insert about to be committed names a slice rule that is gone.
THEOREM NoDanglingRules == Spec => []RulesExist
  <1>1. Init => RulesExist
    BY DEF Init, RulesExist
  <1> QED
    BY <1>1, RowInit, RowStep, RulesExistStep, PTL DEF Spec

\* What a transaction commits elsewhere does not change what is in the scope of a call.
LEMMA CommitElsewhere ==
    ASSUME RowInv, NEW x \in Writers, Commit(x), NEW b, b.metrics \cap Batch(x).metrics = {}
    PROVE  \A f : InScope(f, b) => (f \in facts' <=> f \in facts)
  <1>1. TypeOK /\ pc[x] # "idle"
    BY DEF RowInv, TypeInv, Commit
  <1>2. \A f \in deleted[x] : f.key.metric \in Batch(x).metrics
    BY DEF RowInv, DeletedInScope, InScope
  <1>3. \A f \in NewRows(x) : f.key.metric \in Batch(x).metrics
    BY <1>1, BatchType DEF NewRows, CoversItsRows
  <1>4. \A f : InScope(f, b) => f \notin deleted[x] /\ f \notin NewRows(x)
    BY <1>2, <1>3 DEF InScope
  <1> QED
    BY <1>4 DEF Commit

\* The deletion of a rule takes its observations out of every scope.
LEMMA RuleDeletionAccomplishes ==
    ASSUME RowInv, NEW r \in Rules, DeleteSliceRule(r), NEW b, Accomplished(b)
    PROVE  Accomplished(b)'
  <1>1. \A f : f \in facts' /\ Live(f) <=> f \in facts /\ Live(f) /\ f.rule # r
    BY LiveAfterRuleDeletion DEF RowInv
  <1>2. KeysIn(b)' = {k \in KeysIn(b) : k.rule # r}
    BY <1>1 DEF KeysIn, Live
  <1>3. rules' = rules \ {r} /\ r # NoRule
    BY ConstantsAssumption DEF DeleteSliceRule
  <1> QED
    BY <1>2, <1>3 DEF Accomplished

\* An accomplished call has the observations it wrote in its scope and no other: it
\* covers its rows, and everything live in its scope is one of them.
LEMMA AccomplishedByCommit ==
    ASSUME RowInv, RulesExist, NEW w \in Writers, ScannedAll(w), Commit(w),
           NEW b, b = Batch(w)
    PROVE  Accomplished(b)'
  <1>1. TypeOK /\ pc[w] = "inserted"
    BY DEF RowInv, TypeInv, Commit
  <1>2. facts' = (facts \ deleted[w]) \cup NewRows(w) /\ rules' = rules
    BY DEF Commit
  <1>3. \A f \in facts \ deleted[w] : ~(Live(f) /\ InScope(f, b))
    BY <1>1 DEF ScannedAll, Replaced
  <1>4. \A f \in NewRows(w) : f.key \in b.rows /\ Live(f)
    BY DEF NewRows, Live
  <1>5. \A f \in NewRows(w) : InScope(f, b)
    BY <1>1, <1>4, OwnRowsInScope
  <1>6. \A k \in b.rows : \E f \in NewRows(w) : f.key = k
    <2> SUFFICES ASSUME NEW k \in b.rows
                 PROVE  \E f \in NewRows(w) : f.key = k
      OBVIOUS
    <2>1. [key |-> k, tx |-> tx[w], rule |-> k.rule] \in NewRows(w)
      BY DEF NewRows
    <2> QED
      BY <2>1
  <1>7. KeysIn(b)' = b.rows
    <2>1. KeysIn(b)' = {f.key : f \in {g \in facts' : Live(g) /\ InScope(g, b)}}
      BY DEF KeysIn
    <2>2. {g \in facts' : Live(g) /\ InScope(g, b)} = NewRows(w)
      BY <1>2, <1>3, <1>4, <1>5
    <2> QED
      BY <1>4, <1>6, <2>1, <2>2
  <1>8. \A k \in b.rows : k.rule \in rules \cup {NoRule}
    BY <1>1 DEF RulesExist, RulesOf
  <1> QED
    BY <1>2, <1>7, <1>8 DEF Accomplished

\* A commit of the run leaves what is in the scope of its other calls.
LEMMA CommitSparesOtherCalls ==
    ASSUME CallsApart, RowInv, NEW w \in Writers, Commit(w),
           NEW i \in 1 .. Len(plan[w]), i # step[w], NEW b, b = plan[w][i]
    PROVE  KeysIn(b)' = KeysIn(b)
  <1>1. TypeOK /\ TypeInv /\ pc[w] = "inserted"
    BY DEF RowInv, TypeInv, Commit
  <1>2. plan[w] \in Plans /\ step[w] \in 1 .. Len(plan[w]) /\ CoversItsRows(Batch(w))
    BY <1>1, BatchType
  <1>3. Covered(b) \cap Covered(Batch(w)) = {}
    BY <1>2 DEF CallsApart, Batch
  <1>4. facts \subseteq Rows /\ NewRows(w) \subseteq Rows
    BY <1>1, NewRowsType DEF TypeOK, InTransaction
  <1>5. ASSUME NEW f \in Rows, Live(f), InScope(f, b)
        PROVE  ~InScope(f, Batch(w))
    BY <1>3, <1>5, CoveredIsInScope
  <1>6. \A f \in deleted[w] : InScope(f, Batch(w))
    BY DEF RowInv, DeletedInScope
  <1>7. \A f \in NewRows(w) : Live(f) /\ InScope(f, Batch(w))
    <2>1. \A f \in NewRows(w) : Live(f) /\ f.key \in Batch(w).rows
      BY DEF NewRows, Live
    <2> QED
      BY <1>1, <2>1, OwnRowsInScope
  <1>8. facts' = (facts \ deleted[w]) \cup NewRows(w)
    BY DEF Commit
  <1>9. {g \in facts' : Live(g) /\ InScope(g, b)} = {g \in facts : Live(g) /\ InScope(g, b)}
    BY <1>4, <1>5, <1>6, <1>7, <1>8
  <1>10. KeysIn(b)' = {f.key : f \in {g \in facts' : Live(g) /\ InScope(g, b)}}
    BY DEF KeysIn
  <1> QED
    BY <1>9, <1>10 DEF KeysIn

\* The steps of other writers and the deletions of rules leave the writer's scan complete.
LEMMA ScanStaysComplete ==
    ASSUME RowInv, NEW w \in Writers, ScannedAll(w), [Next]_vars, [Undisturbed(w)]_vars
    PROVE  ScannedAll(w)'
  <1>0. TypeOK
    BY DEF RowInv, TypeInv
  <1>1. ASSUME NEW x \in Writers,
               StartRun(x) \/ Stage(x) \/ Lock(x) \/ Insert(x) \/ Abort(x)
        PROVE  ScannedAll(w)'
    <2>1. facts' = facts
      BY <1>1 DEF StartRun, Stage, Lock, Insert, Abort
    <2>2. CASE x # w
      <3>1. /\ pc'[w] = pc[w] /\ plan'[w] = plan[w] /\ step'[w] = step[w]
            /\ seen'[w] = seen[w] /\ deleted'[w] = deleted[w]
        BY <1>0, <1>1, <2>2 DEF StartRun, Stage, Lock, Insert, Abort, EndTransaction,
            EndRun, Goto, TypeOK
      <3> QED
        BY <2>1, <3>1 DEF ScannedAll, Replaced, Batch
    <2>3. CASE x = w /\ Insert(w)
      <3>1. /\ pc[w] = "deleted" /\ plan'[w] = plan[w] /\ step'[w] = step[w]
            /\ deleted'[w] = deleted[w] /\ pc'[w] = "inserted"
        BY <1>0, <2>3 DEF Insert, Goto, TypeOK
      <3> QED
        BY <2>1, <3>1 DEF ScannedAll, Replaced, Batch
    <2>4. CASE x = w /\ (StartRun(w) \/ Stage(w) \/ Lock(w) \/ Abort(w))
      <3>1. pc'[w] \notin {"scanned", "deleted", "inserted"}
        BY <1>0, <2>4 DEF StartRun, Stage, Lock, Abort, EndRun, Goto, TypeOK
      <3> QED
        BY <3>1 DEF ScannedAll
    <2> QED
      BY <1>1, <2>2, <2>3, <2>4
  <1>2. ASSUME NEW x \in Writers, Scan(x)
        PROVE  ScannedAll(w)'
    BY <1>0, <1>2 DEF Scan, Goto, TypeOK, ScannedAll, Replaced, Batch
  <1>3. ASSUME NEW x \in Writers, Delete(x)
        PROVE  ScannedAll(w)'
    BY <1>0, <1>3 DEF Delete, Goto, TypeOK, ScannedAll, Replaced, Batch
  <1>4. CASE Commit(w)
    <2>1. pc'[w] \notin {"scanned", "deleted", "inserted"}
      BY <1>0, <1>4 DEF Commit, EndRun, Goto, TypeOK
    <2> QED
      BY <2>1 DEF ScannedAll
  <1>5. ASSUME NEW x \in Writers \ {w}, Commit(x), pc[w] # "idle"
        PROVE  ScannedAll(w)'
    <2>1. Batch(w).metrics \cap Batch(x).metrics = {}
      <3>1. step[w] \in 1 .. Len(plan[w])
        BY <1>0, <1>5, BatchType
      <3>2. Undisturbed(w) \/ UNCHANGED vars
        OBVIOUS
      <3>3. pc'[x] # pc[x]
        BY <1>0, <1>5 DEF Commit, EndRun, Goto, TypeOK
      <3> QED
        BY <1>5, <3>1, <3>2, <3>3 DEF Undisturbed, Batch, vars
    <2>2. \A f : InScope(f, Batch(w)) => (f \in facts' <=> f \in facts)
      BY <1>5, <2>1, CommitElsewhere
    <2>3. /\ pc'[w] = pc[w] /\ seen'[w] = seen[w] /\ deleted'[w] = deleted[w]
          /\ Batch(w)' = Batch(w)
      BY <1>0, <1>5 DEF Commit, EndTransaction, EndRun, Goto, Batch, TypeOK
    <2>4. Replaced(w)' \subseteq Replaced(w)
      BY <2>2, <2>3 DEF Replaced
    <2> QED
      BY <2>3, <2>4 DEF ScannedAll
  <1>6. ASSUME NEW x \in Writers \ {w}, Commit(x), pc[w] = "idle"
        PROVE  ScannedAll(w)'
    <2>1. pc'[w] = "idle"
      BY <1>0, <1>6 DEF Commit, EndRun, Goto, TypeOK
    <2> QED
      BY <2>1 DEF ScannedAll
  <1>7. ASSUME NEW r \in Rules, DeleteSliceRule(r)
        PROVE  ScannedAll(w)'
    <2>1. \A f : f \in facts' /\ Live(f) => f \in facts
      BY <1>7, LiveAfterRuleDeletion DEF RowInv
    <2>2. UNCHANGED <<pc, plan, step, seen, deleted>>
      BY <1>7 DEF DeleteSliceRule
    <2>3. Replaced(w)' \subseteq Replaced(w)
      BY <2>1, <2>2 DEF Replaced, Batch
    <2> QED
      BY <2>2, <2>3 DEF ScannedAll
  <1>8. CASE UNCHANGED vars
    BY <1>8 DEF vars, ScannedAll, Replaced, Batch
  <1> QED
    BY <1>1, <1>2, <1>3, <1>4, <1>5, <1>6, <1>7, <1>8 DEF Next, Write

\* What is in the scope of a call changes with a commit of the run to that call, and
\* with the deletion of a rule, and not otherwise.
LEMMA ScopesChangeCallByCall ==
    ASSUME CallsApart, NEW w \in Writers, CallInv(w), [Next]_vars, [Undisturbed(w)]_vars
    PROVE  CallByCall(w)
  <1>0. TypeOK
    BY DEF CallInv, RowInv, TypeInv
  <1> SUFFICES ASSUME NEW i \in 1 .. Len(plan[w]), NEW b, b = plan[w][i]
               PROVE  \/ KeysIn(b)' = KeysIn(b)
                      \/ \E r \in Rules : DeleteSliceRule(r)
                      \/ Commit(w) /\ i = step[w] /\ Accomplished(b)'
    BY DEF CallByCall
  <1>1. CASE facts' = facts
    BY <1>1 DEF KeysIn
  <1>2. CASE Commit(w)
    <2>1. CASE i = step[w]
      BY <1>2, <2>1, AccomplishedByCommit DEF CallInv, Batch
    <2>2. CASE i # step[w]
      BY <1>2, <2>2, CommitSparesOtherCalls DEF CallInv
    <2> QED
      BY <2>1, <2>2
  <1>3. ASSUME NEW x \in Writers \ {w}, Commit(x)
        PROVE  KeysIn(b)' = KeysIn(b)
    <2>1. pc'[x] # pc[x]
      BY <1>0, <1>3 DEF Commit, EndRun, Goto, TypeOK
    <2>2. Undisturbed(w)
      BY <2>1 DEF vars
    <2>3. b.metrics \cap Batch(x).metrics = {}
      BY <1>3, <2>2 DEF Undisturbed
    <2>4. \A f : InScope(f, b) => (f \in facts' <=> f \in facts)
      BY <1>3, <2>3, CommitElsewhere DEF CallInv
    <2> QED
      BY <2>4 DEF KeysIn
  <1>4. \/ facts' = facts
        \/ \E x \in Writers : Commit(x)
        \/ \E r \in Rules : DeleteSliceRule(r)
    BY DEF Next, vars, Write, StartRun, Stage, Lock, Scan, Delete, Insert, Abort
  <1> QED
    BY <1>1, <1>2, <1>3, <1>4

\* So the calls made so far stay accomplished.
LEMMA CallsStayAccomplished ==
    ASSUME CallsApart, NEW w \in Writers, CallInv(w), [Next]_vars, [Undisturbed(w)]_vars
    PROVE  CallsSoFar(w)'
  <1>0. TypeOK /\ RowInv /\ CallsSoFar(w) /\ CallByCall(w)
    BY ScopesChangeCallByCall DEF CallInv, RowInv, TypeInv
  <1> SUFFICES ASSUME pc'[w] # "idle", NEW i \in 1 .. step'[w] - 1
               PROVE  Accomplished(plan[w][i])'
    BY DEF CallsSoFar
  <1>1. CASE StartRun(w)
    <2>1. step'[w] = 1
      BY <1>0, <1>1 DEF StartRun, TypeOK
    <2> QED
      BY <2>1
  <1>2. CASE ~StartRun(w)
    <2>1. pc[w] # "idle" /\ plan'[w] = plan[w]
      <3>1. ASSUME NEW x \in Writers \ {w}, StartRun(x) \/ Stage(x) \/ Write(x) \/ Abort(x)
            PROVE  pc'[w] = pc[w] /\ plan'[w] = plan[w]
        BY <1>0, <3>1 DEF StartRun, Stage, Write, Lock, Scan, Delete, Insert, Commit,
            Abort, EndRun, Goto, TypeOK
      <3>2. ASSUME Stage(w) \/ Write(w)
            PROVE  pc[w] # "idle" /\ plan'[w] = plan[w]
        BY <1>0, <3>2 DEF Stage, Write, Lock, Scan, Delete, Insert, Commit, EndRun,
            Goto, TypeOK
      <3>3. ~Abort(w)
        BY <1>0 DEF Abort, EndRun, Goto, TypeOK
      <3>4. ASSUME UNCHANGED vars \/ \E r \in Rules : DeleteSliceRule(r)
            PROVE  pc'[w] = pc[w] /\ plan'[w] = plan[w]
        BY <3>4 DEF vars, DeleteSliceRule
      <3> QED
        BY <1>2, <3>1, <3>2, <3>3, <3>4 DEF Next
    <2>2. /\ step[w] \in 1 .. Len(plan[w]) /\ Len(plan[w]) \in Nat
          /\ step'[w] = step[w] \/ (Commit(w) /\ step'[w] = step[w] + 1)
      <3>1. plan[w] \in Plans /\ step[w] \in 1 .. Len(plan[w])
        BY <1>0, <2>1, BatchType
      <3>2. Len(plan[w]) \in Nat
        BY <3>1, ConstantsAssumption
      <3>3. ASSUME NEW x \in Writers \ {w}, StartRun(x) \/ Stage(x) \/ Write(x) \/ Abort(x)
            PROVE  step'[w] = step[w]
        BY <1>0, <3>3 DEF StartRun, Stage, Write, Lock, Scan, Delete, Insert, Commit,
            Abort, EndRun, TypeOK
      <3>4. ~Abort(w)
        BY <1>0 DEF Abort, EndRun, Goto, TypeOK
      <3>5. ASSUME Commit(w)
            PROVE  step'[w] = step[w] + 1
        BY <1>0, <3>5 DEF Commit, EndRun, Goto, TypeOK
      <3>6. ASSUME Stage(w) \/ Lock(w) \/ Scan(w) \/ Delete(w) \/ Insert(w)
            PROVE  step'[w] = step[w]
        BY <3>6 DEF Stage, Lock, Scan, Delete, Insert
      <3>7. ASSUME UNCHANGED vars \/ \E r \in Rules : DeleteSliceRule(r)
            PROVE  step'[w] = step[w]
        BY <3>7 DEF vars, DeleteSliceRule
      <3> QED
        BY <1>2, <3>1, <3>2, <3>3, <3>4, <3>5, <3>6, <3>7 DEF Next, Write
    <2>3. step[w] \in Nat
      BY <1>0 DEF TypeOK
    <2>4. i \in 1 .. Len(plan[w]) /\ (i < step[w] \/ (Commit(w) /\ i = step[w]))
      BY <2>2, <2>3
    <2>5. PICK c : c = plan[w][i]
      OBVIOUS
    <2>6. plan'[w][i] = c
      BY <2>1, <2>5
    <2>7. CASE Commit(w) /\ i = step[w]
      <3>1. Accomplished(c)'
        BY <2>5, <2>7, AccomplishedByCommit DEF CallInv, Batch
      <3> QED
        BY <2>6, <3>1 DEF Accomplished, KeysIn
    <2>8. CASE i < step[w]
      <3>1. Accomplished(c)
        BY <1>0, <2>1, <2>3, <2>5, <2>8 DEF CallsSoFar
      <3>2. \/ KeysIn(c)' = KeysIn(c)
            \/ \E r \in Rules : DeleteSliceRule(r)
        BY <1>0, <2>3, <2>4, <2>5, <2>8 DEF CallByCall
      <3>3. ASSUME NEW r \in Rules, DeleteSliceRule(r)
            PROVE  Accomplished(c)'
        BY <1>0, <3>1, <3>3, RuleDeletionAccomplishes
      <3>4. ASSUME KeysIn(c)' = KeysIn(c), ~\E r \in Rules : DeleteSliceRule(r)
            PROVE  Accomplished(c)'
        <4>1. rules' = rules
          BY <3>4 DEF Next, vars, Write, StartRun, Stage, Lock, Scan, Delete, Insert,
              Commit, Abort
        <4> QED
          BY <3>1, <3>4, <4>1 DEF Accomplished
      <3>5. Accomplished(c)'
        BY <3>2, <3>3, <3>4
      <3> QED
        BY <2>6, <3>5 DEF Accomplished, KeysIn
    <2> QED
      BY <2>4, <2>7, <2>8
  <1> QED
    BY <1>1, <1>2

\* A run whose calls cover different observations, and which no other writer disturbs,
\* goes call by call: at any time, and so when it fails, what it has written is in the
\* table as it was written (but for the rules deleted since) and what it has not written
\* is as it found it. The lock is not needed for that.
THEOREM RunsGoCallByCall ==
    ASSUME CallsApart, NEW w \in Writers
    PROVE  Spec /\ [][Undisturbed(w)]_vars => []CallsSoFar(w) /\ [][CallByCall(w)]_vars
  <1>1. Init => CallInv(w)
    BY RowInit DEF Init, CallInv, RulesExist, ScannedAll, CallsSoFar
  <1>2. CallInv(w) /\ [Next]_vars /\ [Undisturbed(w)]_vars => CallInv(w)'
    BY RowStep, RulesExistStep, ScanStaysComplete, CallsStayAccomplished DEF CallInv
  <1>3. CallInv(w) /\ [Next]_vars /\ [Undisturbed(w)]_vars => [CallByCall(w)]_vars
    BY ScopesChangeCallByCall
  <1>4. CallInv(w) => CallsSoFar(w)
    BY DEF CallInv
  <1> QED
    BY <1>1, <1>2, <1>3, <1>4, PTL DEF Spec
=============================================================================
