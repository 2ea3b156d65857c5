--------------------------- MODULE MetricAssetsProofs ---------------------------
(****************************************************************************)
(* Which assets meet the hypotheses of the theorems about the metric store, *)
(* whatever they compute and for whatever projects, and so what the store   *)
(* and these assets do together.                                            *)
(*                                                                          *)
(* A plan is a list of lists of calls, taken in an arbitrary order of the   *)
(* projects, rules and values and flattened; what is proved of such lists   *)
(* is that a relation between earlier and later calls that holds within     *)
(* each list, and between calls of different lists, holds in the whole.     *)
(****************************************************************************)
EXTENDS FactStoreProofs, Aggregates, SequenceTheorems, TLAPS

INSTANCE MetricAssets

-----------------------------------------------------------------------------
\* Plans are put together from lists of calls, one for each project, rule or value.

\* Any two calls of the list, in their order, are in the relation R.
Ordered(s, R) == \A i, j \in 1 .. Len(s) : i < j => <<s[i], s[j]>> \in R

\* Every call of the list s comes before those of t.
Precedes(s, t, R) ==
    \A a \in 1 .. Len(s), b \in 1 .. Len(t) : <<s[a], t[b]>> \in R

\* A list of lists of calls, of which each is ordered and the calls of an earlier one come
\* before those of a later one.
Lists(ss, n, S, R) ==
    /\ ss \in [1 .. n -> Seq(S)]
    /\ \A i \in 1 .. n : Ordered(ss[i], R)
    /\ \A i, j \in 1 .. n : i < j =>
          \A a \in 1 .. Len(ss[i]), b \in 1 .. Len(ss[j]) : <<ss[i][a], ss[j][b]>> \in R

\* The list s is ordered, and made of elements of the first m lists.
MadeOf(s, m, ss, S, R) ==
    /\ s \in Seq(S)
    /\ Ordered(s, R)
    /\ \A a \in 1 .. Len(s) : \E i \in 1 .. m : \E c \in 1 .. Len(ss[i]) : s[a] = ss[i][c]

\* The recursion that flattens the first m of the lists.
Flattens(f, m, ss) ==
    f = [i \in 1 .. m |-> IF i = 1 THEN ss[i] ELSE f[i - 1] \o ss[i]]

\* Such a function exists.
LEMMA FlatteningExists ==
    ASSUME NEW ss, NEW n \in Nat
    PROVE  \E f : Flattens(f, n, ss)
  <1> DEFINE Bad == {m \in 0 .. n : ~\E f : Flattens(f, m, ss)}
  <1>1. SUFFICES ASSUME Bad # {}
                 PROVE  FALSE
    OBVIOUS
  <1>2. PICK m \in Bad : \A x \in Bad : m <= x
    <2>1. Bad \in SUBSET Nat
      OBVIOUS
    <2> QED
      BY <1>1, <2>1, LeastNatural
  <1>3. CASE m = 0
    <2> DEFINE f == [i \in 1 .. 0 |-> {}]
    <2>1. Flattens(f, 0, ss)
      BY DEF Flattens
    <2> QED
      BY <1>2, <1>3, <2>1
  <1>4. CASE m # 0
    <2>1. m - 1 \in 0 .. n /\ m \in Nat /\ m >= 1 /\ m - 1 \notin Bad
      BY <1>2, <1>4
    <2>2. PICK g : Flattens(g, m - 1, ss)
      BY <2>1
    <2> DEFINE f == [i \in 1 .. m |-> IF i = 1 THEN ss[i] ELSE g[i - 1] \o ss[i]]
    <2>3. \A i \in 1 .. m - 1 : g[i] = IF i = 1 THEN ss[i] ELSE g[i - 1] \o ss[i]
      BY <2>2 DEF Flattens
    <2>4. \A i \in 1 .. m - 1 : f[i] = g[i]
      BY <2>1, <2>3
    <2>5. \A i \in 1 .. m : i # 1 => i - 1 \in 1 .. m - 1
      BY <2>1
    <2>6. f = [i \in 1 .. m |-> IF i = 1 THEN ss[i] ELSE f[i - 1] \o ss[i]]
      <3> HIDE DEF f
      <3>1. \A i \in 1 .. m : i # 1 => g[i - 1] = f[i - 1]
        BY <2>4, <2>5
      <3>2. f = [i \in 1 .. m |-> IF i = 1 THEN ss[i] ELSE g[i - 1] \o ss[i]]
        BY DEF f
      <3> QED
        BY <3>1, <3>2
    <2>7. Flattens(f, m, ss)
      BY <2>6 DEF Flattens
    <2> QED
      BY <1>2, <2>7
  <1> QED
    BY <1>3, <1>4

\* One more list at the end of an ordered one.
LEMMA AppendedList ==
    ASSUME NEW S, NEW R, NEW n \in Nat, NEW ss, Lists(ss, n, S, R),
           NEW m \in 1 .. n, m > 1, NEW s, MadeOf(s, m - 1, ss, S, R)
    PROVE  MadeOf(s \o ss[m], m, ss, S, R)
  <1> DEFINE t == ss[m]
  <1>1. s \in Seq(S) /\ t \in Seq(S)
    BY DEF MadeOf, Lists
  <1>2. Len(s) \in Nat /\ Len(t) \in Nat
    BY <1>1, LenProperties
  <1> HIDE DEF t
  <1>3. /\ s \o t \in Seq(S)
        /\ Len(s \o t) = Len(s) + Len(t)
        /\ \A i \in 1 .. Len(s) + Len(t) :
              (s \o t)[i] = IF i <= Len(s) THEN s[i] ELSE t[i - Len(s)]
    BY <1>1, ConcatProperties
  <1>4. \A a \in 1 .. Len(s) : \E i \in 1 .. m - 1 : \E c \in 1 .. Len(ss[i]) : s[a] = ss[i][c]
    BY DEF MadeOf
  <1>5. ASSUME NEW a \in 1 .. Len(s \o t)
        PROVE  \E i \in 1 .. m : \E c \in 1 .. Len(ss[i]) : (s \o t)[a] = ss[i][c]
    <2>1. CASE a <= Len(s)
      <3>1. a \in 1 .. Len(s) /\ (s \o t)[a] = s[a]
        BY <1>2, <1>3, <2>1
      <3>2. PICK i \in 1 .. m - 1 : \E c \in 1 .. Len(ss[i]) : s[a] = ss[i][c]
        BY <1>4, <3>1
      <3> QED
        BY <3>1, <3>2
    <2>2. CASE ~(a <= Len(s))
      <3>1. a - Len(s) \in 1 .. Len(t) /\ (s \o t)[a] = t[a - Len(s)]
        BY <1>2, <1>3, <2>2
      <3>2. m \in 1 .. m /\ t = ss[m]
        BY DEF t
      <3> QED
        BY <3>1, <3>2
    <2> QED
      BY <2>1, <2>2
  <1>6. ASSUME NEW a \in 1 .. Len(s \o t), NEW b \in 1 .. Len(s \o t), a < b
        PROVE  <<(s \o t)[a], (s \o t)[b]>> \in R
    <2>1. CASE b <= Len(s)
      <3>1. a \in 1 .. Len(s) /\ b \in 1 .. Len(s) /\ (s \o t)[a] = s[a] /\ (s \o t)[b] = s[b]
        BY <1>2, <1>3, <1>6, <2>1
      <3> QED
        BY <1>6, <3>1 DEF MadeOf, Ordered
    <2>2. CASE ~(a <= Len(s))
      <3>1. /\ a - Len(s) \in 1 .. Len(t) /\ b - Len(s) \in 1 .. Len(t)
            /\ a - Len(s) < b - Len(s)
            /\ (s \o t)[a] = t[a - Len(s)] /\ (s \o t)[b] = t[b - Len(s)]
        BY <1>2, <1>3, <1>6, <2>2
      <3>2. Ordered(t, R)
        BY DEF Lists, t
      <3> QED
        BY <3>1, <3>2 DEF Ordered
    <2>3. CASE a <= Len(s) /\ ~(b <= Len(s))
      <3>1. /\ a \in 1 .. Len(s) /\ b - Len(s) \in 1 .. Len(t)
            /\ (s \o t)[a] = s[a] /\ (s \o t)[b] = t[b - Len(s)]
        BY <1>2, <1>3, <2>3
      <3>2. PICK i \in 1 .. m - 1 : \E c \in 1 .. Len(ss[i]) : s[a] = ss[i][c]
        BY <1>4, <3>1
      <3>3. i \in 1 .. n /\ i < m
        OBVIOUS
      <3> QED
        BY <3>1, <3>2, <3>3 DEF Lists, t
    <2> QED
      BY <2>1, <2>2, <2>3
  <1>7. MadeOf(s \o t, m, ss, S, R)
    BY <1>3, <1>5, <1>6 DEF MadeOf, Ordered
  <1> QED
    BY <1>7 DEF t

\* Flattened, the lists are one ordered list of their elements.
LEMMA FlattenedList ==
    ASSUME NEW S, NEW R, NEW n \in Nat, NEW ss, Lists(ss, n, S, R)
    PROVE  MadeOf(FlattenSeq(ss), n, ss, S, R)
  <1>1. ss \in Seq(Seq(S)) /\ Len(ss) = n
    <2>1. ss \in [1 .. n -> Seq(S)]
      BY DEF Lists
    <2>2. ss \in Seq(Seq(S))
      BY <2>1, SeqDef
    <2>3. DOMAIN ss = 1 .. Len(ss) /\ Len(ss) \in Nat /\ DOMAIN ss = 1 .. n
      BY <2>1, <2>2, LenProperties
    <2>4. \A k \in Nat : k \in 1 .. Len(ss) <=> k \in 1 .. n
      BY <2>3
    <2>5. Len(ss) <= n /\ n <= Len(ss)
      BY <2>3, <2>4
    <2>6. Len(ss) = n
      <3>1. \A k, l \in Nat : k <= l /\ l <= k => k = l
        OBVIOUS
      <3>2. Len(ss) \in Nat /\ n \in Nat
        BY <2>3
      <3> QED
        BY ONLY <2>5, <3>1, <3>2
    <2> QED
      BY <2>2, <2>6
  <1>2. CASE n = 0
    <2>1. FlattenSeq(ss) = ss
      BY <1>1, <1>2 DEF FlattenSeq
    <2>2. ss = <<>>
      BY <1>1, <1>2
    <2> QED
      BY <1>2, <2>1, <2>2 DEF MadeOf, Ordered
  <1>3. CASE n # 0
    <2> DEFINE f == CHOOSE f : Flattens(f, n, ss)
    <2>1. FlattenSeq(ss) = f[n]
      BY <1>1, <1>3 DEF FlattenSeq, Flattens
    <2>2. Flattens(f, n, ss)
      BY FlatteningExists
    <2> HIDE DEF f
    <2>3. \A i \in 1 .. n : f[i] = IF i = 1 THEN ss[i] ELSE f[i - 1] \o ss[i]
      BY <2>2 DEF Flattens
    <2> DEFINE Bad == {m \in 1 .. n : ~MadeOf(f[m], m, ss, S, R)}
    <2>4. Bad = {}
      <3> SUFFICES ASSUME Bad # {}
                   PROVE  FALSE
        OBVIOUS
      <3>1. PICK m \in Bad : \A x \in Bad : m <= x
        <4>1. Bad \in SUBSET Nat
          OBVIOUS
        <4> QED
          BY <4>1, LeastNatural
      <3>2. CASE m = 1
        <4>1. f[1] = ss[1]
          BY <2>3, <3>1, <3>2
        <4>2. MadeOf(ss[1], 1, ss, S, R)
          BY <3>1, <3>2 DEF MadeOf, Lists
        <4> QED
          BY <3>1, <3>2, <4>1, <4>2
      <3>3. CASE m # 1
        <4>1. m - 1 \in 1 .. n /\ m \in 1 .. n /\ m > 1 /\ m - 1 \notin Bad
          BY <3>1, <3>3
        <4>2. MadeOf(f[m - 1], m - 1, ss, S, R)
          BY <4>1
        <4>3. MadeOf(f[m - 1] \o ss[m], m, ss, S, R)
          BY <4>1, <4>2, AppendedList
        <4>4. f[m] = IF m = 1 THEN ss[m] ELSE f[m - 1] \o ss[m]
          BY ONLY <2>3, <4>1
        <4>5. f[m] = f[m - 1] \o ss[m]
          BY ONLY <3>3, <4>4
        <4> QED
          BY <3>1, <4>3, <4>5
      <3> QED
        BY <3>2, <3>3
    <2> QED
      BY <1>3, <2>1, <2>4
  <1> QED
    BY <1>2, <1>3

\* The elements of a finite set in a sequence, each once.
LEMMA ElementsInSequence ==
    ASSUME NEW S, IsFiniteSet(S)
    PROVE  /\ Len(SetToSeq(S)) \in Nat
           /\ SetToSeq(S) \in [1 .. Len(SetToSeq(S)) -> S]
           /\ \A i, j \in 1 .. Len(SetToSeq(S)) : i # j => SetToSeq(S)[i] # SetToSeq(S)[j]
  <1> DEFINE n == Cardinality(S)
             Numbering(f) == f \in [1 .. n -> S] /\ IsInjective(f)
  <1>1. n \in Nat /\ ExistsBijection(1 .. n, S)
    BY FS_CardinalityType
  <1>2. \E f \in [1 .. n -> S] : IsInjective(f)
    BY <1>1 DEF ExistsBijection, Bijection, Injection, IsInjective
  <1>3. SetToSeq(S) \in [1 .. n -> S] /\ IsInjective(SetToSeq(S))
    BY <1>2 DEF SetToSeq
  <1>4. Len(SetToSeq(S)) = n
    BY <1>1, <1>3
  <1> QED
    BY <1>1, <1>3, <1>4 DEF IsInjective

-----------------------------------------------------------------------------

\* The lists of the elements of D, one after the other.
Joined(D, calls) ==
    FlattenSeq([i \in 1 .. Len(SetToSeq(D)) |-> calls[SetToSeq(D)[i]]])

\* The lists are ordered, and the calls of any two elements of D in either order.
Joinable(D, calls, S, R) ==
    /\ IsFiniteSet(D)
    /\ calls \in [D -> Seq(S)]
    /\ \A d \in D : Ordered(calls[d], R)
    /\ \A d, e \in D : d # e =>
          \A a \in 1 .. Len(calls[d]), b \in 1 .. Len(calls[e]) :
              <<calls[d][a], calls[e][b]>> \in R

\* Whatever the order in which the elements of D are taken, it is a list of their calls.
LEMMA JoinedList ==
    ASSUME NEW S, NEW R, NEW D, NEW calls, Joinable(D, calls, S, R)
    PROVE  /\ Joined(D, calls) \in Seq(S)
           /\ Ordered(Joined(D, calls), R)
           /\ \A a \in 1 .. Len(Joined(D, calls)) :
                 \E d \in D : \E c \in 1 .. Len(calls[d]) : Joined(D, calls)[a] = calls[d][c]
  <1> DEFINE s == SetToSeq(D)
             n == Len(s)
             ss == [i \in 1 .. n |-> calls[s[i]]]
  <1>1. /\ n \in Nat
        /\ s \in [1 .. n -> D]
        /\ \A i, j \in 1 .. n : i # j => s[i] # s[j]
    BY ElementsInSequence DEF Joinable
  <1> HIDE DEF s, n
  <1>2. \A i \in 1 .. n : s[i] \in D /\ ss[i] = calls[s[i]]
    BY <1>1
  <1>3. ss \in [1 .. n -> Seq(S)]
    BY <1>2 DEF Joinable
  <1>4. \A i, j \in 1 .. n : i < j =>
            \A a \in 1 .. Len(ss[i]), b \in 1 .. Len(ss[j]) : <<ss[i][a], ss[j][b]>> \in R
    <2> SUFFICES ASSUME NEW i \in 1 .. n, NEW j \in 1 .. n, i < j,
                        NEW a \in 1 .. Len(ss[i]), NEW b \in 1 .. Len(ss[j])
                 PROVE  <<ss[i][a], ss[j][b]>> \in R
      OBVIOUS
    <2>1. i # j
      BY <1>1
    <2>2. s[i] \in D /\ s[j] \in D /\ s[i] # s[j] /\ ss[i] = calls[s[i]] /\ ss[j] = calls[s[j]]
      BY <1>1, <1>2, <2>1
    <2> QED
      BY <2>2 DEF Joinable
  <1>5. Lists(ss, n, S, R)
    <2> HIDE DEF ss
    <2> QED
      BY <1>2, <1>3, <1>4 DEF Joinable, Lists
  <1>6. MadeOf(FlattenSeq(ss), n, ss, S, R)
    <2> HIDE DEF ss
    <2> QED
      BY <1>1, <1>5, FlattenedList
  <1>7. Joined(D, calls) = FlattenSeq(ss)
    BY DEF Joined, s, n
  <1> HIDE DEF ss
  <1>8. ASSUME NEW a \in 1 .. Len(FlattenSeq(ss))
        PROVE  \E d \in D : \E c \in 1 .. Len(calls[d]) : FlattenSeq(ss)[a] = calls[d][c]
    <2>1. PICK i \in 1 .. n : \E c \in 1 .. Len(ss[i]) : FlattenSeq(ss)[a] = ss[i][c]
      BY <1>6 DEF MadeOf
    <2> QED
      BY <1>2, <2>1
  <1> QED
    BY <1>6, <1>7, <1>8 DEF MadeOf

\* One list after another.
LEMMA ListAfterList ==
    ASSUME NEW S, NEW R, NEW s \in Seq(S), NEW t \in Seq(S), Ordered(s, R), Ordered(t, R),
           Precedes(s, t, R)
    PROVE  /\ s \o t \in Seq(S)
           /\ Ordered(s \o t, R)
           /\ \A a \in 1 .. Len(s \o t) : \/ \E c \in 1 .. Len(s) : (s \o t)[a] = s[c]
                                          \/ \E c \in 1 .. Len(t) : (s \o t)[a] = t[c]
  <1> DEFINE ss == [i \in 1 .. 2 |-> IF i = 1 THEN s ELSE t]
  <1>1. ss[1] = s /\ ss[2] = t
    OBVIOUS
  <1>2. \A i \in 1 .. 2 : i = 1 \/ i = 2
    OBVIOUS
  <1>3. ss \in [1 .. 2 -> Seq(S)]
    OBVIOUS
  <1> HIDE DEF ss
  <1>4. \A i, j \in 1 .. 2 : i < j => i = 1 /\ j = 2
    BY <1>2
  <1>5. Lists(ss, 2, S, R)
    BY <1>1, <1>2, <1>3, <1>4 DEF Lists, Precedes
  <1>6. MadeOf(s, 1, ss, S, R)
    <2>1. 1 \in 1 .. 1
      OBVIOUS
    <2> QED
      BY <1>1, <2>1 DEF MadeOf
  <1>7. MadeOf(s \o ss[2], 2, ss, S, R)
    <2>1. 2 \in Nat /\ 2 \in 1 .. 2 /\ 2 > 1 /\ 2 - 1 = 1
      OBVIOUS
    <2> QED
      BY <1>5, <1>6, <2>1, AppendedList
  <1>8. ASSUME NEW a \in 1 .. Len(s \o t)
        PROVE  \/ \E c \in 1 .. Len(s) : (s \o t)[a] = s[c]
               \/ \E c \in 1 .. Len(t) : (s \o t)[a] = t[c]
    <2>1. PICK i \in 1 .. 2 : \E c \in 1 .. Len(ss[i]) : (s \o t)[a] = ss[i][c]
      BY <1>1, <1>7 DEF MadeOf
    <2> QED
      BY <1>1, <1>2, <2>1
  <1> QED
    BY <1>1, <1>7, <1>8 DEF MadeOf

\* What the callers name as the rows and the scope.
LEMMA FieldsOfBatch ==
    \A M, P, rows : /\ BatchOf(M, P, rows).rows = rows
                    /\ BatchOf(M, P, rows).metrics = M
                    /\ BatchOf(M, P, rows).projects = P
  BY DEF BatchOf

\* A list of a call for the rows, if there are any.
AtMostACall(s, M, P, rows, S, R) ==
    /\ s \in Seq(S)
    /\ Ordered(s, R)
    /\ Len(s) <= 1
    /\ \A a \in 1 .. Len(s) : rows # {} /\ s[a] = BatchOf(M, P, rows)

\* A write of some rows (asset.py: `if all_metrics: write_fact_values(...)`) plans one call or none.
LEMMA CallIfRows ==
    ASSUME NEW S, NEW R, NEW M, NEW P, NEW rows, rows # {} => BatchOf(M, P, rows) \in S
    PROVE  AtMostACall(CallIf(M, P, rows), M, P, rows, S, R)
  <1>1. CASE rows = {}
    <2>1. CallIf(M, P, rows) = <<>>
      BY <1>1 DEF CallIf
    <2> QED
      BY <2>1 DEF AtMostACall, Ordered
  <1>2. CASE rows # {}
    <2> DEFINE b == BatchOf(M, P, rows)
    <2>1. b \in S /\ CallIf(M, P, rows) = <<b>>
      BY <1>2 DEF CallIf
    <2> HIDE DEF b
    <2>2. <<b>> \in Seq(S) /\ Len(<<b>>) = 1 /\ <<b>>[1] = b
      BY <2>1
    <2>3. \A a \in 1 .. 1 : a = 1
      OBVIOUS
    <2>4. Ordered(<<b>>, R)
      BY <2>2, <2>3 DEF Ordered
    <2>5. \A a \in 1 .. Len(<<b>>) : <<b>>[a] = b
      BY <2>2, <2>3
    <2> QED
      BY <1>2, <2>1, <2>2, <2>4, <2>5 DEF AtMostACall, b
  <1> QED
    BY <1>1, <1>2

-----------------------------------------------------------------------------
\* Assets that write by value: of each project the base rows, then of each rule and value
\* a list of calls.
Slice(rows, r, v) == {k \in rows : k.rule = r /\ k.value = v}
SliceValues(rows) == ValuesIn(rows \ Base(rows))

SliceCalls(rows, calls) ==
    Joined(RulesIn(rows), [r \in RulesIn(rows) |->
        Joined(SliceValues(rows), [v \in SliceValues(rows) |-> calls[<<r, v>>]])])

PlanByValue(M, ps, res, calls) ==
    Joined(ps, [p \in ps |-> CallIf(M, {p}, Base(OfProject(res, p))) \o
                             SliceCalls(OfProject(res, p), calls[p])])

\* A call for a slice of a project.
IsSliceCall(b, p, rows, r, v) ==
    b.projects = {p} /\ b.rows # {} /\ b.rows \subseteq Slice(rows, r, v)

\* How a call c of such a plan can differ from an earlier call b: it is for another project,
\* or for another rule, or for another value of the rule.
Follows(b, c) ==
    \/ \E p, q : p # q /\ b.projects = {p} /\ c.projects = {q}
    \/ \E q, r : q # r /\ r # NoRule /\ RulesOf(b) = {q} /\ RulesOf(c) = {r}
    \/ \E k \in b.rows, l \in c.rows :
          k.project = l.project /\ k.rule = l.rule /\ k.rule # NoRule /\ k.value # l.value

\* The lists of calls for the slices of a project.
SlicesOrdered(p, rows, calls, S, R) ==
    \A r \in RulesIn(rows), v \in SliceValues(rows) :
        /\ calls[<<r, v>>] \in Seq(S)
        /\ Ordered(calls[<<r, v>>], R)
        /\ \A a \in 1 .. Len(calls[<<r, v>>]) : IsSliceCall(calls[<<r, v>>][a], p, rows, r, v)

\* The parts of a finite set of rows.
LEMMA PartsAreFinite ==
    ASSUME NEW rows, IsFiniteSet(rows)
    PROVE  IsFiniteSet(RulesIn(rows)) /\ IsFiniteSet(SliceValues(rows))
  <1>1. \A T : IsFiniteSet(T) => IsFiniteSet({k.rule : k \in T}) /\ IsFiniteSet({k.value : k \in T})
    <2> SUFFICES ASSUME NEW T, IsFiniteSet(T)
                 PROVE  IsFiniteSet({k.rule : k \in T}) /\ IsFiniteSet({k.value : k \in T})
      OBVIOUS
    <2> DEFINE f == [k \in T |-> k.rule]
               g == [k \in T |-> k.value]
    <2>1. f \in Surjection(T, {k.rule : k \in T}) /\ g \in Surjection(T, {k.value : k \in T})
      BY Fun_IsSurj
    <2> HIDE DEF f, g
    <2> QED
      BY <2>1, FS_Surjection
  <1>2. IsFiniteSet({k.rule : k \in rows})
    BY <1>1
  <1>3. IsFiniteSet(rows \ Base(rows))
    BY FS_Difference
  <1>4. IsFiniteSet(RulesIn(rows))
    BY <1>2, FS_Difference DEF RulesIn
  <1>5. IsFiniteSet(SliceValues(rows))
    BY <1>1, <1>3 DEF SliceValues, ValuesIn
  <1> QED
    BY <1>4, <1>5

\* The calls for the slices of a project are ordered, and each has the rows of one rule.
LEMMA SliceCallsOrdered ==
    ASSUME NEW p, NEW rows, IsFiniteSet(rows), \A k \in rows : k.project = p,
           NEW calls, NEW S, NEW R, SlicesOrdered(p, rows, calls, S, R),
           \A b, c \in S : Follows(b, c) => <<b, c>> \in R
    PROVE  /\ SliceCalls(rows, calls) \in Seq(S)
           /\ Ordered(SliceCalls(rows, calls), R)
           /\ \A a \in 1 .. Len(SliceCalls(rows, calls)) :
                 \E r \in RulesIn(rows), v \in SliceValues(rows) :
                     IsSliceCall(SliceCalls(rows, calls)[a], p, rows, r, v)
  <1> DEFINE ofValue(r) == [v \in SliceValues(rows) |-> calls[<<r, v>>]]
             ofRule == [r \in RulesIn(rows) |-> Joined(SliceValues(rows), ofValue(r))]
  <1>1. IsFiniteSet(RulesIn(rows)) /\ IsFiniteSet(SliceValues(rows))
    BY PartsAreFinite
  <1>2. NoRule \notin RulesIn(rows)
    BY DEF RulesIn
  <1>3. ASSUME NEW r \in RulesIn(rows)
        PROVE  /\ ofRule[r] \in Seq(S)
               /\ Ordered(ofRule[r], R)
               /\ \A a \in 1 .. Len(ofRule[r]) :
                     \E v \in SliceValues(rows) : IsSliceCall(ofRule[r][a], p, rows, r, v)
    <2> DEFINE V == SliceValues(rows)
               f == ofValue(r)
    <2>1. /\ f \in [V -> Seq(S)]
          /\ \A v \in V : Ordered(f[v], R)
          /\ \A v \in V : \A a \in 1 .. Len(f[v]) : IsSliceCall(f[v][a], p, rows, r, v)
      BY DEF SlicesOrdered
    <2>2. ofRule[r] = Joined(V, f)
      OBVIOUS
    <2> HIDE DEF V, f, ofRule
    <2>3. ASSUME NEW v \in V, NEW w \in V, v # w,
                 NEW a \in 1 .. Len(f[v]), NEW b \in 1 .. Len(f[w])
          PROVE  <<f[v][a], f[w][b]>> \in R
      <3>1. IsSliceCall(f[v][a], p, rows, r, v) /\ IsSliceCall(f[w][b], p, rows, r, w)
        BY <2>1
      <3>2. f[v][a] \in S /\ f[w][b] \in S
        BY <2>1, ElementOfSeq
      <3>3. PICK k \in f[v][a].rows, l \in f[w][b].rows : TRUE
        BY <3>1 DEF IsSliceCall
      <3>4. k.project = p /\ l.project = p /\ k.rule = r /\ l.rule = r /\ k.value = v /\ l.value = w
        BY <3>1, <3>3 DEF IsSliceCall, Slice
      <3>5. Follows(f[v][a], f[w][b])
        BY <1>2, <2>3, <3>3, <3>4 DEF Follows
      <3> QED
        BY <3>2, <3>5
    <2>4. /\ Joined(V, f) \in Seq(S)
          /\ Ordered(Joined(V, f), R)
          /\ \A a \in 1 .. Len(Joined(V, f)) :
                \E v \in V : \E c \in 1 .. Len(f[v]) : Joined(V, f)[a] = f[v][c]
      <3>1. IsFiniteSet(V)
        BY <1>1 DEF V
      <3>2. Joinable(V, f, S, R)
        BY <2>1, <2>3, <3>1 DEF Joinable
      <3> QED
        BY <3>2, JoinedList
    <2>5. ASSUME NEW a \in 1 .. Len(Joined(V, f))
          PROVE  \E v \in V : IsSliceCall(Joined(V, f)[a], p, rows, r, v)
      <3>1. PICK v \in V : \E c \in 1 .. Len(f[v]) : Joined(V, f)[a] = f[v][c]
        BY <2>4
      <3> QED
        BY <2>1, <3>1
    <2> QED
      BY <2>2, <2>4, <2>5 DEF V
  <1> DEFINE D == RulesIn(rows)
  <1>4. ofRule \in [D -> Seq(S)]
    BY <1>3
  <1>5. SliceCalls(rows, calls) = Joined(D, ofRule)
    BY DEF SliceCalls
  <1> HIDE DEF ofRule, ofValue, D
  <1>6. ASSUME NEW q \in D, NEW r \in D, q # r,
               NEW a \in 1 .. Len(ofRule[q]), NEW b \in 1 .. Len(ofRule[r])
        PROVE  <<ofRule[q][a], ofRule[r][b]>> \in R
    <2>1. PICK v : IsSliceCall(ofRule[q][a], p, rows, q, v)
      BY <1>3 DEF D
    <2>2. PICK w : IsSliceCall(ofRule[r][b], p, rows, r, w)
      BY <1>3 DEF D
    <2>3. ofRule[q][a] \in S /\ ofRule[r][b] \in S
      BY <1>4, ElementOfSeq
    <2>4. RulesOf(ofRule[q][a]) = {q} /\ RulesOf(ofRule[r][b]) = {r}
      BY <2>1, <2>2 DEF RulesOf, IsSliceCall, Slice
    <2>5. r # NoRule
      BY <1>2 DEF D
    <2>6. Follows(ofRule[q][a], ofRule[r][b])
      BY <1>6, <2>4, <2>5 DEF Follows
    <2> QED
      BY <2>3, <2>6
  <1>7. /\ Joined(D, ofRule) \in Seq(S)
        /\ Ordered(Joined(D, ofRule), R)
        /\ \A a \in 1 .. Len(Joined(D, ofRule)) :
              \E r \in D : \E c \in 1 .. Len(ofRule[r]) : Joined(D, ofRule)[a] = ofRule[r][c]
    <2>1. IsFiniteSet(D) /\ \A r \in D : Ordered(ofRule[r], R)
      BY <1>1, <1>3 DEF D
    <2>2. Joinable(D, ofRule, S, R)
      BY <1>4, <1>6, <2>1 DEF Joinable
    <2> QED
      BY <2>2, JoinedList
  <1>8. ASSUME NEW a \in 1 .. Len(Joined(D, ofRule))
        PROVE  \E r \in RulesIn(rows), v \in SliceValues(rows) :
                   IsSliceCall(Joined(D, ofRule)[a], p, rows, r, v)
    <2>1. PICK r \in D : \E c \in 1 .. Len(ofRule[r]) : Joined(D, ofRule)[a] = ofRule[r][c]
      BY <1>7
    <2> QED
      BY <1>3, <2>1 DEF D
  <1> QED
    BY <1>5, <1>7, <1>8

\* So are the calls of a whole plan, the base rows of a project before its slices.
LEMMA PlanByValueOrdered ==
    ASSUME NEW M, NEW ps, IsFiniteSet(ps), NEW res, IsFiniteSet(res),
           NEW calls, NEW S, NEW R,
           \A p \in ps : Base(OfProject(res, p)) # {} =>
                             BatchOf(M, {p}, Base(OfProject(res, p))) \in S,
           \A p \in ps : SlicesOrdered(p, OfProject(res, p), calls[p], S, R),
           \A b, c \in S : Follows(b, c) => <<b, c>> \in R
    PROVE  /\ PlanByValue(M, ps, res, calls) \in Seq(S)
           /\ Ordered(PlanByValue(M, ps, res, calls), R)
  <1> DEFINE base(p) == CallIf(M, {p}, Base(OfProject(res, p)))
             slices(p) == SliceCalls(OfProject(res, p), calls[p])
             of == [p \in ps |-> base(p) \o slices(p)]
  <1>1. ASSUME NEW p \in ps
        PROVE  /\ of[p] \in Seq(S)
               /\ Ordered(of[p], R)
               /\ \A a \in 1 .. Len(of[p]) : of[p][a].projects = {p}
    <2> DEFINE rows == OfProject(res, p)
               s == base(p)
               t == slices(p)
    <2>1. /\ s \in Seq(S)
          /\ Ordered(s, R)
          /\ \A a \in 1 .. Len(s) : Base(rows) # {} /\ s[a] = BatchOf(M, {p}, Base(rows))
      <3> DEFINE B == Base(rows)
      <3>1. B # {} => BatchOf(M, {p}, B) \in S
        OBVIOUS
      <3> HIDE DEF B
      <3>2. AtMostACall(CallIf(M, {p}, B), M, {p}, B, S, R)
        BY ONLY <3>1, CallIfRows
      <3> QED
        BY <3>2 DEF AtMostACall, B
    <2>2. IsFiniteSet(rows) /\ \A k \in rows : k.project = p
      <3>1. rows \subseteq res
        BY DEF OfProject
      <3> QED
        BY <3>1, FS_Subset DEF OfProject
    <2>3. /\ t \in Seq(S)
          /\ Ordered(t, R)
          /\ \A a \in 1 .. Len(t) :
                \E r \in RulesIn(rows), v \in SliceValues(rows) : IsSliceCall(t[a], p, rows, r, v)
      <3>1. SlicesOrdered(p, rows, calls[p], S, R)
        OBVIOUS
      <3> HIDE DEF rows
      <3> QED
        BY <2>2, <3>1, SliceCallsOrdered DEF rows
    <2> HIDE DEF rows, s, t
    <2>4. ASSUME NEW a \in 1 .. Len(s), NEW b \in 1 .. Len(t)
          PROVE  <<s[a], t[b]>> \in R
      <3>1. s[a] \in S /\ t[b] \in S
        BY <2>1, <2>3, ElementOfSeq
      <3>2. RulesOf(s[a]) = {NoRule}
        <4>1. s[a].rows = Base(rows) /\ Base(rows) # {}
          BY <2>1, FieldsOfBatch
        <4> QED
          BY <4>1 DEF RulesOf, Base
      <3>3. PICK r \in RulesIn(rows), v \in SliceValues(rows) : IsSliceCall(t[b], p, rows, r, v)
        BY <2>3
      <3>4. r # NoRule /\ RulesOf(t[b]) = {r}
        BY <3>3 DEF RulesIn, RulesOf, IsSliceCall, Slice
      <3>5. Follows(s[a], t[b])
        BY <3>2, <3>4 DEF Follows
      <3> QED
        BY <3>1, <3>5
    <2>5. /\ s \o t \in Seq(S)
          /\ Ordered(s \o t, R)
          /\ \A a \in 1 .. Len(s \o t) : \/ \E c \in 1 .. Len(s) : (s \o t)[a] = s[c]
                                         \/ \E c \in 1 .. Len(t) : (s \o t)[a] = t[c]
      <3>1. Precedes(s, t, R)
        BY <2>4 DEF Precedes
      <3> QED
        BY <2>1, <2>3, <3>1, ListAfterList
    <2>6. \A c \in 1 .. Len(s) : s[c].projects = {p}
      BY <2>1, FieldsOfBatch
    <2>7. \A c \in 1 .. Len(t) : t[c].projects = {p}
      BY <2>3 DEF IsSliceCall
    <2>8. \A a \in 1 .. Len(s \o t) : (s \o t)[a].projects = {p}
      BY <2>5, <2>6, <2>7
    <2>9. of[p] = s \o t
      BY DEF s, t
    <2> QED
      BY <2>5, <2>8, <2>9
  <1>2. of \in [ps -> Seq(S)]
    BY <1>1
  <1>3. PlanByValue(M, ps, res, calls) = Joined(ps, of)
    BY DEF PlanByValue
  <1> HIDE DEF of
  <1>4. ASSUME NEW p \in ps, NEW q \in ps, p # q,
               NEW a \in 1 .. Len(of[p]), NEW b \in 1 .. Len(of[q])
        PROVE  <<of[p][a], of[q][b]>> \in R
    <2>1. of[p][a].projects = {p} /\ of[q][b].projects = {q}
      BY <1>1
    <2>2. of[p][a] \in S /\ of[q][b] \in S
      BY <1>2, ElementOfSeq
    <2>3. Follows(of[p][a], of[q][b])
      BY <1>4, <2>1 DEF Follows
    <2> QED
      BY <2>2, <2>3
  <1>5. Joinable(ps, of, S, R)
    BY <1>1, <1>2, <1>4 DEF Joinable
  <1> QED
    BY <1>3, <1>5, JoinedList

\* The calls for a slice: one, or (extended aging) one for each of the metrics.
CallsOfSlice(byMetric, M, p, rows, r, v) ==
    IF byMetric
    THEN FlattenSeq([i \in 1 .. Len(AgingExtendedOrder) |->
             CallIf(M, {p}, {k \in Slice(rows, r, v) : k.metric = AgingExtendedOrder[i]})])
    ELSE CallIf(M, {p}, Slice(rows, r, v))

AllCallsOfSlices(byMetric, M, ps, res) ==
    [p \in ps |-> [t \in RulesIn(OfProject(res, p)) \X SliceValues(OfProject(res, p)) |->
        CallsOfSlice(byMetric, M, p, OfProject(res, p), t[1], t[2])]]

\* The projects of which an asset has base rows.
WithBase(ps, res) == {p \in ps : Base(OfProject(res, p)) # {}}

\* A list of lists in the order of the elements of D is the lists of D joined.
LEMMA JoinedInOrder ==
    ASSUME NEW D, IsFiniteSet(D), NEW calls, NEW ss,
           ss = [i \in 1 .. Len(SetToSeq(D)) |-> ss[i]],
           \A i \in 1 .. Len(SetToSeq(D)) : SetToSeq(D)[i] \in D => ss[i] = calls[SetToSeq(D)[i]]
    PROVE  FlattenSeq(ss) = Joined(D, calls)
  <1> DEFINE s == SetToSeq(D)
             n == Len(s)
             tt == [i \in 1 .. n |-> calls[s[i]]]
  <1>1. \A i \in 1 .. n : s[i] \in D
    BY ElementsInSequence
  <1>2. ss = tt
    <2> HIDE DEF s
    <2> QED
      BY <1>1 DEF s
  <1>3. Joined(D, calls) = FlattenSeq(tt)
    BY DEF Joined
  <1> QED
    BY ONLY <1>2, <1>3

\* The plans by value as the code lists them: the k-th slice value of the j-th rule of the
\* i-th project.
ValueAt(rows, k) == SetToSeq(SliceValues(rows))[k]
RuleAt(rows, j) == SetToSeq(RulesIn(rows))[j]

CallsOfRule(byMetric, M, p, rows, r) ==
    [k \in 1 .. Len(SetToSeq(SliceValues(rows))) |-> CallsOfSlice(byMetric, M, p, rows, r, ValueAt(rows, k))]

CallsOfProject(byMetric, M, p, rows) ==
    [j \in 1 .. Len(SetToSeq(RulesIn(rows))) |->
        FlattenSeq(CallsOfRule(byMetric, M, p, rows, RuleAt(rows, j)))]

\* The list of the calls of a sliced asset, project by project, is the plan by value.
LEMMA PlansAsListed ==
    ASSUME NEW byMetric, NEW M, NEW ps, IsFiniteSet(ps), NEW res, IsFiniteSet(res)
    PROVE  FlattenSeq([i \in 1 .. Len(SetToSeq(ps)) |->
               CallIf(M, {SetToSeq(ps)[i]}, Base(OfProject(res, SetToSeq(ps)[i]))) \o
               FlattenSeq(CallsOfProject(byMetric, M, SetToSeq(ps)[i], OfProject(res, SetToSeq(ps)[i])))])
           = PlanByValue(M, ps, res, AllCallsOfSlices(byMetric, M, ps, res))
  <1> DEFINE calls == AllCallsOfSlices(byMetric, M, ps, res)
             base(p) == CallIf(M, {p}, Base(OfProject(res, p)))
             list(p) == FlattenSeq(CallsOfProject(byMetric, M, p, OfProject(res, p)))
             ss == [i \in 1 .. Len(SetToSeq(ps)) |->
                       base(SetToSeq(ps)[i]) \o list(SetToSeq(ps)[i])]
  <1>1. ASSUME NEW p \in ps
        PROVE  list(p) = SliceCalls(OfProject(res, p), calls[p])
    <2> DEFINE rows == OfProject(res, p)
               V == SliceValues(rows)
               D == RulesIn(rows)
               lists == [r \in D |-> Joined(V, [v \in V |-> calls[p][<<r, v>>]])]
    <2>1. IsFiniteSet(D) /\ IsFiniteSet(V)
      <3>1. IsFiniteSet(rows)
        BY FS_Subset DEF OfProject
      <3> HIDE DEF rows
      <3> QED
        BY <3>1, PartsAreFinite
    <2>2. \A r \in D, v \in V : calls[p][<<r, v>>] = CallsOfSlice(byMetric, M, p, rows, r, v)
      BY DEF AllCallsOfSlices
    <2> HIDE DEF calls, rows
    <2>3. ASSUME NEW r \in D
          PROVE  FlattenSeq(CallsOfRule(byMetric, M, p, rows, r)) = lists[r]
      <3> DEFINE f == [v \in V |-> calls[p][<<r, v>>]]
                 tt == CallsOfRule(byMetric, M, p, rows, r)
      <3>1. \A v \in V : f[v] = CallsOfSlice(byMetric, M, p, rows, r, v)
        BY <2>2
      <3>2. /\ tt = [i \in 1 .. Len(SetToSeq(V)) |-> tt[i]]
            /\ \A i \in 1 .. Len(SetToSeq(V)) : SetToSeq(V)[i] \in V => tt[i] = f[SetToSeq(V)[i]]
        <4> HIDE DEF f
        <4> QED
          BY <3>1 DEF CallsOfRule, ValueAt
      <3>3. lists[r] = Joined(V, f)
        OBVIOUS
      <3> HIDE DEF f, tt, V, lists
      <3>4. FlattenSeq(tt) = Joined(V, f)
        BY <2>1, <3>2, JoinedInOrder
      <3> QED
        BY <3>3, <3>4 DEF tt
    <2> DEFINE tt == CallsOfProject(byMetric, M, p, rows)
    <2>4. /\ tt = [j \in 1 .. Len(SetToSeq(D)) |-> tt[j]]
          /\ \A j \in 1 .. Len(SetToSeq(D)) : SetToSeq(D)[j] \in D => tt[j] = lists[SetToSeq(D)[j]]
      <3> HIDE DEF lists
      <3> QED
        BY <2>3 DEF CallsOfProject, RuleAt
    <2>5. SliceCalls(rows, calls[p]) = Joined(D, lists)
      BY DEF SliceCalls
    <2> HIDE DEF tt, D, lists
    <2>6. FlattenSeq(tt) = Joined(D, lists)
      BY <2>1, <2>4, JoinedInOrder
    <2> QED
      BY <2>5, <2>6 DEF tt, rows
  <1> DEFINE plan_ == [p \in ps |-> base(p) \o SliceCalls(OfProject(res, p), calls[p])]
  <1>2. /\ ss = [i \in 1 .. Len(SetToSeq(ps)) |-> ss[i]]
        /\ \A i \in 1 .. Len(SetToSeq(ps)) : SetToSeq(ps)[i] \in ps => ss[i] = plan_[SetToSeq(ps)[i]]
    <2> HIDE DEF base, list, calls
    <2> QED
      BY <1>1
  <1>3. PlanByValue(M, ps, res, calls) = Joined(ps, plan_)
    BY DEF PlanByValue
  <1>4. FlattenSeq(ss) = Joined(ps, plan_)
    <2> HIDE DEF ss, plan_
    <2> QED
      BY <1>2, JoinedInOrder
  <1> QED
    BY <1>3, <1>4

\* The three assets that write by value.
LEMMA PlansByValue ==
    ASSUME NEW ps, IsFiniteSet(ps), NEW res, IsFiniteSet(res)
    PROVE  /\ calculate_cumulative_flow_diagram(ps, res) =
                  PlanByValue({"cfd_count"}, WithBase(ps, res), res,
                      AllCallsOfSlices(FALSE, {"cfd_count"}, WithBase(ps, res), res))
           /\ \A found : calculate_backlog_growth(ps, res, found) =
                  PlanByValue(BacklogRequired \cup found, WithBase(ps, res), res,
                      AllCallsOfSlices(FALSE, BacklogRequired \cup found, WithBase(ps, res), res))
           /\ calculate_aging_extended(ps, res) =
                  PlanByValue(AgingExtendedMetrics, ps, res,
                      AllCallsOfSlices(TRUE, AgingExtendedMetrics, ps, res))
  <1> DEFINE ds == WithBase(ps, res)
             listed(byMetric, M, D) ==
                 FlattenSeq([i \in 1 .. Len(SetToSeq(D)) |->
                     CallIf(M, {SetToSeq(D)[i]}, Base(OfProject(res, SetToSeq(D)[i]))) \o
                     FlattenSeq(CallsOfProject(byMetric, M, SetToSeq(D)[i],
                                               OfProject(res, SetToSeq(D)[i])))])
  <1>1. IsFiniteSet(ds)
    BY FS_Subset DEF WithBase
  <1>2. ASSUME NEW byMetric, NEW M, NEW D, IsFiniteSet(D)
        PROVE  listed(byMetric, M, D) =
                   PlanByValue(M, D, res, AllCallsOfSlices(byMetric, M, D, res))
    BY <1>2, PlansAsListed
  <1>3. calculate_cumulative_flow_diagram(ps, res) = listed(FALSE, {"cfd_count"}, ds)
    BY DEF calculate_cumulative_flow_diagram, WithBase, ByValue, ForEach, SliceValues, Slice,
        CallsOfProject, CallsOfRule, CallsOfSlice, RuleAt, ValueAt
  <1>4. \A found : calculate_backlog_growth(ps, res, found) =
                       listed(FALSE, BacklogRequired \cup found, ds)
    BY DEF calculate_backlog_growth, WithBase, ByValue, ForEach, SliceValues, Slice,
        CallsOfProject, CallsOfRule, CallsOfSlice, RuleAt, ValueAt
  <1>5. calculate_aging_extended(ps, res) = listed(TRUE, AgingExtendedMetrics, ps)
    BY DEF calculate_aging_extended, ByValue, ForEach, SliceValues, Slice,
        CallsOfProject, CallsOfRule, CallsOfSlice, RuleAt, ValueAt
  <1> HIDE DEF ds, listed
  <1> QED
    BY <1>1, <1>2, <1>3, <1>4, <1>5 DEF ds

\* The calls with metrics M for one of the projects and some of the rows.
CallsWith(M, ps, res) == UNION {{BatchOf(M, {p}, rows) : rows \in SUBSET res} : p \in ps}

\* What a call with metrics M names and carries.
LEMMA CallsWithFields ==
    ASSUME NEW M, NEW ps, NEW res, NEW b \in CallsWith(M, ps, res)
    PROVE  b.metrics = M /\ b.rows \subseteq res
  <1>1. PICK p \in ps, rows \in SUBSET res : b = BatchOf(M, {p}, rows)
    BY DEF CallsWith
  <1> QED
    BY <1>1, FieldsOfBatch

\* In a relation that holds of calls of different slices, the plans by value of the assets
\* with one call for a slice are ordered; all of them consist of calls with the asset's
\* metrics.
LEMMA PlansByValueOrdered ==
    ASSUME NEW M, NEW ps, IsFiniteSet(ps), NEW res, IsFiniteSet(res),
           NEW byMetric \in BOOLEAN, NEW R,
           \A b, c \in CallsWith(M, ps, res) :
               Follows(b, c) \/ byMetric => <<b, c>> \in R
    PROVE  LET plan_ == PlanByValue(M, ps, res, AllCallsOfSlices(byMetric, M, ps, res))
           IN  plan_ \in Seq(CallsWith(M, ps, res)) /\ Ordered(plan_, R)
  <1> DEFINE S == CallsWith(M, ps, res)
             calls == AllCallsOfSlices(byMetric, M, ps, res)
  <1>1. ASSUME NEW p \in ps, NEW rows \in SUBSET res
        PROVE  BatchOf(M, {p}, rows) \in S
    <2> DEFINE ofProject(q) == {BatchOf(M, {q}, x) : x \in SUBSET res}
    <2>1. BatchOf(M, {p}, rows) \in ofProject(p)
      OBVIOUS
    <2>2. S = UNION {ofProject(q) : q \in ps}
      BY DEF CallsWith
    <2> HIDE DEF ofProject, S
    <2> QED
      BY <2>1, <2>2
  <1>2. ASSUME NEW p \in ps
        PROVE  SlicesOrdered(p, OfProject(res, p), calls[p], S, R)
    <2> DEFINE rows == OfProject(res, p)
    <2>1. rows \subseteq res
      BY DEF OfProject
    <2>2. \A r \in RulesIn(rows), v \in SliceValues(rows) :
              calls[p][<<r, v>>] = CallsOfSlice(byMetric, M, p, rows, r, v)
      BY DEF AllCallsOfSlices
    <2> HIDE DEF rows, calls, S
    <2>3. ASSUME NEW r, NEW v, NEW T, T \subseteq Slice(rows, r, v)
          PROVE  /\ AtMostACall(CallIf(M, {p}, T), M, {p}, T, S, R)
                 /\ \A a \in 1 .. Len(CallIf(M, {p}, T)) :
                       IsSliceCall(CallIf(M, {p}, T)[a], p, rows, r, v)
      <3>1. T \in SUBSET res
        BY <2>1, <2>3 DEF Slice
      <3>2. AtMostACall(CallIf(M, {p}, T), M, {p}, T, S, R)
        BY <1>1, <3>1, CallIfRows
      <3>3. \A a \in 1 .. Len(CallIf(M, {p}, T)) :
                T # {} /\ CallIf(M, {p}, T)[a].rows = T /\ CallIf(M, {p}, T)[a].projects = {p}
        <4> SUFFICES ASSUME NEW a \in 1 .. Len(CallIf(M, {p}, T))
                     PROVE  /\ T # {}
                            /\ CallIf(M, {p}, T)[a].rows = T
                            /\ CallIf(M, {p}, T)[a].projects = {p}
          OBVIOUS
        <4>1. T # {} /\ CallIf(M, {p}, T)[a] = BatchOf(M, {p}, T)
          BY <3>2 DEF AtMostACall
        <4>2. BatchOf(M, {p}, T).rows = T /\ BatchOf(M, {p}, T).projects = {p}
          BY FieldsOfBatch
        <4> QED
          BY ONLY <4>1, <4>2
      <3> QED
        BY <2>3, <3>2, <3>3 DEF IsSliceCall
    <2>4. ASSUME NEW r \in RulesIn(rows), NEW v \in SliceValues(rows)
          PROVE  LET s == CallsOfSlice(byMetric, M, p, rows, r, v)
                 IN  /\ s \in Seq(S)
                     /\ Ordered(s, R)
                     /\ \A a \in 1 .. Len(s) : IsSliceCall(s[a], p, rows, r, v)
      <3>1. CASE ~byMetric
        <4>1. CallsOfSlice(byMetric, M, p, rows, r, v) = CallIf(M, {p}, Slice(rows, r, v))
          BY <3>1 DEF CallsOfSlice
        <4> DEFINE T == Slice(rows, r, v)
        <4>2. T \subseteq Slice(rows, r, v)
          OBVIOUS
        <4> HIDE DEF T
        <4>3. /\ AtMostACall(CallIf(M, {p}, T), M, {p}, T, S, R)
              /\ \A a \in 1 .. Len(CallIf(M, {p}, T)) :
                    IsSliceCall(CallIf(M, {p}, T)[a], p, rows, r, v)
          BY <2>3, <4>2
        <4> QED
          BY <4>1, <4>3 DEF AtMostACall, T
      <3>2. CASE byMetric
        <4> DEFINE n == Len(AgingExtendedOrder)
                   part(i) == {k \in Slice(rows, r, v) : k.metric = AgingExtendedOrder[i]}
                   ss == [i \in 1 .. n |-> CallIf(M, {p}, part(i))]
        <4>1. CallsOfSlice(byMetric, M, p, rows, r, v) = FlattenSeq(ss)
          BY <3>2 DEF CallsOfSlice
        <4>2. n \in Nat
          BY DEF AgingExtendedOrder
        <4>3. \A i \in 1 .. n : part(i) \subseteq Slice(rows, r, v)
          OBVIOUS
        <4> HIDE DEF n, part
        <4>4. ASSUME NEW i \in 1 .. n
              PROVE  /\ ss[i] \in Seq(S)
                     /\ Ordered(ss[i], R)
                     /\ \A a \in 1 .. Len(ss[i]) : IsSliceCall(ss[i][a], p, rows, r, v)
          <5>1. ss[i] = CallIf(M, {p}, part(i))
            OBVIOUS
          <5> QED
            BY <2>3, <4>3, <5>1 DEF AtMostACall
        <4>5. ss \in [1 .. n -> Seq(S)]
          BY <4>4
        <4> HIDE DEF ss
        <4>6. ASSUME NEW i \in 1 .. n, NEW j \in 1 .. n,
                     NEW a \in 1 .. Len(ss[i]), NEW b \in 1 .. Len(ss[j])
              PROVE  <<ss[i][a], ss[j][b]>> \in R
          <5>1. ss[i][a] \in S /\ ss[j][b] \in S
            BY <4>4, ElementOfSeq
          <5> QED
            BY <3>2, <5>1 DEF S
        <4>7. Lists(ss, n, S, R)
          BY <4>4, <4>5, <4>6 DEF Lists
        <4>8. MadeOf(FlattenSeq(ss), n, ss, S, R)
          BY <4>2, <4>7, FlattenedList
        <4>9. ASSUME NEW a \in 1 .. Len(FlattenSeq(ss))
              PROVE  IsSliceCall(FlattenSeq(ss)[a], p, rows, r, v)
          <5>1. PICK i \in 1 .. n : \E c \in 1 .. Len(ss[i]) : FlattenSeq(ss)[a] = ss[i][c]
            BY <4>8 DEF MadeOf
          <5> QED
            BY <4>4, <5>1
        <4> QED
          BY <4>1, <4>8, <4>9 DEF MadeOf
      <3> QED
        BY <3>1, <3>2
    <2>5. SlicesOrdered(p, rows, calls[p], S, R)
      BY <2>2, <2>4 DEF SlicesOrdered
    <2> QED
      BY <2>5 DEF rows
  <1>3. \A p \in ps : Base(OfProject(res, p)) # {} => BatchOf(M, {p}, Base(OfProject(res, p))) \in S
    <2>1. \A p : Base(OfProject(res, p)) \in SUBSET res
      BY DEF Base, OfProject
    <2> QED
      BY <1>1, <2>1
  <1>4. \A b, c \in S : Follows(b, c) => <<b, c>> \in R
    OBVIOUS
  <1> HIDE DEF S, calls
  <1>5. /\ PlanByValue(M, ps, res, calls) \in Seq(S)
        /\ Ordered(PlanByValue(M, ps, res, calls), R)
    BY <1>2, <1>3, <1>4, PlanByValueOrdered
  <1> QED
    BY <1>5 DEF S, calls

-----------------------------------------------------------------------------
\* The plans of the fixed-scope assets for the projects ps, the results res and,
\* for the estimation snapshot, today.
PlansOf(ps, res, today) ==
    {calculate_lead_time(ps, res), calculate_throughput(ps, res),
     calculate_aging(ps, res), calculate_time_to_market(ps, res),
     calculate_flow_efficiency(ps, res), calculate_velocity(ps, res),
     calculate_estimation_metrics(ps, res, today)}

\* The assets of one metric that take the scope from their rows.
OnlyMetric(res, m) == \A k \in res : k.metric = m

IsSingleMetricPlan(p) ==
    \/ \E res : OnlyMetric(res, "input_flow_weekly") /\ p = calculate_input_flow(res)
    \/ \E res : OnlyMetric(res, "cancellation_rate_weekly") /\ p = calculate_waste_metrics(res)

\* Two of the assets that write by value.
IsFixedByValue(p) ==
    \E ps, res : /\ IsFiniteSet(ps) /\ IsFiniteSet(res)
                 /\ p \in {calculate_cumulative_flow_diagram(ps, res),
                           calculate_aging_extended(ps, res)}

IsCoveredPlan(p) ==
    \/ \E ps, res, today : p \in PlansOf(ps, res, today)
    \/ IsSingleMetricPlan(p)
    \/ IsFixedByValue(p)

MetricSets == {LeadTimeMetrics, ThroughputMetrics, AgingMetrics, TimeToMarketMetrics,
               EstimationMetrics, FlowEfficiencyMetrics, VelocityMetrics,
               {"input_flow_weekly"}, {"cancellation_rate_weekly"},
               {"cfd_count"}, {"blocked_time_total", "stale_days"}}

\* The metric sets of these assets do not overlap.
LEMMA MetricSetsApart ==
    ASSUME NEW M \in MetricSets, NEW N \in MetricSets, M \cap N # {}
    PROVE  M = N
  BY DEF MetricSets, LeadTimeMetrics, ThroughputMetrics, AgingMetrics,
         TimeToMarketMetrics, EstimationMetrics, FlowEfficiencyMetrics, VelocityMetrics

\* A plan of a fixed-scope asset names no metric set but the asset's own.
LEMMA FixedScopeMetrics ==
    ASSUME NEW M, NEW ps, NEW res,
           NEW i \in 1 .. Len(FixedScope(M, ps, res))
    PROVE  FixedScope(M, ps, res)[i].metrics = M
  <1>1. CASE Base(res) = {}
    BY <1>1 DEF FixedScope
  <1>2. CASE Base(res) # {}
    <2>1. FixedScope(M, ps, res) = <<BatchOf(M, ps, res)>>
      BY <1>2 DEF FixedScope
    <2>2. Len(<<BatchOf(M, ps, res)>>) = 1
      OBVIOUS
    <2>3. i = 1
      BY <2>1, <2>2
    <2> QED
      BY <2>1, <2>3 DEF BatchOf
  <1> QED
    BY <1>1, <1>2

\* Nor does a plan whose rows are all of one metric.
LEMMA SingleMetricScope ==
    ASSUME NEW res, NEW m, OnlyMetric(res, m), NEW i \in 1 .. Len(ScopeOfData(res))
    PROVE  ScopeOfData(res)[i].metrics = {m}
  <1>1. CASE res = {}
    BY <1>1 DEF ScopeOfData, CallIf
  <1>2. CASE res # {}
    <2> DEFINE b == BatchOf(Metrics_(res), Projects_(res), res)
    <2>1. ScopeOfData(res) = <<b>>
      BY <1>2 DEF ScopeOfData, CallIf
    <2>2. Len(<<b>>) = 1
      OBVIOUS
    <2>3. ScopeOfData(res)[i] = b
      BY <2>1, <2>2
    <2>4. b.metrics = Metrics_(res)
      BY DEF BatchOf
    <2>5. Metrics_(res) = {m}
      BY <1>2 DEF Metrics_, OnlyMetric
    <2> QED
      BY <2>3, <2>4, <2>5
  <1> QED
    BY <1>1, <1>2

\* The calls of cumulative flow and of extended aging name the metrics of the asset.
LEMMA ByValueMetrics ==
    ASSUME NEW p, IsFixedByValue(p), NEW i \in 1 .. Len(p)
    PROVE  p[i].metrics \in MetricSets
  <1>1. PICK ps, res : /\ IsFiniteSet(ps) /\ IsFiniteSet(res)
                       /\ p \in {calculate_cumulative_flow_diagram(ps, res),
                                 calculate_aging_extended(ps, res)}
    BY DEF IsFixedByValue
  <1>2. ASSUME NEW M, NEW ds, IsFiniteSet(ds), NEW byMetric \in BOOLEAN,
               p = PlanByValue(M, ds, res, AllCallsOfSlices(byMetric, M, ds, res))
        PROVE  p[i].metrics = M
    <2> DEFINE S == CallsWith(M, ds, res)
               R == S \X S
    <2>1. \A b, c \in S : <<b, c>> \in R
      OBVIOUS
    <2> HIDE DEF R
    <2>2. p \in Seq(S)
      BY <1>1, <1>2, <2>1, PlansByValueOrdered
    <2> QED
      BY <2>2, ElementOfSeq, CallsWithFields
  <1>3. CASE p = calculate_cumulative_flow_diagram(ps, res)
    <2>1. IsFiniteSet(WithBase(ps, res))
      BY <1>1, FS_Subset DEF WithBase
    <2>2. p[i].metrics = {"cfd_count"}
      BY <1>1, <1>2, <1>3, <2>1, PlansByValue
    <2> QED
      BY <2>2 DEF MetricSets
  <1>4. CASE p = calculate_aging_extended(ps, res)
    <2> DEFINE M == AgingExtendedMetrics
    <2>0. p = PlanByValue(M, ps, res, AllCallsOfSlices(TRUE, M, ps, res))
      BY <1>1, <1>4, PlansByValue
    <2> HIDE DEF M
    <2>1. p[i].metrics = M
      BY <1>1, <1>2, <2>0
    <2>2. AgingExtendedMetrics = {"blocked_time_total", "stale_days"}
      <3>1. DOMAIN AgingExtendedOrder = {1, 2}
        BY DEF AgingExtendedOrder
      <3>2. AgingExtendedOrder[1] = "blocked_time_total" /\ AgingExtendedOrder[2] = "stale_days"
        BY DEF AgingExtendedOrder
      <3> QED
        BY <3>1, <3>2 DEF AgingExtendedMetrics, Range
    <2> QED
      BY <2>1, <2>2 DEF M, MetricSets
  <1> QED
    BY <1>1, <1>3, <1>4

\* Runs of eleven assets (lead time, throughput, aging, time to market, flow
\* efficiency, velocity, estimation, input flow, waste, cumulative flow, extended aging)
\* take the same advisory lock wherever their metrics meet: the hypothesis LockCovers of
\* module FactStoreProofs.
THEOREM SameLockWhereMetricsMeet ==
    ASSUME NEW p, IsCoveredPlan(p), NEW i \in 1 .. Len(p),
           NEW q, IsCoveredPlan(q), NEW j \in 1 .. Len(q),
           p[i].metrics \cap q[j].metrics # {}
    PROVE  p[i].metrics = q[j].metrics
  <1>1. ASSUME NEW x, \E ps, res, today : x \in PlansOf(ps, res, today),
               NEW n \in 1 .. Len(x)
        PROVE  x[n].metrics \in MetricSets
    <2>1. PICK ps, res, today : x \in PlansOf(ps, res, today)
      BY <1>1
    <2>2. CASE x = calculate_estimation_metrics(ps, res, today)
      <3> DEFINE b == [rows |-> res, metrics |-> EstimationMetrics, projects |-> ps,
                       lo |-> today, hi |-> today]
      <3>1. x = <<b>>
        BY <2>2 DEF calculate_estimation_metrics
      <3>2. Len(<<b>>) = 1
        OBVIOUS
      <3>3. x[n] = b
        BY <3>1, <3>2
      <3> QED
        BY <3>3 DEF MetricSets
    <2>3. CASE x # calculate_estimation_metrics(ps, res, today)
      <3>1. PICK M \in MetricSets : x = FixedScope(M, ps, res)
        BY <2>1, <2>3 DEF PlansOf, MetricSets, calculate_lead_time,
            calculate_throughput, calculate_aging, calculate_time_to_market,
            calculate_flow_efficiency, calculate_velocity
      <3> QED
        BY <3>1, FixedScopeMetrics
    <2> QED
      BY <2>2, <2>3
  <1>2. ASSUME NEW x, IsSingleMetricPlan(x), NEW n \in 1 .. Len(x)
        PROVE  x[n].metrics \in MetricSets
    <2>1. PICK res : \E m \in {"input_flow_weekly", "cancellation_rate_weekly"} :
              OnlyMetric(res, m) /\ x = ScopeOfData(res)
      BY <1>2 DEF IsSingleMetricPlan, calculate_input_flow, calculate_waste_metrics
    <2> QED
      BY <2>1, SingleMetricScope DEF MetricSets
  <1>3. p[i].metrics \in MetricSets /\ q[j].metrics \in MetricSets
    BY <1>1, <1>2, ByValueMetrics DEF IsCoveredPlan
  <1> QED
    BY <1>3, MetricSetsApart

\* With the lock on, concurrent runs of these assets store no observation twice and are
\* atomic, whatever they compute, however many run and whenever they fail.
THEOREM AssetsWriteAtomically ==
    ASSUME UseAdvisoryLock, \A p \in Plans : IsCoveredPlan(p)
    PROVE  Spec => []NoDuplicateFacts /\ WritesAreAtomic
  <1>1. LockCovers
    BY SameLockWhereMetricsMeet DEF LockCovers
  <1> QED
    BY <1>1, LockPreventsDuplicates, StoreIsAtomic

-----------------------------------------------------------------------------
\* The call c can come after b in a run: it is for other projects, or for the slices of a
\* rule of which b has no row, while b is for a single rule, or for none.
Before(b, c) ==
    \/ b.projects \cap c.projects = {}
    \/ \E q, r : q # r /\ r # NoRule /\ RulesOf(b) = {q} /\ RulesOf(c) = {r}

InOrder(p) == \A i, j \in 1 .. Len(p) : i < j => Before(p[i], p[j])

\* No rule has two values in the rows of a project.
OneValueForRule(res) ==
    \A k, l \in res : k.project = l.project /\ k.rule = l.rule /\ k.rule # NoRule =>
        k.value = l.value

\* The plans of the assets that make one call, or one for each project, or those by value
\* of cumulative flow and backlog growth when rules have a single value.
IsOrderlyPlan(p) ==
    \/ \E ps, res, today : p \in PlansOf(ps, res, today)
    \/ \E res : p \in {calculate_sprint_health(res), calculate_flow_dynamics(res),
                        calculate_input_flow(res), calculate_waste_metrics(res),
                        calculate_delivery_metrics(res), calculate_cycle_time_extended(res)}
    \/ \E ps, res : IsFiniteSet(ps) /\ p = calculate_quality_metrics(ps, res)
    \/ \E ps, res, found :
          /\ IsFiniteSet(ps) /\ IsFiniteSet(res) /\ OneValueForRule(res)
          /\ p \in {calculate_cumulative_flow_diagram(ps, res),
                    calculate_backlog_growth(ps, res, found)}

\* A list of at most one call is in order.
LEMMA ShortPlanInOrder ==
    ASSUME NEW p, p = <<>> \/ \E b : p = <<b>>
    PROVE  InOrder(p)
  <1>1. ASSUME NEW b
        PROVE  Len(<<b>>) = 1
    OBVIOUS
  <1>2. Len(p) = 0 \/ Len(p) = 1
    BY <1>1
  <1>3. \A n : n = 0 \/ n = 1 => \A i, j \in 1 .. n : ~(i < j)
    OBVIOUS
  <1>4. \A i, j \in 1 .. Len(p) : ~(i < j)
    BY <1>2, <1>3
  <1> QED
    BY <1>4 DEF InOrder

\* Quality has a call for each project.
LEMMA QualityInOrder ==
    ASSUME NEW ps, IsFiniteSet(ps), NEW res
    PROVE  InOrder(calculate_quality_metrics(ps, res))
  <1> DEFINE rows(p) == OfProject(res, p)
             of == [p \in ps |-> CallIf(Metrics_(rows(p)), {p}, rows(p))]
             S == {BatchOf(Metrics_(rows(p)), {p}, rows(p)) : p \in ps}
             R == {x \in S \X S : Before(x[1], x[2])}
             ss == [i \in 1 .. Len(SetToSeq(ps)) |->
                       CallIf(Metrics_(rows(SetToSeq(ps)[i])), {SetToSeq(ps)[i]},
                              rows(SetToSeq(ps)[i]))]
  <1>1. calculate_quality_metrics(ps, res) = FlattenSeq(ss)
    BY DEF calculate_quality_metrics, ForEach
  <1>2. FlattenSeq(ss) = Joined(ps, of)
    <2>1. /\ ss = [i \in 1 .. Len(SetToSeq(ps)) |-> ss[i]]
          /\ \A i \in 1 .. Len(SetToSeq(ps)) : SetToSeq(ps)[i] \in ps => ss[i] = of[SetToSeq(ps)[i]]
      <3> HIDE DEF rows
      <3> QED
        OBVIOUS
    <2> HIDE DEF ss, of
    <2> QED
      BY <2>1, JoinedInOrder
  <1>3. ASSUME NEW p \in ps
        PROVE  /\ of[p] \in Seq(S)
               /\ Ordered(of[p], R)
               /\ \A a \in 1 .. Len(of[p]) : of[p][a].projects = {p}
    <2> DEFINE M == Metrics_(rows(p))
               T == rows(p)
    <2>1. BatchOf(M, {p}, T) \in S
      OBVIOUS
    <2>2. of[p] = CallIf(M, {p}, T)
      OBVIOUS
    <2> HIDE DEF M, T, of, S, R
    <2>3. AtMostACall(of[p], M, {p}, T, S, R)
      BY <2>1, <2>2, CallIfRows
    <2>4. BatchOf(M, {p}, T).projects = {p}
      BY FieldsOfBatch
    <2> QED
      BY <2>3, <2>4 DEF AtMostACall
  <1>4. of \in [ps -> Seq(S)]
    BY <1>3
  <1>5. ASSUME NEW p \in ps, NEW q \in ps, p # q,
               NEW a \in 1 .. Len(of[p]), NEW b \in 1 .. Len(of[q])
        PROVE  <<of[p][a], of[q][b]>> \in R
    <2> HIDE DEF of, S
    <2>1. of[p][a].projects = {p} /\ of[q][b].projects = {q}
      BY <1>3
    <2>2. of[p][a] \in S /\ of[q][b] \in S
      BY <1>4, ElementOfSeq
    <2>3. Before(of[p][a], of[q][b])
      BY <1>5, <2>1 DEF Before
    <2> QED
      BY <2>2, <2>3
  <1>6. Joinable(ps, of, S, R)
    <2> HIDE DEF of, S, R
    <2> QED
      BY <1>3, <1>4, <1>5 DEF Joinable
  <1>7. Ordered(Joined(ps, of), R)
    <2> HIDE DEF of, S, R
    <2> QED
      BY <1>6, JoinedList
  <1>8. \A b, c : <<b, c>> \in R => Before(b, c)
    OBVIOUS
  <1> HIDE DEF of, S, R, ss
  <1> QED
    BY <1>1, <1>2, <1>7, <1>8 DEF InOrder, Ordered

\* The plans by value have the base rows of a project first and then each rule once, if a
\* rule has one value.
LEMMA PlansByValueInOrder ==
    ASSUME NEW M, NEW ps, IsFiniteSet(ps), NEW res, IsFiniteSet(res), OneValueForRule(res)
    PROVE  InOrder(PlanByValue(M, ps, res, AllCallsOfSlices(FALSE, M, ps, res)))
  <1> DEFINE S == CallsWith(M, ps, res)
             R == {x \in S \X S : Before(x[1], x[2])}
             plan_ == PlanByValue(M, ps, res, AllCallsOfSlices(FALSE, M, ps, res))
  <1>1. ASSUME NEW b \in S, NEW c \in S, Follows(b, c)
        PROVE  <<b, c>> \in R
    <2>1. b.rows \subseteq res /\ c.rows \subseteq res
      BY CallsWithFields
    <2>2. ~\E k \in b.rows, l \in c.rows :
              k.project = l.project /\ k.rule = l.rule /\ k.rule # NoRule /\ k.value # l.value
      BY <2>1 DEF OneValueForRule
    <2>3. Before(b, c)
      BY <1>1, <2>2 DEF Follows, Before
    <2> QED
      BY <2>3
  <1>2. \A b, c : <<b, c>> \in R => Before(b, c)
    OBVIOUS
  <1> HIDE DEF R
  <1>3. Ordered(plan_, R)
    <2>1. \A b, c \in CallsWith(M, ps, res) : Follows(b, c) \/ FALSE => <<b, c>> \in R
      BY <1>1
    <2> QED
      BY <2>1, PlansByValueOrdered
  <1> HIDE DEF plan_
  <1> QED
    BY <1>2, <1>3 DEF InOrder, Ordered, plan_

\* The calls of these assets are in order, whatever they compute: sixteen of the
\* seventeen assets, two of them for rules of one value.
THEOREM AssetsWriteInOrder ==
    ASSUME NEW p, IsOrderlyPlan(p)
    PROVE  InOrder(p)
  <1>1. ASSUME NEW ps, NEW res, NEW today, p \in PlansOf(ps, res, today)
        PROVE  p = <<>> \/ \E b : p = <<b>>
    BY <1>1 DEF PlansOf, calculate_lead_time, calculate_throughput, calculate_aging,
        calculate_time_to_market, calculate_flow_efficiency, calculate_velocity,
        calculate_estimation_metrics, FixedScope
  <1>2. ASSUME NEW res, p = ScopeOfData(res)
        PROVE  p = <<>> \/ \E b : p = <<b>>
    BY <1>2 DEF ScopeOfData, CallIf
  <1>3. ASSUME NEW ps, NEW res, NEW found,
               IsFiniteSet(ps), IsFiniteSet(res), OneValueForRule(res),
               p \in {calculate_cumulative_flow_diagram(ps, res),
                      calculate_backlog_growth(ps, res, found)}
        PROVE  InOrder(p)
    <2>1. IsFiniteSet(WithBase(ps, res))
      BY <1>3, FS_Subset DEF WithBase
    <2>2. PICK M : p = PlanByValue(M, WithBase(ps, res), res,
                                   AllCallsOfSlices(FALSE, M, WithBase(ps, res), res))
      <3>1. CASE p = calculate_cumulative_flow_diagram(ps, res)
        BY <1>3, <3>1, PlansByValue
      <3>2. CASE p = calculate_backlog_growth(ps, res, found)
        <4> DEFINE N == BacklogRequired \cup found
        <4>1. p = PlanByValue(N, WithBase(ps, res), res,
                              AllCallsOfSlices(FALSE, N, WithBase(ps, res), res))
          BY <1>3, <3>2, PlansByValue
        <4> HIDE DEF N
        <4> QED
          BY <4>1
      <3> QED
        BY <1>3, <3>1, <3>2
    <2> QED
      BY <1>3, <2>1, <2>2, PlansByValueInOrder
  <1> QED
    BY <1>1, <1>2, <1>3, ShortPlanInOrder, QualityInOrder DEF IsOrderlyPlan,
        calculate_sprint_health, calculate_flow_dynamics, calculate_input_flow,
        calculate_waste_metrics, calculate_delivery_metrics, calculate_cycle_time_extended

\* What a call inserts is spared by the calls that can come after it, which cover other
\* observations.
LEMMA LaterCallIsApart ==
    ASSUME NEW b, NEW c, CoversItsRows(b), Before(b, c)
    PROVE  /\ \A k \in b.rows : Spares(c, k)
           /\ Covered(b) \cap Covered(c) = {}
  <1>1. CASE b.projects \cap c.projects = {}
    <2>1. \A k \in b.rows : k.project \in b.projects
      BY DEF CoversItsRows
    <2>2. \A f : InScope(f, b) => ~InScope(f, c)
      BY <1>1 DEF InScope
    <2>3. \A k \in b.rows : \A r : ~InScope([key |-> k, rule |-> r], c)
      BY <1>1, <2>1 DEF InScope
    <2> QED
      BY <2>2, <2>3 DEF Spares, Covered
  <1>2. ASSUME NEW q, NEW r, q # r, r # NoRule, RulesOf(b) = {q}, RulesOf(c) = {r}
        PROVE  /\ \A k \in b.rows : Spares(c, k)
               /\ Covered(b) \cap Covered(c) = {}
    <2>1. \A k \in b.rows : k.rule = q
      BY <1>2 DEF RulesOf
    <2>2. \A s : SliceMatches(s, c) => s = r
      BY <1>2 DEF SliceMatches
    <2>3. \A s : SliceMatches(s, b) => s = q
      BY <1>2 DEF SliceMatches
    <2>4. \A f : InScope(f, c) => f.rule = r
      BY <2>2 DEF InScope
    <2>5. \A f : InScope(f, b) => f.rule = q
      BY <2>3 DEF InScope
    <2>6. ASSUME NEW k \in b.rows
          PROVE  Spares(c, k)
      BY <1>2, <2>1, <2>4 DEF Spares
    <2>7. Covered(b) \cap Covered(c) = {}
      BY <1>2, <2>4, <2>5 DEF Covered
    <2> QED
      BY <2>6, <2>7
  <1> QED
    BY <1>1, <1>2 DEF Before

\* These assets meet the hypotheses about the calls of a run.
LEMMA OrderlyPlansAreApart ==
    ASSUME \A p \in Plans : IsOrderlyPlan(p)
    PROVE  LaterCallsSpare /\ CallsApart
  <1>1. ASSUME NEW p \in Plans, NEW i \in 1 .. Len(p), NEW j \in 1 .. Len(p), i < j
        PROVE  /\ \A k \in p[i].rows : Spares(p[j], k)
               /\ Covered(p[i]) \cap Covered(p[j]) = {}
    <2>1. CoversItsRows(p[i])
      BY ConstantsAssumption
    <2>2. Before(p[i], p[j])
      BY <1>1, AssetsWriteInOrder DEF InOrder
    <2> QED
      BY <2>1, <2>2, LaterCallIsApart
  <1>2. LaterCallsSpare
    BY <1>1 DEF LaterCallsSpare
  <1>3. ASSUME NEW p \in Plans, NEW i \in 1 .. Len(p), NEW j \in 1 .. Len(p), i # j
        PROVE  Covered(p[i]) \cap Covered(p[j]) = {}
    <2>1. i < j \/ j < i
      BY <1>3
    <2>2. CASE i < j
      BY <1>1, <2>2
    <2>3. CASE j < i
      BY <1>1, <2>3
    <2> QED
      BY <2>1, <2>2, <2>3
  <1> QED
    BY <1>2, <1>3 DEF CallsApart

\* No write of a run of these assets removes what the run has written, and a run that no
\* other writer disturbs goes call by call: if it fails, the series it has written are
\* complete and the others as they were. With or without the lock.
THEOREM AssetsKeepTheirRows ==
    ASSUME \A p \in Plans : IsOrderlyPlan(p), NEW w \in Writers
    PROVE  /\ Spec => RunKeepsItsRows
           /\ Spec /\ [][Undisturbed(w)]_vars => []CallsSoFar(w) /\ [][CallByCall(w)]_vars
  <1>1. LaterCallsSpare /\ CallsApart
    BY OrderlyPlansAreApart
  <1> QED
    BY <1>1, RunsKeepTheirRows, RunsGoCallByCall
================================================================================
