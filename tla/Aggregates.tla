------------------------------- MODULE Aggregates -------------------------------
(****************************************************************************)
(* Least and greatest numbers of a set, and sums: what Min and Max of       *)
(* FiniteSetsExt are when they are defined, and the algebra of SumFunction. *)
(* The proofs go by the least counterexample, since the natural numbers are *)
(* well founded.                                                            *)
(****************************************************************************)
EXTENDS Integers, FiniteSetsExt, Functions, FiniteSetTheorems, FunctionTheorems,
        WellFoundedInduction, TLAPS

NatOrder == {p \in Nat \X Nat : p[1] < p[2]}

\* Every set of natural numbers has a least one.
LEMMA LeastNatural ==
    ASSUME NEW S \in SUBSET Nat, S # {}
    PROVE  \E x \in S : \A y \in S : x <= y
  <1>1. IsWellFoundedOn(NatOrder, Nat)
    BY NatLessThanWellFounded DEF OpToRel, NatOrder
  <1>2. PICK x \in S : \A y \in S : <<y, x>> \notin NatOrder
    BY <1>1, WFMin
  <1>3. ASSUME NEW y \in S
        PROVE  x <= y
    <2>1. x \in Nat /\ y \in Nat
      OBVIOUS
    <2>2. ~(y < x)
      BY <1>2, <2>1 DEF NatOrder
    <2> QED
      BY <2>1, <2>2
  <1> QED
    BY <1>3

\* A finite set of integers has a greatest one: take a least set that has none and put back
\* the element that was removed.
LEMMA GreatestInteger ==
    ASSUME NEW S \in SUBSET Int, IsFiniteSet(S), S # {}
    PROVE  \E x \in S : \A y \in S : y <= x
  <1> DEFINE Bad(T) == T # {} /\ \A x \in T : \E y \in T : ~(y <= x)
             Sizes == {Cardinality(T) : T \in {T \in SUBSET S : Bad(T)}}
  <1>1. \A T \in SUBSET S : IsFiniteSet(T) /\ Cardinality(T) \in Nat
    BY FS_Subset, FS_CardinalityType
  <1>2. SUFFICES ASSUME Bad(S)
                 PROVE  FALSE
    OBVIOUS
  <1>3. Sizes # {} /\ Sizes \in SUBSET Nat
    BY <1>1, <1>2
  <1>4. PICK n \in Sizes : \A m \in Sizes : n <= m
    <2> HIDE DEF Sizes
    <2> QED
      BY <1>3, LeastNatural
  <1>5. PICK T \in SUBSET S : Bad(T) /\ Cardinality(T) = n
    BY <1>4
  <1>6. PICK x \in T : TRUE
    BY <1>5
  <1>7. Cardinality(T \ {x}) = n - 1 /\ n \in Nat
    BY <1>1, <1>5, <1>6, FS_RemoveElement
  <1>8. ~Bad(T \ {x})
    <2> SUFFICES ASSUME Bad(T \ {x})
                 PROVE  FALSE
      OBVIOUS
    <2>1. n - 1 \in Sizes
      BY <1>7
    <2> QED
      BY <1>4, <1>7, <2>1
  <1>9. CASE T \ {x} = {}
    BY <1>5, <1>6, <1>9
  <1>10. CASE T \ {x} # {}
    <2>1. PICK z \in T \ {x} : \A y \in T \ {x} : y <= z
      BY <1>8, <1>10
    <2>2. x \in Int /\ z \in Int /\ T \subseteq Int
      OBVIOUS
    <2>3. CASE x <= z
      BY <1>5, <2>1, <2>2, <2>3
    <2>4. CASE ~(x <= z)
      <3>1. \A y \in T : y <= x
        BY <2>1, <2>2, <2>4
      <3> QED
        BY <1>5, <1>6, <3>1
    <2> QED
      BY <2>3, <2>4
  <1> QED
    BY <1>9, <1>10

\* Min and Max are in the set, below and above everything in it.
LEMMA MinIsLeast ==
    ASSUME NEW S \in SUBSET Nat, S # {}
    PROVE  Min(S) \in S /\ \A y \in S : Min(S) <= y
  BY LeastNatural DEF Min

\* Max of a set is in it and no member is greater.
LEMMA MaxIsGreatest ==
    ASSUME NEW S \in SUBSET Int, IsFiniteSet(S), S # {}
    PROVE  Max(S) \in S /\ \A y \in S : y <= Max(S)
  <1>1. PICK x \in S : \A y \in S : y <= x
    BY GreatestInteger
  <1>2. \A y \in S : x >= y
    BY <1>1
  <1>3. Max(S) \in S /\ \A y \in S : Max(S) >= y
    BY <1>2 DEF Max
  <1> QED
    BY <1>3

-----------------------------------------------------------------------------
\* Sums. The sum of a function over a set is defined by recursion. Here it is the number of
\* units the function stacks on the elements, less those it digs below them; of that
\* number the recursion is a consequence, and so is all else.

Blocks(f, T) == UNION {{x} \X (1 .. f[x]) : x \in T}
Opposite(f) == [x \in DOMAIN f |-> -f[x]]
Measure(f, T) == Cardinality(Blocks(f, T)) - Cardinality(Blocks(Opposite(f), T))

\* An element has as many blocks as its value, if that is positive.
LEMMA BlockSize ==
    ASSUME NEW x, NEW n \in Int
    PROVE  /\ IsFiniteSet({x} \X (1 .. n))
           /\ Cardinality({x} \X (1 .. n)) = IF n > 0 THEN n ELSE 0
  <1>1. IsFiniteSet(1 .. n) /\ Cardinality(1 .. n) = IF 1 > n THEN 0 ELSE n - 1 + 1
    BY FS_Interval
  <1>2. IsFiniteSet({x}) /\ Cardinality({x}) = 1
    BY FS_Singleton
  <1>3. IsFiniteSet({x} \X (1 .. n)) /\ Cardinality({x} \X (1 .. n)) = Cardinality({x}) * Cardinality(1 .. n)
    BY <1>1, <1>2, FS_Product
  <1> QED
    BY <1>1, <1>2, <1>3

\* A finite set has finitely many blocks.
LEMMA BlocksAreFinite ==
    ASSUME NEW S, NEW f \in [S -> Int], NEW T \in SUBSET S, IsFiniteSet(T)
    PROVE  IsFiniteSet(Blocks(f, T)) /\ Cardinality(Blocks(f, T)) \in Nat
  <1> DEFINE block == [x \in T |-> {x} \X (1 .. f[x])]
             W == {{x} \X (1 .. f[x]) : x \in T}
  <1>1. W = Range(block)
    BY DEF Range
  <1>2. block \in Surjection(T, W)
    BY <1>1, Fun_IsSurj
  <1>3. IsFiniteSet(W)
    <2> HIDE DEF W, block
    <2> QED
      BY <1>2, FS_Surjection
  <1>4. \A B \in W : IsFiniteSet(B)
    <2>1. ASSUME NEW x \in T
          PROVE  IsFiniteSet({x} \X (1 .. f[x]))
      <3>1. f[x] \in Int
        OBVIOUS
      <3> QED
        BY <3>1, BlockSize
    <2> QED
      BY <2>1
  <1>5. IsFiniteSet(UNION W)
    <2> HIDE DEF W
    <2> QED
      BY <1>3, <1>4, FS_UNION
  <1> QED
    BY <1>5, FS_CardinalityType DEF Blocks

\* One more element adds its own blocks.
LEMMA BlocksOfOneMore ==
    ASSUME NEW S, NEW f \in [S -> Int], NEW T \in SUBSET S, IsFiniteSet(T), NEW x \in S \ T
    PROVE  Cardinality(Blocks(f, T \cup {x})) = Cardinality(Blocks(f, T)) + IF f[x] > 0 THEN f[x] ELSE 0
  <1> DEFINE A == Blocks(f, T)
             B == {x} \X (1 .. f[x])
  <1>1. Blocks(f, T \cup {x}) = A \cup B
    BY DEF Blocks
  <1>2. A \cap B = {}
    BY DEF Blocks
  <1>3. IsFiniteSet(A) /\ Cardinality(A) \in Nat
    BY BlocksAreFinite
  <1>4. IsFiniteSet(B) /\ Cardinality(B) = IF f[x] > 0 THEN f[x] ELSE 0
    BY BlockSize
  <1> HIDE DEF A, B
  <1>5. Cardinality(A \cup B) = Cardinality(A) + Cardinality(B)
    <2>1. Cardinality(A \cup B) = Cardinality(A) + Cardinality(B) - Cardinality({})
      BY <1>2, <1>3, <1>4, FS_Union
    <2>2. Cardinality({}) = 0 /\ Cardinality(B) \in Nat
      BY <1>4, FS_EmptySet, FS_CardinalityType
    <2> QED
      BY <1>3, <2>1, <2>2
  <1> QED
    BY <1>1, <1>4, <1>5 DEF A

\* One more element adds its value to the measure.
LEMMA MeasureOfOneMore ==
    ASSUME NEW S, NEW f \in [S -> Int], NEW T \in SUBSET S, IsFiniteSet(T)
    PROVE  /\ Measure(f, {}) = 0 /\ Measure(f, T) \in Int
           /\ \A x \in S \ T : Measure(f, T \cup {x}) = Measure(f, T) + f[x]
  <1>1. Opposite(f) \in [S -> Int] /\ \A x \in S : Opposite(f)[x] = -f[x]
    BY DEF Opposite
  <1>2. Measure(f, {}) = 0
    <2>1. Blocks(f, {}) = {} /\ Blocks(Opposite(f), {}) = {}
      BY DEF Blocks
    <2> QED
      BY <2>1, FS_EmptySet DEF Measure
  <1>3. Cardinality(Blocks(f, T)) \in Nat /\ Cardinality(Blocks(Opposite(f), T)) \in Nat
    BY <1>1, BlocksAreFinite
  <1>4. ASSUME NEW x \in S \ T
        PROVE  Measure(f, T \cup {x}) = Measure(f, T) + f[x]
    <2>1. Cardinality(Blocks(f, T \cup {x})) = Cardinality(Blocks(f, T)) + IF f[x] > 0 THEN f[x] ELSE 0
      BY BlocksOfOneMore
    <2>2. Cardinality(Blocks(Opposite(f), T \cup {x})) =
                Cardinality(Blocks(Opposite(f), T)) + IF -f[x] > 0 THEN -f[x] ELSE 0
      <3>1. Cardinality(Blocks(Opposite(f), T \cup {x})) =
                Cardinality(Blocks(Opposite(f), T)) + IF Opposite(f)[x] > 0 THEN Opposite(f)[x] ELSE 0
        BY <1>1, BlocksOfOneMore
      <3> QED
        BY <1>1, <3>1
    <2>3. f[x] \in Int
      OBVIOUS
    <2> QED
      BY <1>3, <2>1, <2>2, <2>3 DEF Measure
  <1> QED
    BY <1>2, <1>3, <1>4 DEF Measure

Choice(T) == CHOOSE x \in T : TRUE

\* The recursion by which SumFunctionOnSet is defined takes one element after the other.
LEMMA SumUnfolds ==
    ASSUME NEW f, NEW S, NEW g,
           g = [T \in SUBSET S |-> IF T = {} THEN 0 ELSE f[Choice(T)] + g[T \ {Choice(T)}]]
    PROVE  \E h : /\ h = [T \in SUBSET S |-> IF T = {} THEN 0 ELSE f[Choice(T)] + h[T \ {Choice(T)}]]
                  /\ SumFunctionOnSet(f, S) = h[S]
  <1> DEFINE P(h) == h = [T \in SUBSET S |-> IF T = {} THEN 0
                            ELSE f[CHOOSE x \in T : TRUE] + h[T \ {CHOOSE x \in T : TRUE}]]
             h == CHOOSE h : P(h)
  <1>1. P(g)
    BY DEF Choice
  <1>2. P(h)
    <2> HIDE DEF P
    <2> QED
      BY <1>1
  <1>3. SumFunctionOnSet(f, S) = h[S]
    BY DEF SumFunctionOnSet, FoldFunctionOnSet, MapThenFoldSet
  <1> HIDE DEF h
  <1> QED
    BY <1>2, <1>3 DEF Choice

\* The sum is the measure: take the least set of which it is not.
LEMMA SumIsMeasure ==
    ASSUME NEW S, NEW f \in [S -> Int], NEW T \in SUBSET S, IsFiniteSet(T)
    PROVE  SumFunctionOnSet(f, T) = Measure(f, T)
  <1> DEFINE g == [U \in SUBSET T |-> Measure(f, U)]
  <1>1. \A U \in SUBSET T : IsFiniteSet(U) /\ U \in SUBSET S
    BY FS_Subset
  <1>2. ASSUME NEW U \in SUBSET T, U # {}
        PROVE  /\ Choice(U) \in U /\ U \ {Choice(U)} \in SUBSET T
               /\ Measure(f, U) = f[Choice(U)] + Measure(f, U \ {Choice(U)})
    <2>1. Choice(U) \in U
      BY <1>2 DEF Choice
    <2> DEFINE x == Choice(U)
               V == U \ {x}
    <2> HIDE DEF x
    <2>2. x \in S \ V /\ V \in SUBSET T /\ V \cup {x} = U
      BY <2>1 DEF x
    <2> HIDE DEF V
    <2>3. Measure(f, V \cup {x}) = Measure(f, V) + f[x] /\ Measure(f, V) \in Int
      BY <1>1, <2>2, MeasureOfOneMore
    <2>4. f[x] \in Int
      BY <2>2
    <2>5. Measure(f, U) = Measure(f, V) + f[x]
      BY <2>2, <2>3
    <2>6. ASSUME NEW m \in Int, NEW n \in Int
          PROVE  m + n = n + m
      OBVIOUS
    <2>7. Measure(f, V) + f[x] = f[x] + Measure(f, V)
      BY <2>3, <2>4, <2>6
    <2> QED
      BY <2>1, <2>2, <2>5, <2>7 DEF x, V
  <1>3. Measure(f, {}) = 0
    BY MeasureOfOneMore
  <1>4. g = [U \in SUBSET T |-> IF U = {} THEN 0 ELSE f[Choice(U)] + g[U \ {Choice(U)}]]
    <2>1. \A U \in SUBSET T : g[U] = IF U = {} THEN 0 ELSE f[Choice(U)] + g[U \ {Choice(U)}]
      BY <1>2, <1>3
    <2> HIDE DEF g
    <2>2. g = [U \in SUBSET T |-> g[U]]
      BY DEF g
    <2> QED
      BY <2>1, <2>2
  <1> HIDE DEF g
  <1>5. PICK h : /\ h = [U \in SUBSET T |-> IF U = {} THEN 0 ELSE f[Choice(U)] + h[U \ {Choice(U)}]]
                 /\ SumFunctionOnSet(f, T) = h[T]
    BY <1>4, SumUnfolds
  <1>6. \A U \in SUBSET T : h[U] = IF U = {} THEN 0 ELSE f[Choice(U)] + h[U \ {Choice(U)}]
    BY <1>5
  <1> DEFINE bad == {U \in SUBSET T : h[U] # Measure(f, U)}
             sizes == {Cardinality(U) : U \in bad}
  <1>7. bad = {}
    <2> SUFFICES ASSUME bad # {}
                 PROVE  FALSE
      OBVIOUS
    <2>1. sizes \in SUBSET Nat /\ sizes # {}
      BY <1>1, FS_CardinalityType
    <2>2. PICK n \in sizes : \A m \in sizes : n <= m
      <3> HIDE DEF sizes
      <3> QED
        BY <2>1, LeastNatural
    <2>3. PICK U \in bad : Cardinality(U) = n
      BY <2>2
    <2>4. U # {}
      BY <1>3, <1>6
    <2> DEFINE V == U \ {Choice(U)}
    <2>5. V \in SUBSET T /\ Cardinality(V) = Cardinality(U) - 1 /\ Cardinality(U) \in Nat
      BY <1>1, <1>2, <2>4, FS_RemoveElement, FS_CardinalityType
    <2>6. V \notin bad
      BY <2>2, <2>3, <2>5
    <2>7. h[V] = Measure(f, V)
      BY <2>5, <2>6
    <2> QED
      BY <1>2, <1>6, <2>4, <2>7
  <1> QED
    BY <1>5, <1>7

\* Nothing sums up to 0, and one more element adds its value.
LEMMA SumSteps ==
    ASSUME NEW S, NEW f \in [S -> Int], NEW T \in SUBSET S, IsFiniteSet(T)
    PROVE  /\ SumFunctionOnSet(f, {}) = 0 /\ SumFunctionOnSet(f, T) \in Int
           /\ \A x \in S \ T : SumFunctionOnSet(f, T \cup {x}) = SumFunctionOnSet(f, T) + f[x]
  <1>1. SumFunctionOnSet(f, {}) = Measure(f, {})
    BY FS_EmptySet, SumIsMeasure
  <1>2. SumFunctionOnSet(f, T) = Measure(f, T)
    BY SumIsMeasure
  <1>3. ASSUME NEW x \in S \ T
        PROVE  SumFunctionOnSet(f, T \cup {x}) = Measure(f, T \cup {x})
    <2>1. IsFiniteSet(T \cup {x}) /\ T \cup {x} \in SUBSET S
      BY FS_AddElement
    <2> QED
      BY <2>1, SumIsMeasure
  <1> QED
    BY <1>1, <1>2, <1>3, MeasureOfOneMore

\* The sum over one element is its value.
LEMMA SumOfSingleton ==
    ASSUME NEW S, NEW f \in [S -> Int], NEW x \in S
    PROVE  SumFunctionOnSet(f, {x}) = f[x]
  <1> DEFINE none == {}
  <1>1. IsFiniteSet(none) /\ none \in SUBSET S /\ x \in S \ none /\ none \cup {x} = {x} /\ f[x] \in Int
    BY FS_EmptySet
  <1>2. SumFunctionOnSet(f, none) = 0
    BY <1>1, SumSteps
  <1> HIDE DEF none
  <1>3. SumFunctionOnSet(f, none \cup {x}) = SumFunctionOnSet(f, none) + f[x]
    BY <1>1, SumSteps
  <1> QED
    BY <1>1, <1>2, <1>3

\* Induction over the subsets of a finite set.
LEMMA SubsetInduction ==
    ASSUME NEW S, IsFiniteSet(S), NEW P \in SUBSET SUBSET S, {} \in P,
           \A T \in P : \A x \in S \ T : T \cup {x} \in P
    PROVE  S \in P
  <1> DEFINE bad == (SUBSET S) \ P
             sizes == {Cardinality(T) : T \in bad}
  <1>1. \A T \in SUBSET S : IsFiniteSet(T) /\ Cardinality(T) \in Nat
    BY FS_Subset, FS_CardinalityType
  <1> SUFFICES ASSUME bad # {}
               PROVE  FALSE
    OBVIOUS
  <1>2. sizes \in SUBSET Nat /\ sizes # {}
    BY <1>1
  <1>3. PICK n \in sizes : \A m \in sizes : n <= m
    <2> HIDE DEF sizes
    <2> QED
      BY <1>2, LeastNatural
  <1>4. PICK T \in bad : Cardinality(T) = n
    BY <1>3
  <1>5. PICK x \in T : TRUE
    OBVIOUS
  <1> DEFINE V == T \ {x}
  <1>6. V \in SUBSET S /\ x \in S \ V /\ V \cup {x} = T
    BY <1>5
  <1>7. Cardinality(V) = Cardinality(T) - 1 /\ Cardinality(T) \in Nat
    BY <1>1, <1>5, FS_RemoveElement
  <1> HIDE DEF V
  <1>8. V \in P
    <2> SUFFICES ASSUME V \in bad
                 PROVE  FALSE
      BY <1>6
    <2>1. Cardinality(V) \in sizes
      OBVIOUS
    <2>2. n <= Cardinality(V)
      BY <1>3, <2>1
    <2> HIDE DEF sizes, bad
    <2> QED
      BY <1>4, <1>7, <2>2
  <1> QED
    BY <1>6, <1>8

\* Functions that agree on a set have the same sum over it.
LEMMA SumsAgree ==
    ASSUME NEW S, NEW f \in [S -> Int], NEW R, NEW g \in [R -> Int],
           NEW T \in SUBSET S, T \in SUBSET R, IsFiniteSet(T), \A x \in T : f[x] = g[x]
    PROVE  SumFunctionOnSet(f, T) = SumFunctionOnSet(g, T)
  <1> DEFINE P == {U \in SUBSET T : SumFunctionOnSet(f, U) = SumFunctionOnSet(g, U)}
  <1>1. {} \in P
    BY FS_EmptySet, SumSteps
  <1>2. ASSUME NEW U \in P, NEW x \in T \ U
        PROVE  U \cup {x} \in P
    <2>1. IsFiniteSet(U) /\ U \in SUBSET S /\ U \in SUBSET R
      BY FS_Subset
    <2>2. SumFunctionOnSet(f, U \cup {x}) = SumFunctionOnSet(f, U) + f[x]
      BY <2>1, SumSteps
    <2>3. SumFunctionOnSet(g, U \cup {x}) = SumFunctionOnSet(g, U) + g[x]
      BY <2>1, SumSteps
    <2> QED
      BY <2>2, <2>3
  <1>3. T \in P
    <2> HIDE DEF P
    <2>1. P \in SUBSET SUBSET T
      BY DEF P
    <2> QED
      BY <1>1, <1>2, <2>1, SubsetInduction
  <1> QED
    BY <1>3

\* The sum over two sets that have nothing in common is that of their sums.
LEMMA SumByParts ==
    ASSUME NEW S, NEW f \in [S -> Int], NEW T \in SUBSET S, IsFiniteSet(T),
           NEW U \in SUBSET S, IsFiniteSet(U), T \cap U = {}
    PROVE  SumFunctionOnSet(f, T \cup U) = SumFunctionOnSet(f, T) + SumFunctionOnSet(f, U)
  <1> DEFINE P == {V \in SUBSET U :
                    SumFunctionOnSet(f, T \cup V) = SumFunctionOnSet(f, T) + SumFunctionOnSet(f, V)}
  <1>1. {} \in P
    <2>1. SumFunctionOnSet(f, {}) = 0 /\ SumFunctionOnSet(f, T) \in Int
      BY SumSteps
    <2>2. T \cup {} = T
      OBVIOUS
    <2> QED
      BY <2>1, <2>2
  <1>2. ASSUME NEW V \in P, NEW x \in U \ V
        PROVE  V \cup {x} \in P
    <2> DEFINE W == T \cup V
    <2>1. IsFiniteSet(V) /\ V \in SUBSET S
      BY FS_Subset
    <2>2. IsFiniteSet(W) /\ W \in SUBSET S
      BY <2>1, FS_Union
    <2>3. x \in S \ V /\ x \in S \ W /\ W \cup {x} = T \cup (V \cup {x})
      OBVIOUS
    <2>4. SumFunctionOnSet(f, W) = SumFunctionOnSet(f, T) + SumFunctionOnSet(f, V)
      OBVIOUS
    <2> HIDE DEF W
    <2>5. SumFunctionOnSet(f, W \cup {x}) = SumFunctionOnSet(f, W) + f[x]
      BY <2>2, <2>3, SumSteps
    <2>6. SumFunctionOnSet(f, V \cup {x}) = SumFunctionOnSet(f, V) + f[x]
      BY <2>1, <2>3, SumSteps
    <2>7. SumFunctionOnSet(f, T) \in Int /\ SumFunctionOnSet(f, V) \in Int /\ f[x] \in Int
      BY <2>1, SumSteps
    <2>8. SumFunctionOnSet(f, W \cup {x}) = SumFunctionOnSet(f, T) + SumFunctionOnSet(f, V \cup {x})
      BY <2>4, <2>5, <2>6, <2>7
    <2>9. V \cup {x} \in SUBSET U
      OBVIOUS
    <2> QED
      BY <2>3, <2>8, <2>9
  <1>3. U \in P
    <2> HIDE DEF P
    <2>1. P \in SUBSET SUBSET U
      BY DEF P
    <2> QED
      BY <1>1, <1>2, <2>1, SubsetInduction
  <1> QED
    BY <1>3

\* Zeros sum up to 0.
LEMMA SumOfZeros ==
    ASSUME NEW S, NEW f \in [S -> Int], NEW T \in SUBSET S, IsFiniteSet(T),
           \A x \in T : f[x] = 0
    PROVE  SumFunctionOnSet(f, T) = 0
  <1> DEFINE P == {U \in SUBSET T : SumFunctionOnSet(f, U) = 0}
  <1>1. {} \in P
    BY FS_EmptySet, SumSteps
  <1>2. ASSUME NEW U \in P, NEW x \in T \ U
        PROVE  U \cup {x} \in P
    <2>1. IsFiniteSet(U) /\ U \in SUBSET S
      BY FS_Subset
    <2>2. SumFunctionOnSet(f, U \cup {x}) = SumFunctionOnSet(f, U) + f[x]
      BY <2>1, SumSteps
    <2> QED
      BY <2>2
  <1>3. T \in P
    <2> HIDE DEF P
    <2>1. P \in SUBSET SUBSET T
      BY DEF P
    <2> QED
      BY <1>1, <1>2, <2>1, SubsetInduction
  <1> QED
    BY <1>3

\* Greater values have a greater sum.
LEMMA SumsAreOrdered ==
    ASSUME NEW S, NEW f \in [S -> Int], NEW g \in [S -> Int], NEW T \in SUBSET S, IsFiniteSet(T),
           \A x \in T : f[x] <= g[x]
    PROVE  SumFunctionOnSet(f, T) <= SumFunctionOnSet(g, T)
  <1> DEFINE P == {U \in SUBSET T : SumFunctionOnSet(f, U) <= SumFunctionOnSet(g, U)}
  <1>1. {} \in P
    BY FS_EmptySet, SumSteps
  <1>2. ASSUME NEW U \in P, NEW x \in T \ U
        PROVE  U \cup {x} \in P
    <2>1. IsFiniteSet(U) /\ U \in SUBSET S
      BY FS_Subset
    <2>2. SumFunctionOnSet(f, U \cup {x}) = SumFunctionOnSet(f, U) + f[x] /\ SumFunctionOnSet(f, U) \in Int
      BY <2>1, SumSteps
    <2>3. SumFunctionOnSet(g, U \cup {x}) = SumFunctionOnSet(g, U) + g[x] /\ SumFunctionOnSet(g, U) \in Int
      BY <2>1, SumSteps
    <2>4. f[x] <= g[x] /\ f[x] \in Int /\ g[x] \in Int
      OBVIOUS
    <2>5. SumFunctionOnSet(f, U \cup {x}) <= SumFunctionOnSet(g, U \cup {x})
      BY <2>2, <2>3, <2>4
    <2> QED
      BY <2>5
  <1>3. T \in P
    <2> HIDE DEF P
    <2>1. P \in SUBSET SUBSET T
      BY DEF P
    <2> QED
      BY <1>1, <1>2, <2>1, SubsetInduction
  <1> QED
    BY <1>3

\* The sum of differences is the difference of the sums.
LEMMA SumOfDifferences ==
    ASSUME NEW S, NEW f \in [S -> Int], NEW g \in [S -> Int], NEW h \in [S -> Int],
           NEW T \in SUBSET S, IsFiniteSet(T), \A x \in T : h[x] = f[x] - g[x]
    PROVE  SumFunctionOnSet(h, T) = SumFunctionOnSet(f, T) - SumFunctionOnSet(g, T)
  <1> DEFINE P == {U \in SUBSET T :
                    SumFunctionOnSet(h, U) = SumFunctionOnSet(f, U) - SumFunctionOnSet(g, U)}
  <1>1. {} \in P
    BY FS_EmptySet, SumSteps
  <1>2. ASSUME NEW U \in P, NEW x \in T \ U
        PROVE  U \cup {x} \in P
    <2>1. IsFiniteSet(U) /\ U \in SUBSET S
      BY FS_Subset
    <2>2. SumFunctionOnSet(f, U \cup {x}) = SumFunctionOnSet(f, U) + f[x] /\ SumFunctionOnSet(f, U) \in Int
      BY <2>1, SumSteps
    <2>3. SumFunctionOnSet(g, U \cup {x}) = SumFunctionOnSet(g, U) + g[x] /\ SumFunctionOnSet(g, U) \in Int
      BY <2>1, SumSteps
    <2>4. SumFunctionOnSet(h, U \cup {x}) = SumFunctionOnSet(h, U) + h[x]
      BY <2>1, SumSteps
    <2>5. h[x] = f[x] - g[x] /\ f[x] \in Int /\ g[x] \in Int
      OBVIOUS
    <2>6. SumFunctionOnSet(h, U) = SumFunctionOnSet(f, U) - SumFunctionOnSet(g, U)
      OBVIOUS
    <2>7. SumFunctionOnSet(h, U \cup {x}) = SumFunctionOnSet(f, U \cup {x}) - SumFunctionOnSet(g, U \cup {x})
      BY <2>2, <2>3, <2>4, <2>5, <2>6
    <2> QED
      BY <2>7
  <1>3. T \in P
    <2> HIDE DEF P
    <2>1. P \in SUBSET SUBSET T
      BY DEF P
    <2> QED
      BY <1>1, <1>2, <2>1, SubsetInduction
  <1> QED
    BY <1>3

\* The sum of a function is that over its domain.
LEMMA WholeSum ==
    ASSUME NEW S, NEW f \in [S -> Int]
    PROVE  SumFunction(f) = SumFunctionOnSet(f, S)
  <1>1. DOMAIN f = S
    OBVIOUS
  <1> QED
    BY <1>1 DEF SumFunction, SumFunctionOnSet, FoldFunction

\* The sum over the keys of what is summed for each key is the sum of all.
LEMMA SumByKey ==
    ASSUME NEW S, NEW f \in [S -> Int], NEW A \in SUBSET S, IsFiniteSet(A),
           NEW K, IsFiniteSet(K), NEW key \in [A -> K],
           NEW g \in [K -> Int], \A k \in K : g[k] = SumFunctionOnSet(f, {x \in A : key[x] = k})
    PROVE  SumFunctionOnSet(f, A) = SumFunctionOnSet(g, K)
  <1> DEFINE of(T) == {x \in A : key[x] \in T}
             P == {T \in SUBSET K : SumFunctionOnSet(f, of(T)) = SumFunctionOnSet(g, T)}
  <1>1. {} \in P
    <2>1. of({}) = {}
      OBVIOUS
    <2> QED
      BY <2>1, FS_EmptySet, SumSteps
  <1>2. ASSUME NEW T \in P, NEW k \in K \ T
        PROVE  T \cup {k} \in P
    <2> DEFINE one == {x \in A : key[x] = k}
               old == of(T)
    <2>1. IsFiniteSet(old) /\ IsFiniteSet(one) /\ old \in SUBSET S /\ one \in SUBSET S
      BY FS_Subset
    <2>2. old \cap one = {} /\ old \cup one = of(T \cup {k})
      OBVIOUS
    <2>3. SumFunctionOnSet(f, old \cup one) = SumFunctionOnSet(f, old) + SumFunctionOnSet(f, one)
      <3> HIDE DEF old, one
      <3> QED
        BY <2>1, <2>2, SumByParts
    <2>4. IsFiniteSet(T) /\ T \in SUBSET K
      BY FS_Subset
    <2>5. SumFunctionOnSet(g, T \cup {k}) = SumFunctionOnSet(g, T) + g[k]
      BY <2>4, SumSteps
    <2>6. SumFunctionOnSet(f, old) = SumFunctionOnSet(g, T) /\ SumFunctionOnSet(f, one) = g[k]
      OBVIOUS
    <2> HIDE DEF old, one
    <2>7. SumFunctionOnSet(f, of(T \cup {k})) = SumFunctionOnSet(g, T \cup {k})
      BY <2>2, <2>3, <2>5, <2>6
    <2> QED
      BY <2>7
  <1>3. K \in P
    <2> HIDE DEF P
    <2>1. P \in SUBSET SUBSET K
      BY DEF P
    <2> QED
      BY <1>1, <1>2, <2>1, SubsetInduction
  <1>4. of(K) = A
    OBVIOUS
  <1> QED
    BY <1>3, <1>4

\* To count is to sum ones.
LEMMA CountIsSum ==
    ASSUME NEW S, NEW f \in [S -> Int], NEW T \in SUBSET S, IsFiniteSet(T), \A x \in T : f[x] = 1
    PROVE  SumFunctionOnSet(f, T) = Cardinality(T)
  <1> DEFINE P == {U \in SUBSET T : SumFunctionOnSet(f, U) = Cardinality(U)}
  <1>1. {} \in P
    BY FS_EmptySet, SumSteps
  <1>2. ASSUME NEW U \in P, NEW x \in T \ U
        PROVE  U \cup {x} \in P
    <2>1. IsFiniteSet(U) /\ U \in SUBSET S
      BY FS_Subset
    <2>2. SumFunctionOnSet(f, U \cup {x}) = SumFunctionOnSet(f, U) + f[x]
      BY <2>1, SumSteps
    <2>3. Cardinality(U \cup {x}) = Cardinality(U) + 1
      BY <2>1, FS_AddElement
    <2>4. f[x] = 1
      OBVIOUS
    <2> QED
      BY <2>2, <2>3, <2>4
  <1>3. T \in P
    <2> HIDE DEF P
    <2>1. P \in SUBSET SUBSET T
      BY DEF P
    <2> QED
      BY <1>1, <1>2, <2>1, SubsetInduction
  <1> QED
    BY <1>3

\* Finite parts of X, one for each element of B, and their sizes.
Parts(B, X, part, size) ==
    /\ IsFiniteSet(B) /\ part \in [B -> SUBSET X] /\ size \in [B -> Int]
    /\ \A b \in B : IsFiniteSet(part[b]) /\ size[b] = Cardinality(part[b])

Apart(B, part) == \A b, c \in B : b # c => part[b] \cap part[c] = {}

Whole(B, part) == UNION {part[b] : b \in B}

\* The cardinality of a union of disjoint sets is the sum of theirs.
LEMMA CountByParts ==
    ASSUME NEW B, NEW X, NEW part, NEW g, Parts(B, X, part, g), Apart(B, part)
    PROVE  /\ IsFiniteSet(Whole(B, part))
           /\ Cardinality(Whole(B, part)) = SumFunctionOnSet(g, B)
  <1> USE DEF Parts, Apart, Whole
  <1> DEFINE of(T) == UNION {part[b] : b \in T}
             P == {T \in SUBSET B : IsFiniteSet(of(T)) /\ Cardinality(of(T)) = SumFunctionOnSet(g, T)}
  <1>1. {} \in P
    <2>1. of({}) = {}
      OBVIOUS
    <2>2. SumFunctionOnSet(g, {}) = 0
      BY FS_EmptySet, SumSteps
    <2> QED
      BY <2>1, <2>2, FS_EmptySet
  <1>2. ASSUME NEW T \in P, NEW k \in B \ T
        PROVE  T \cup {k} \in P
    <2> DEFINE one == part[k]
               old == of(T)
    <2>1. IsFiniteSet(old) /\ IsFiniteSet(one)
      OBVIOUS
    <2>2. old \cap one = {} /\ old \cup one = of(T \cup {k})
      OBVIOUS
    <2>3. IsFiniteSet(old \cup one) /\ Cardinality(old \cup one) = Cardinality(old) + Cardinality(one)
      <3> HIDE DEF old, one
      <3>1. IsFiniteSet(old \cup one)
            /\ Cardinality(old \cup one) = Cardinality(old) + Cardinality(one) - Cardinality(old \cap one)
        BY <2>1, FS_Union
      <3>2. Cardinality(old) \in Nat /\ Cardinality(one) \in Nat /\ Cardinality(old \cap one) = 0
        BY <2>1, <2>2, FS_CardinalityType, FS_EmptySet
      <3> QED
        BY <3>1, <3>2
    <2>4. IsFiniteSet(T) /\ T \in SUBSET B
      BY FS_Subset
    <2>5. SumFunctionOnSet(g, T \cup {k}) = SumFunctionOnSet(g, T) + g[k]
      BY <2>4, SumSteps
    <2>6. Cardinality(old) = SumFunctionOnSet(g, T) /\ Cardinality(one) = g[k]
      OBVIOUS
    <2> HIDE DEF old, one
    <2>7. IsFiniteSet(of(T \cup {k})) /\ Cardinality(of(T \cup {k})) = SumFunctionOnSet(g, T \cup {k})
      BY <2>2, <2>3, <2>5, <2>6
    <2> QED
      BY <2>7
  <1>3. B \in P
    <2> HIDE DEF P
    <2>1. P \in SUBSET SUBSET B
      BY DEF P
    <2> QED
      BY <1>1, <1>2, <2>1, SubsetInduction
  <1> QED
    BY <1>3

\* Spans that do not overlap and make up T, each without its end, and their lengths.
Covers(B, from, to, length, T) ==
    /\ IsFiniteSet(B) /\ T \in SUBSET Int
    /\ from \in [B -> Int] /\ to \in [B -> Int] /\ length \in [B -> Int]
    /\ \A b \in B : from[b] <= to[b] /\ length[b] = to[b] - from[b]
    /\ \A b, c \in B : \A k \in Int :
            from[b] <= k /\ k < to[b] /\ from[c] <= k /\ k < to[c] => b = c
    /\ \A k \in Int : k \in T <=> \E b \in B : from[b] <= k /\ k < to[b]

\* The spans sum up to the size of what they cover.
LEMMA SumOfSpans ==
    ASSUME NEW B, NEW from, NEW to, NEW g, NEW T, Covers(B, from, to, g, T)
    PROVE  SumFunction(g) = Cardinality(T)
  <1>9. /\ IsFiniteSet(B) /\ T \in SUBSET Int
        /\ from \in [B -> Int] /\ to \in [B -> Int] /\ g \in [B -> Int]
        /\ \A b \in B : from[b] <= to[b] /\ g[b] = to[b] - from[b]
        /\ \A b, c \in B : \A k \in Int :
                from[b] <= k /\ k < to[b] /\ from[c] <= k /\ k < to[c] => b = c
        /\ \A k \in Int : k \in T <=> \E b \in B : from[b] <= k /\ k < to[b]
    BY DEF Covers
  <1> DEFINE part == [b \in B |-> from[b] .. (to[b] - 1)]
  <1>1. part \in [B -> SUBSET Int]
    BY <1>9
  <1>2. ASSUME NEW b \in B
        PROVE  /\ part[b] = from[b] .. (to[b] - 1) /\ \A k \in Int : k \in part[b] <=> from[b] <= k /\ k < to[b]
               /\ IsFiniteSet(part[b]) /\ Cardinality(part[b]) = to[b] - from[b]
    <2> DEFINE x == from[b]
               y == to[b] - 1
    <2>1. x \in Int /\ to[b] \in Int /\ y \in Int /\ x <= to[b] /\ part[b] = x .. y
      BY <1>9
    <2>2. y = to[b] - 1
      OBVIOUS
    <2> HIDE DEF x, y
    <2>3. IsFiniteSet(x .. y) /\ Cardinality(x .. y) = IF x > y THEN 0 ELSE y - x + 1
      BY <2>1, FS_Interval
    <2>4. Cardinality(part[b]) = to[b] - x
      BY <2>1, <2>2, <2>3
    <2>5. \A k \in Int : k \in part[b] <=> x <= k /\ k < to[b]
      <3>1. ASSUME NEW z \in Int
            PROVE  \A k \in Int : k \in x .. (z - 1) <=> x <= k /\ k < z
        BY <2>1
      <3> QED
        BY <2>1, <2>2, <3>1
    <2> QED
      BY <2>1, <2>2, <2>3, <2>4, <2>5 DEF x
  <1> HIDE DEF part
  <1>3. \A b, c \in B : b # c => part[b] \cap part[c] = {}
    <2> SUFFICES ASSUME NEW b \in B, NEW c \in B, NEW k \in part[b], k \in part[c]
                 PROVE  b = c
      OBVIOUS
    <2>1. k \in Int
      BY <1>1
    <2> QED
      BY <1>2, <1>9, <2>1
  <1>4. \A b \in B : g[b] = Cardinality(part[b])
    BY <1>2, <1>9
  <1>8. \A b \in B : IsFiniteSet(part[b])
    BY <1>2
  <1>5. UNION {part[b] : b \in B} = T
    <2>1. \A k \in Int : k \in UNION {part[b] : b \in B} <=> k \in T
      BY <1>2, <1>9
    <2>2. UNION {part[b] : b \in B} \subseteq Int
      BY <1>1
    <2>3. T \in SUBSET Int
      BY <1>9
    <2> DEFINE U == UNION {part[b] : b \in B}
    <2> HIDE DEF U
    <2>4. U = T
      BY <2>1, <2>2, <2>3 DEF U
    <2> QED
      BY <2>4 DEF U
  <1>10. IsFiniteSet(B)
    BY <1>9
  <1>11. g \in [B -> Int]
    BY <1>9
  <1>6. Cardinality(UNION {part[b] : b \in B}) = SumFunctionOnSet(g, B)
    <2>1. /\ IsFiniteSet(UNION {part[b] : b \in B})
          /\ Cardinality(UNION {part[b] : b \in B}) = SumFunctionOnSet(g, B)
      <3>1. Parts(B, Int, part, g) /\ Apart(B, part)
        BY ONLY <1>1, <1>3, <1>4, <1>8, <1>10, <1>11 DEF Parts, Apart
      <3> QED
        BY ONLY <3>1, CountByParts DEF Whole
    <2> QED
      BY <2>1
  <1>7. SumFunction(g) = SumFunctionOnSet(g, B)
    BY <1>11, WholeSum
  <1> QED
    BY <1>5, <1>6, <1>7

\* H are the ticks at which a condition holds, not yet at `a`; up to n it begins at B and ends
\* at E, and `until` is for each begin the next end, or else n.
Periods(a, n, H, B, E, until, length) ==
    /\ a \in Nat /\ n \in Nat /\ a <= n /\ a \notin H
    /\ H \in SUBSET Nat /\ B \in SUBSET Nat /\ E \in SUBSET Nat
    /\ \A k \in Nat : k \in B <=> a < k /\ k <= n /\ k \in H /\ k - 1 \notin H
    /\ \A k \in Nat : k \in E <=> a < k /\ k <= n /\ k \notin H /\ k - 1 \in H
    /\ until \in [B -> Nat] /\ length \in [B -> Int]
    /\ \A b \in B : length[b] = until[b] - b
    /\ \A b \in B : \/ until[b] = n /\ \A e \in E : ~(b < e)
                    \/ until[b] \in E /\ b < until[b] /\ \A e \in E : b < e => until[b] <= e

\* The time from each begin of a condition to the next end of it is the time it held.
LEMMA SumOfPeriods ==
    ASSUME NEW a, NEW n, NEW H, NEW B, NEW E, NEW until, NEW g, Periods(a, n, H, B, E, until, g)
    PROVE  SumFunction(g) = Cardinality({k \in a .. n : k # n /\ k \in H})
  <1>17. /\ a \in Nat /\ n \in Nat /\ a <= n /\ a \notin H
         /\ H \in SUBSET Nat /\ B \in SUBSET Nat /\ E \in SUBSET Nat
         /\ \A k \in Nat : k \in B <=> a < k /\ k <= n /\ k \in H /\ k - 1 \notin H
         /\ \A k \in Nat : k \in E <=> a < k /\ k <= n /\ k \notin H /\ k - 1 \in H
         /\ until \in [B -> Nat] /\ g \in [B -> Int]
         /\ \A b \in B : g[b] = until[b] - b
         /\ \A b \in B : \/ until[b] = n /\ \A e \in E : ~(b < e)
                         \/ until[b] \in E /\ b < until[b] /\ \A e \in E : b < e => until[b] <= e
    BY DEF Periods
  <1> USE <1>17
  <1> DEFINE T == {k \in a .. n : k # n /\ k \in H}
             from == [b \in B |-> b]
  <1>1. IsFiniteSet(B)
    <2>1. B \subseteq 0 .. n
      OBVIOUS
    <2>2. IsFiniteSet(0 .. n)
      BY FS_Interval
    <2> QED
      BY <2>1, <2>2, FS_Subset
  <1>2. ASSUME NEW b \in B
        PROVE  from[b] = b /\ b \in Nat /\ until[b] \in Nat /\ b <= until[b] /\ until[b] <= n /\ a < b
    OBVIOUS
  <1>3. ASSUME NEW b \in B, NEW k \in Nat, b <= k, k < until[b]
        PROVE  k \in H
    <2> DEFINE gaps == {j \in b .. k : j \notin H}
    <2> SUFFICES ASSUME k \notin H
                 PROVE  FALSE
      OBVIOUS
    <2>1. gaps \in SUBSET Nat /\ gaps # {}
      BY <1>2, <1>3
    <2>2. PICK j \in gaps : \A l \in gaps : j <= l
      <3> HIDE DEF gaps
      <3> QED
        BY <2>1, LeastNatural
    <2>3. j \in b .. k /\ j \notin H /\ j # b
      OBVIOUS
    <2>4. j - 1 \in b .. k /\ j - 1 \notin gaps
      BY <1>2, <2>2, <2>3
    <2>5. j - 1 \in H
      BY <2>4
    <2>6. j \in E /\ b < j
      BY <1>2, <1>3, <2>3, <2>5
    <2>7. until[b] <= j
      BY <2>6
    <2> QED
      BY <1>2, <1>3, <2>3, <2>7
  <1>4. ASSUME NEW b \in B, NEW c \in B, NEW k \in Int, b <= k, k < until[b], c <= k, k < until[c]
        PROVE  b = c
    <2>1. ASSUME NEW x \in B, NEW y \in B, x <= k, k < until[x], y <= k, k < until[y], x < y
          PROVE  FALSE
      <3>1. y - 1 \in Nat /\ x <= y - 1 /\ y - 1 < until[x]
        BY <1>2, <2>1
      <3>2. y - 1 \in H
        BY <1>3, <3>1
      <3> QED
        BY <3>2
    <2>2. b \in Nat /\ c \in Nat
      OBVIOUS
    <2> QED
      BY <1>4, <2>1, <2>2
  <1>5. ASSUME NEW k \in T
        PROVE  \E b \in B : b <= k /\ k < until[b]
    <2> DEFINE gaps == {j \in a .. k : j \notin H}
    <2>1. k \in Nat /\ a <= k /\ k < n /\ k \in H
      OBVIOUS
    <2>2. gaps \in SUBSET Int /\ gaps # {} /\ IsFiniteSet(gaps)
      <3>1. a \in gaps
        BY <2>1
      <3>2. IsFiniteSet(a .. k)
        BY <2>1, FS_Interval
      <3>3. IsFiniteSet(gaps)
        BY <3>2, FS_Subset
      <3> QED
        BY <3>1, <3>3
    <2>3. PICK j \in gaps : \A l \in gaps : l <= j
      <3> HIDE DEF gaps
      <3> QED
        BY <2>2, GreatestInteger
    <2>4. j \in a .. k /\ j \notin H /\ j # k
      BY <2>1
    <2> DEFINE b == j + 1
    <2>5. b \in a .. k /\ b \in Nat /\ b - 1 = j /\ a < b /\ b <= n /\ \A l \in b .. k : l \in H
      <3>1. b \in a .. k /\ b \in Nat /\ b - 1 = j /\ a < b /\ b <= n
        BY <2>1, <2>4
      <3>2. ASSUME NEW l \in b .. k
            PROVE  l \in H
        <4>1. l \in a .. k /\ ~(l <= j)
          BY <2>1, <2>4
        <4> QED
          BY <2>3, <4>1
      <3> QED
        BY <3>1, <3>2
    <2> HIDE DEF b
    <2>6. b \in H /\ b - 1 \notin H
      BY <2>1, <2>4, <2>5
    <2>7. b \in B
      BY <2>5, <2>6
    <2>8. k < until[b]
      <3>1. CASE until[b] = n
        BY <2>1, <3>1
      <3>2. CASE until[b] \in E /\ b < until[b]
        <4>1. until[b] \notin H /\ until[b] \in Nat
          BY <3>2
        <4>2. until[b] \notin b .. k
          BY <2>5, <4>1
        <4> QED
          BY <2>1, <2>5, <3>2, <4>1, <4>2
      <3> QED
        BY <2>7, <3>1, <3>2
    <2> QED
      BY <2>5, <2>7, <2>8
  <1>6. \A k \in Int : k \in T <=> \E b \in B : b <= k /\ k < until[b]
    <2> SUFFICES ASSUME NEW k \in Int, NEW b \in B, b <= k, k < until[b]
                 PROVE  k \in T
      BY <1>5
    <2>1. k \in Nat /\ a <= k /\ k < n
      BY <1>2
    <2>2. k \in H
      BY <1>3, <2>1
    <2> QED
      BY <2>1, <2>2
  <1>7. T \in SUBSET Int
    OBVIOUS
  <1>14. from \in [B -> Int]
    OBVIOUS
  <1>15. until \in [B -> Int]
    OBVIOUS
  <1>8. \A b \in B : from[b] = b /\ from[b] <= until[b] /\ g[b] = until[b] - from[b]
    BY <1>2
  <1> HIDE DEF T, from
  <1>10. \A b \in B : from[b] <= until[b]
    BY <1>8
  <1>11. \A b \in B : g[b] = until[b] - from[b]
    BY <1>8
  <1>12. \A b, c \in B : \A k \in Int :
            from[b] <= k /\ k < until[b] /\ from[c] <= k /\ k < until[c] => b = c
    BY <1>4, <1>8
  <1>13. \A k \in Int : k \in T <=> \E b \in B : from[b] <= k /\ k < until[b]
    BY <1>6, <1>8
  <1>16. Covers(B, from, until, g, T)
    BY <1>1, <1>7, <1>10, <1>11, <1>12, <1>13, <1>14, <1>15 DEF Covers
  <1>9. SumFunction(g) = Cardinality(T)
    BY <1>16, SumOfSpans
  <1> QED
    BY <1>9 DEF T

\* What is not negative sums up to no less than 0.
LEMMA SumOfNaturals ==
    ASSUME NEW S, NEW f \in [S -> Int], NEW T \in SUBSET S, IsFiniteSet(T), \A x \in T : 0 <= f[x]
    PROVE  SumFunctionOnSet(f, T) \in Nat
  <1> DEFINE zero == [x \in S |-> 0]
  <1>1. zero \in [S -> Int] /\ \A x \in T : zero[x] = 0
    OBVIOUS
  <1>2. \A x \in T : zero[x] <= f[x]
    BY <1>1
  <1> HIDE DEF zero
  <1>3. SumFunctionOnSet(zero, T) <= SumFunctionOnSet(f, T)
    BY <1>1, <1>2, SumsAreOrdered
  <1>4. SumFunctionOnSet(zero, T) = 0
    BY <1>1, SumOfZeros
  <1>5. SumFunctionOnSet(f, T) \in Int
    BY SumSteps
  <1> QED
    BY <1>3, <1>4, <1>5

\* What is not negative sums up to more over more.
LEMMA SumGrows ==
    ASSUME NEW S, NEW f \in [S -> Nat], IsFiniteSet(S), NEW T \in SUBSET S,
           NEW g \in [T -> Nat], \A x \in T : f[x] = g[x]
    PROVE  SumFunction(g) \in Nat /\ SumFunction(f) \in Nat /\ SumFunction(g) <= SumFunction(f)
  <1> DEFINE rest == S \ T
  <1>1. f \in [S -> Int] /\ g \in [T -> Int] /\ rest \in SUBSET S /\ T \cap rest = {} /\ T \cup rest = S
    OBVIOUS
  <1>2. IsFiniteSet(T) /\ IsFiniteSet(rest)
    BY FS_Subset
  <1>3. (\A x \in T : 0 <= f[x]) /\ \A x \in rest : 0 <= f[x]
    OBVIOUS
  <1> HIDE DEF rest
  <1>4. SumFunctionOnSet(f, T) \in Nat /\ SumFunctionOnSet(f, rest) \in Nat
    BY <1>1, <1>2, <1>3, SumOfNaturals
  <1>5. SumFunctionOnSet(f, T \cup rest) = SumFunctionOnSet(f, T) + SumFunctionOnSet(f, rest)
    BY <1>1, <1>2, SumByParts
  <1>6. SumFunctionOnSet(f, T) = SumFunctionOnSet(g, T)
    BY <1>1, <1>2, SumsAgree
  <1>7. SumFunction(f) = SumFunctionOnSet(f, S) /\ SumFunction(g) = SumFunctionOnSet(g, T)
    BY <1>1, WholeSum
  <1>8. SumFunction(f) = SumFunction(g) + SumFunctionOnSet(f, rest)
    BY <1>1, <1>5, <1>6, <1>7
  <1>9. SumFunction(g) \in Nat
    BY <1>4, <1>6, <1>7
  <1> QED
    BY <1>4, <1>8, <1>9

\* The cardinality of a union is at most the sum of those of the parts.
LEMMA CountOfUnion ==
    ASSUME NEW B, NEW X, NEW part, NEW g, Parts(B, X, part, g)
    PROVE  /\ IsFiniteSet(Whole(B, part))
           /\ Cardinality(Whole(B, part)) <= SumFunctionOnSet(g, B)
  <1> USE DEF Parts, Whole
  <1> DEFINE of(T) == UNION {part[b] : b \in T}
             P == {T \in SUBSET B : IsFiniteSet(of(T)) /\ Cardinality(of(T)) <= SumFunctionOnSet(g, T)}
  <1>1. {} \in P
    <2>1. of({}) = {}
      OBVIOUS
    <2>2. SumFunctionOnSet(g, {}) = 0 /\ Cardinality({}) = 0
      BY FS_EmptySet, SumSteps
    <2> QED
      BY <2>1, <2>2, FS_EmptySet
  <1>2. ASSUME NEW T \in P, NEW k \in B \ T
        PROVE  T \cup {k} \in P
    <2> DEFINE one == part[k]
               old == of(T)
    <2>1. IsFiniteSet(old) /\ IsFiniteSet(one)
      OBVIOUS
    <2>2. old \cup one = of(T \cup {k})
      OBVIOUS
    <2>3. IsFiniteSet(old \cup one) /\ Cardinality(old \cup one) <= Cardinality(old) + Cardinality(one)
          /\ Cardinality(old) \in Nat /\ Cardinality(one) \in Nat /\ Cardinality(old \cup one) \in Nat
      <3> HIDE DEF old, one
      <3>1. IsFiniteSet(old \cup one)
        BY <2>1, FS_Union
      <3>2. Cardinality(old \cup one) = Cardinality(old) + Cardinality(one) - Cardinality(old \cap one)
        BY <2>1, FS_Union
      <3>3. IsFiniteSet(old \cap one)
        BY <2>1, FS_Subset
      <3>4. Cardinality(old) \in Nat /\ Cardinality(one) \in Nat /\ Cardinality(old \cap one) \in Nat
            /\ Cardinality(old \cup one) \in Nat
        BY <2>1, <3>1, <3>3, FS_CardinalityType
      <3> QED
        BY <3>1, <3>2, <3>4
    <2>4. IsFiniteSet(T) /\ T \in SUBSET B
      BY FS_Subset
    <2>5. SumFunctionOnSet(g, T \cup {k}) = SumFunctionOnSet(g, T) + g[k] /\ SumFunctionOnSet(g, T) \in Int
      BY <2>4, SumSteps
    <2>6. Cardinality(old) <= SumFunctionOnSet(g, T) /\ Cardinality(one) = g[k] /\ g[k] \in Int
      OBVIOUS
    <2> HIDE DEF old, one
    <2>7. Cardinality(old) + Cardinality(one) <= SumFunctionOnSet(g, T) + g[k]
      BY <2>3, <2>5, <2>6
    <2>8. SumFunctionOnSet(g, T) + g[k] \in Int
      BY <2>5, <2>6
    <2>9. Cardinality(old \cup one) <= SumFunctionOnSet(g, T \cup {k})
      BY ONLY <2>3, <2>5, <2>7, <2>8
    <2>10. IsFiniteSet(of(T \cup {k})) /\ Cardinality(of(T \cup {k})) <= SumFunctionOnSet(g, T \cup {k})
      BY <2>2, <2>3, <2>9
    <2> QED
      BY <2>10
  <1>3. B \in P
    <2> HIDE DEF P
    <2>1. P \in SUBSET SUBSET B
      BY DEF P
    <2> QED
      BY <1>1, <1>2, <2>1, SubsetInduction
  <1> QED
    BY <1>3

\* What is not negative sums up to 0 only if it is 0.
LEMMA SumIsZero ==
    ASSUME NEW S, NEW f \in [S -> Int], NEW T \in SUBSET S, IsFiniteSet(T), \A x \in T : 0 <= f[x]
    PROVE  SumFunctionOnSet(f, T) = 0 <=> \A x \in T : f[x] = 0
  <1>1. ASSUME NEW x \in T, f[x] # 0
        PROVE  SumFunctionOnSet(f, T) # 0
    <2> DEFINE U == T \ {x}
    <2>1. U \in SUBSET S /\ x \in S \ U /\ U \cup {x} = T /\ \A y \in U : 0 <= f[y]
      OBVIOUS
    <2>2. IsFiniteSet(U)
      BY FS_Subset
    <2> HIDE DEF U
    <2>3. SumFunctionOnSet(f, U \cup {x}) = SumFunctionOnSet(f, U) + f[x]
      BY <2>1, <2>2, SumSteps
    <2>4. SumFunctionOnSet(f, U) \in Nat
      BY <2>1, <2>2, SumOfNaturals
    <2>5. f[x] \in Int /\ f[x] > 0
      BY <1>1
    <2>6. SumFunctionOnSet(f, U) + f[x] # 0
      BY <2>4, <2>5
    <2> QED
      BY <2>1, <2>3, <2>6
  <1>2. (\A x \in T : f[x] = 0) => SumFunctionOnSet(f, T) = 0
    BY SumOfZeros
  <1> QED
    BY <1>1, <1>2

\* How many elements of S have each key of K.
Counts(count, K, S, key) == count = [k \in K |-> Cardinality({x \in S : key[x] = k})]

KeyedUpTo(n, S, key) == {x \in S : key[x] <= n}

\* What is counted for each number up to n adds up.
LEMMA CountUpTo ==
    ASSUME NEW S, IsFiniteSet(S), NEW key \in [S -> Nat], NEW n \in Nat,
           NEW count, Counts(count, 0 .. n, S, key)
    PROVE  /\ count \in [0 .. n -> Int]
           /\ SumFunctionOnSet(count, 0 .. n) = Cardinality(KeyedUpTo(n, S, key))
  <1> DEFINE B == 0 .. n
             part == [k \in B |-> {x \in S : key[x] = k}]
  <1> USE DEF Counts, KeyedUpTo
  <1>1. IsFiniteSet(B)
    BY FS_Interval
  <1>2. part \in [B -> SUBSET S]
    OBVIOUS
  <1>3. \A b, c \in B : b # c => part[b] \cap part[c] = {}
    OBVIOUS
  <1>4. UNION {part[k] : k \in B} = {x \in S : key[x] <= n}
    OBVIOUS
  <1>5. \A k \in B : count[k] = Cardinality(part[k]) /\ DOMAIN count = B
    OBVIOUS
  <1>6. count = [k \in B |-> count[k]]
    OBVIOUS
  <1> HIDE DEF part, B
  <1>7. \A k \in B : IsFiniteSet(part[k]) /\ Cardinality(part[k]) \in Nat
    BY <1>2, FS_Subset, FS_CardinalityType
  <1>8. count \in [B -> Int]
    BY ONLY <1>5, <1>6, <1>7
  <1>9. Cardinality(UNION {part[k] : k \in B}) = SumFunctionOnSet(count, B)
    <2>1. Parts(B, S, part, count) /\ Apart(B, part)
      BY ONLY <1>1, <1>2, <1>3, <1>5, <1>7, <1>8 DEF Parts, Apart
    <2> QED
      BY ONLY <2>1, CountByParts DEF Whole
  <1> QED
    BY <1>4, <1>8, <1>9 DEF B

\* A condition that does not hold at `a` began once more than it ended if it holds at n, and
\* else as often.
LEMMA BeginsLessEnds ==
    ASSUME NEW a \in Nat, NEW n \in Nat, a <= n, NEW H, a \notin H
    PROVE  LET begins == {k \in (a + 1) .. n : k \in H /\ k - 1 \notin H}
               ends == {k \in (a + 1) .. n : k \notin H /\ k - 1 \in H}
           IN  /\ IsFiniteSet(begins) /\ IsFiniteSet(ends)
               /\ Cardinality(begins) - Cardinality(ends) = IF n \in H THEN 1 ELSE 0
  <1> DEFINE begins(m) == {k \in (a + 1) .. m : k \in H /\ k - 1 \notin H}
             ends(m) == {k \in (a + 1) .. m : k \notin H /\ k - 1 \in H}
             Good(m) == Cardinality(begins(m)) - Cardinality(ends(m)) = IF m \in H THEN 1 ELSE 0
             Bad == {m \in Nat : a <= m /\ ~Good(m)}
  <1>1. \A m \in Nat : /\ IsFiniteSet(begins(m)) /\ IsFiniteSet(ends(m))
                       /\ Cardinality(begins(m)) \in Nat /\ Cardinality(ends(m)) \in Nat
    <2> TAKE m \in Nat
    <2>1. IsFiniteSet((a + 1) .. m)
      BY FS_Interval
    <2>2. begins(m) \in SUBSET ((a + 1) .. m) /\ ends(m) \in SUBSET ((a + 1) .. m)
      OBVIOUS
    <2> HIDE DEF begins, ends
    <2>3. IsFiniteSet(begins(m)) /\ IsFiniteSet(ends(m))
      BY <2>1, <2>2, FS_Subset
    <2> QED
      BY <2>3, FS_CardinalityType
  <1>2. SUFFICES ASSUME Bad # {}
                 PROVE  FALSE
    BY <1>1
  <1>3. PICK m \in Bad : \A k \in Bad : m <= k
    <2>1. Bad \in SUBSET Nat
      OBVIOUS
    <2> HIDE DEF Bad
    <2> QED
      BY <1>2, <2>1, LeastNatural
  <1>4. m \in Nat /\ a <= m /\ ~Good(m)
    OBVIOUS
  <1>5. Good(a)
    <2>1. begins(a) = {} /\ ends(a) = {}
      OBVIOUS
    <2> HIDE DEF begins, ends
    <2> QED
      BY <2>1, FS_EmptySet
  <1> DEFINE l == m - 1
  <1>6. l \in Nat /\ a <= l /\ l < m
    <2>1. m # a
      BY <1>4, <1>5
    <2> QED
      BY <1>4, <2>1
  <1>7. Good(l)
    <2>1. ~(l \in Bad)
      <3> HIDE DEF Bad
      <3> QED
        BY <1>3, <1>4, <1>6
    <2> HIDE DEF l, Good
    <2> QED
      BY <1>6, <2>1
  <1>8. /\ begins(m) = IF m \in H /\ l \notin H THEN begins(l) \cup {m} ELSE begins(l)
        /\ ends(m) = IF m \notin H /\ l \in H THEN ends(l) \cup {m} ELSE ends(l)
        /\ m \notin begins(l) /\ m \notin ends(l)
    BY <1>4, <1>6
  <1> HIDE DEF begins, ends, l
  <1>9. /\ Cardinality(begins(l) \cup {m}) = Cardinality(begins(l)) + 1
        /\ Cardinality(ends(l) \cup {m}) = Cardinality(ends(l)) + 1
    BY <1>1, <1>6, <1>8, FS_AddElement
  <1>10. Good(m)
    BY <1>1, <1>4, <1>6, <1>7, <1>8, <1>9
  <1> QED
    BY <1>4, <1>10

\* The sum of 1 for each member of N, and 0 else, is their number.
LEMMA SumOfMembers ==
    ASSUME NEW S, IsFiniteSet(S), NEW N \in SUBSET S, NEW h \in [S -> Int],
           \A x \in S : h[x] = IF x \in N THEN 1 ELSE 0
    PROVE  SumFunctionOnSet(h, S) = Cardinality(N)
  <1> DEFINE P == {U \in SUBSET S : SumFunctionOnSet(h, U) = Cardinality(U \cap N)}
  <1>1. {} \in P
    <2>1. {} \cap N = {}
      OBVIOUS
    <2> QED
      BY <2>1, FS_EmptySet, SumSteps
  <1>2. ASSUME NEW U \in P, NEW x \in S \ U
        PROVE  U \cup {x} \in P
    <2>1. IsFiniteSet(U) /\ U \in SUBSET S
      BY FS_Subset
    <2>2. SumFunctionOnSet(h, U \cup {x}) = SumFunctionOnSet(h, U) + h[x]
      BY <2>1, SumSteps
    <2> DEFINE V == U \cap N
    <2>3. IsFiniteSet(V) /\ x \notin V /\ SumFunctionOnSet(h, U) = Cardinality(V)
      BY <2>1, FS_Subset
    <2>4. (U \cup {x}) \cap N = IF x \in N THEN V \cup {x} ELSE V
      OBVIOUS
    <2> HIDE DEF V
    <2>5. Cardinality(V \cup {x}) = Cardinality(V) + 1 /\ Cardinality(V) \in Nat
      BY <2>3, FS_AddElement, FS_CardinalityType
    <2>6. h[x] = IF x \in N THEN 1 ELSE 0
      OBVIOUS
    <2>7. CASE x \in N
      BY <2>2, <2>3, <2>4, <2>5, <2>6, <2>7
    <2>8. CASE x \notin N
      <3>1. (U \cup {x}) \cap N = V /\ h[x] = 0
        BY <2>4, <2>6, <2>8
      <3>2. SumFunctionOnSet(h, U \cup {x}) = Cardinality(V)
        BY <2>2, <2>3, <2>5, <3>1
      <3> QED
        BY <3>1, <3>2
    <2> QED
      BY <2>7, <2>8
  <1>3. S \in P
    <2>1. P \in SUBSET SUBSET S
      OBVIOUS
    <2> HIDE DEF P
    <2> QED
      BY <1>1, <1>2, <2>1, SubsetInduction
  <1>4. S \cap N = N
    OBVIOUS
  <1> QED
    BY <1>3, <1>4

\* What is counted for each key adds up.
LEMMA CountByKey ==
    ASSUME NEW S, IsFiniteSet(S), NEW K, IsFiniteSet(K), NEW key \in [S -> K],
           NEW count, Counts(count, K, S, key)
    PROVE  /\ count \in [K -> Int]
           /\ SumFunctionOnSet(count, K) = Cardinality(S)
  <1> DEFINE part == [k \in K |-> {x \in S : key[x] = k}]
  <1> USE DEF Counts
  <1>1. part \in [K -> SUBSET S]
    OBVIOUS
  <1>2. \A b, c \in K : b # c => part[b] \cap part[c] = {}
    OBVIOUS
  <1>3. UNION {part[k] : k \in K} = S
    OBVIOUS
  <1>4. \A k \in K : count[k] = Cardinality(part[k])
    OBVIOUS
  <1>5. count = [k \in K |-> count[k]]
    OBVIOUS
  <1> HIDE DEF part
  <1>6. \A k \in K : IsFiniteSet(part[k])
    BY <1>1, FS_Subset
  <1>7. count \in [K -> Int]
    BY <1>4, <1>5, <1>6, FS_CardinalityType
  <1>8. Cardinality(UNION {part[k] : k \in K}) = SumFunctionOnSet(count, K)
    <2>1. Parts(K, S, part, count) /\ Apart(K, part)
      BY ONLY IsFiniteSet(K), <1>1, <1>2, <1>4, <1>6, <1>7 DEF Parts, Apart
    <2> QED
      BY ONLY <2>1, CountByParts DEF Whole
  <1> QED
    BY <1>3, <1>7, <1>8

\* Rows with times of their own, one for each time in T, are as many.
LEMMA RowsAreTicks ==
    ASSUME NEW S, NEW T, IsFiniteSet(T), \A r \in S : r.at \in T,
           \A r, s \in S : r.at = s.at => r = s,
           \A k \in T : \E r \in S : r.at = k
    PROVE  IsFiniteSet(S) /\ Cardinality(S) = Cardinality(T)
  <1> DEFINE f == [r \in S |-> r.at]
  <1>1. f \in [S -> T]
    OBVIOUS
  <1>2. \A r, s \in S : f[r] = f[s] => r = s
    OBVIOUS
  <1>3. \A k \in T : \E r \in S : f[r] = k
    OBVIOUS
  <1> HIDE DEF f
  <1>4. f \in Bijection(S, T)
    BY <1>1, <1>2, <1>3, Fun_IsBij
  <1>5. ExistsBijection(T, S)
    BY <1>4, Fun_ExistsBijSymmetric DEF ExistsBijection
  <1> QED
    BY <1>5, FS_Bijection

\* Of rows with times of their own there is one that is first.
LEMMA FirstIsOne ==
    ASSUME NEW S, \A r \in S : r.at \in Nat, \A r, s \in S : r.at = s.at => r = s
    PROVE  LET first == {r \in S : \A s \in S : r.at <= s.at}
           IN  IsFiniteSet(first) /\ Cardinality(first) = IF S = {} THEN 0 ELSE 1
  <1> DEFINE first == {r \in S : \A s \in S : r.at <= s.at}
             times == {r.at : r \in S}
  <1>1. CASE S = {}
    <2>1. first = {}
      BY <1>1
    <2> QED
      BY <1>1, <2>1, FS_EmptySet
  <1>2. CASE S # {}
    <2>1. times \in SUBSET Nat /\ times # {}
      BY <1>2
    <2>2. PICK k \in times : \A l \in times : k <= l
      <3> HIDE DEF times
      <3> QED
        BY <2>1, LeastNatural
    <2>3. PICK r \in S : r.at = k
      OBVIOUS
    <2>4. first = {r}
      <3>1. r \in first
        BY <2>2, <2>3
      <3>2. ASSUME NEW s \in first
            PROVE  s = r
        <4>1. s.at <= r.at /\ r.at <= s.at /\ s.at \in Nat /\ r.at \in Nat
          BY <3>1
        <4>2. s.at = r.at
          BY <4>1
        <4> QED
          BY <4>2
      <3> HIDE DEF first
      <3> QED
        BY <3>1, <3>2
    <2>5. IsFiniteSet({r}) /\ Cardinality({r}) = 1
      BY FS_Singleton
    <2> HIDE DEF first
    <2>6. IsFiniteSet(first) /\ Cardinality(first) = 1
      BY <2>4, <2>5
    <2> QED
      BY <1>2, <2>6 DEF first
  <1> QED
    BY <1>1, <1>2

\* Between a number in H and a greater one that is not there is a first one that is not.
LEMMA EndsBetween ==
    ASSUME NEW H, NEW a \in Nat, NEW b \in Nat, a <= b, a \in H, b \notin H
    PROVE  \E k \in (a + 1) .. b : k \notin H /\ k - 1 \in H
  <1> DEFINE out == {k \in a .. b : k \notin H}
  <1>1. out \in SUBSET Nat /\ b \in out
    OBVIOUS
  <1>2. PICK k \in out : \A l \in out : k <= l
    BY <1>1, LeastNatural
  <1>3. k - 1 \in a .. b /\ a < k /\ k <= b
    OBVIOUS
  <1>4. k - 1 \in H
    BY <1>2, <1>3
  <1> QED
    BY <1>2, <1>3, <1>4

\* And the other way round.
LEMMA BeginsBetween ==
    ASSUME NEW H, NEW a \in Nat, NEW b \in Nat, a <= b, a \notin H, b \in H
    PROVE  \E k \in (a + 1) .. b : k \in H /\ k - 1 \notin H
  <1> DEFINE G == Nat \ H
  <1>1. a \in G /\ b \notin G
    OBVIOUS
  <1> HIDE DEF G
  <1>2. PICK k \in (a + 1) .. b : k \notin G /\ k - 1 \in G
    BY <1>1, EndsBetween
  <1>3. k \in Nat
    OBVIOUS
  <1> QED
    BY <1>2, <1>3 DEF G

\* Three different elements are more than two.
LEMMA ThreeAreMore ==
    ASSUME NEW S, IsFiniteSet(S), NEW x \in S, NEW y \in S, NEW z \in S, x # y, y # z, x # z
    PROVE  ~(Cardinality(S) <= 2)
  <1> DEFINE one == {x}
             two == one \cup {y}
             three == two \cup {z}
  <1>1. IsFiniteSet(one) /\ Cardinality(one) = 1
    BY FS_Singleton
  <1>2. IsFiniteSet(two) /\ Cardinality(two) = 2
    <2>1. y \notin one
      OBVIOUS
    <2> HIDE DEF one
    <2>2. IsFiniteSet(one \cup {y}) /\ Cardinality(one \cup {y}) = Cardinality(one) + 1
      BY <1>1, <2>1, FS_AddElement
    <2> QED
      BY <1>1, <2>2
  <1>3. IsFiniteSet(three) /\ Cardinality(three) = 3
    <2>1. z \notin two
      OBVIOUS
    <2> HIDE DEF two
    <2>2. IsFiniteSet(two \cup {z}) /\ Cardinality(two \cup {z}) = Cardinality(two) + 1
      BY <1>2, <2>1, FS_AddElement
    <2> QED
      BY <1>2, <2>2
  <1>4. three \in SUBSET S
    OBVIOUS
  <1> HIDE DEF three
  <1>5. Cardinality(three) <= Cardinality(S) /\ Cardinality(S) \in Nat
    BY <1>4, FS_Subset, FS_CardinalityType
  <1> QED
    BY <1>3, <1>5
================================================================================
