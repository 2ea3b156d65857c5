----------------------------- MODULE RawSyncProofs -----------------------------
(****************************************************************************)
(* Proofs about module RawSync, for any number of issues and updates, any   *)
(* page size and lookback.                                                  *)
(*                                                                          *)
(* What the load has read is the part of the result up to its position, and *)
(* an update moves an issue behind it (LoadInv): that is why a reordered    *)
(* result loses nothing. What the cleanup has read is the part of the ids   *)
(* up to startAt, as long as no issue that it started with is deleted, since*)
(* new ids come last (CleanupInv).                                          *)
(****************************************************************************)
EXTENDS RawSync, Aggregates

Ids == [i \in Issues |-> i]

SyncType ==
    [pc : {"idle", "fetch", "load"}, from : 0 .. now, began : 0 .. now, pos : Nat,
     attempt : 0 .. 2, rows : [Synced -> SUBSET (1 .. now)]]

CleanupType ==
    [pc : {"idle", "fetch", "count", "select", "delete"}, startAt : Nat,
     ids : SUBSET (1 .. created), live : SUBSET (1 .. created), ghosts : SUBSET (1 .. created)]

\* Whatever was read or loaded has been created; no two issues were updated at a time.
TypeInv ==
    /\ now \in 0 .. MaxTime /\ created \in 0 .. MaxIssue
    /\ jira \in [Issues -> 0 .. now] /\ Live \subseteq 1 .. created
    /\ \A i, j \in Live : jira[i] = jira[j] => i = j
    /\ raw \in [Issues -> 0 .. now] /\ InRaw \subseteq Synced \cap (1 .. created)
    /\ cursor \in 0 .. now
    /\ sync \in SyncType /\ cleanup \in CleanupType
    /\ \A i \in Synced : sync.rows[i] # {} => i \in 1 .. created

\* The load starts from the watermark and has read, of every issue that was updated after
\* it, the versions up to its position; of an issue that nobody has touched since it began,
\* no other. After the last page that is all there was when it began.
LoadInv ==
    sync.pc # "idle" =>
        /\ sync.from = cursor /\ sync.pos <= now
        /\ \A i \in Synced :
            /\ sync.rows[i] \subseteq 1 .. sync.pos
            /\ i \in Live =>
                /\ sync.from < jira[i] /\ jira[i] <= sync.pos => jira[i] \in sync.rows[i]
                /\ jira[i] <= sync.began => sync.rows[i] \subseteq {jira[i]}
                /\ sync.pc = "load" /\ sync.from < jira[i] /\ jira[i] <= sync.began =>
                        jira[i] \in sync.rows[i]

\* If what was there when the cleanup began still is, everything else has a greater id; the
\* ids read are those of the first startAt places, and in the end all.
CleanupInv ==
    cleanup.pc # "idle" /\ cleanup.live \subseteq Live =>
        /\ \A i \in Live \ cleanup.live, j \in cleanup.live : j < i
        /\ cleanup.pc = "fetch" => \A i \in cleanup.live :
                Rank(i, cleanup.live, Ids) <= cleanup.startAt => i \in cleanup.ids
        /\ cleanup.pc \in {"count", "select"} => cleanup.live \subseteq cleanup.ids
        /\ cleanup.pc = "delete" => cleanup.live \cap cleanup.ghosts = {}

-----------------------------------------------------------------------------
\* Keys that order a result.
Orders(key, result) ==
    /\ \A i \in result : key[i] \in Nat
    /\ \A i, j \in result : key[i] = key[j] => i = j

\* Places start at 1 and end with the size of the result.
LEMMA RankIsAPlace ==
    ASSUME NEW S, IsFiniteSet(S), NEW key, Orders(key, S), NEW i \in S
    PROVE  Rank(i, S, key) \in 1 .. Cardinality(S) /\ Cardinality(S) \in Nat
  <1> DEFINE upTo == {j \in S : key[j] <= key[i]}
  <1>1. IsFiniteSet(upTo) /\ Cardinality(upTo) <= Cardinality(S) /\ upTo # {}
    BY FS_Subset DEF Orders
  <1>2. Cardinality(upTo) \in Nat /\ Cardinality(S) \in Nat /\ Cardinality(upTo) # 0
    BY <1>1, FS_CardinalityType, FS_EmptySet
  <1> QED
    BY <1>1, <1>2 DEF Rank

\* The places are in the order of the keys.
LEMMA RankFollowsKey ==
    ASSUME NEW S, IsFiniteSet(S), NEW key, Orders(key, S), NEW i \in S, NEW j \in S,
           key[i] < key[j]
    PROVE  Rank(i, S, key) < Rank(j, S, key)
  <1> DEFINE upTo(k) == {x \in S : key[x] <= key[k]}
  <1>1. upTo(i) \subseteq upTo(j) \ {j} /\ j \in upTo(j)
    BY DEF Orders
  <1>2. IsFiniteSet(upTo(j)) /\ Cardinality(upTo(j)) \in Nat
    BY FS_Subset, FS_CardinalityType
  <1>3. /\ IsFiniteSet(upTo(j) \ {j})
        /\ Cardinality(upTo(j) \ {j}) = Cardinality(upTo(j)) - 1
    BY <1>1, <1>2, FS_RemoveElement
  <1>4. Cardinality(upTo(i)) <= Cardinality(upTo(j) \ {j}) /\ Cardinality(upTo(i)) \in Nat
    BY <1>1, <1>3, FS_Subset, FS_CardinalityType
  <1> QED
    BY <1>2, <1>3, <1>4 DEF Rank

LEMMA RankTellsApart ==
    ASSUME NEW S, IsFiniteSet(S), NEW key, Orders(key, S), NEW i \in S, NEW j \in S
    PROVE  /\ Rank(i, S, key) = Rank(j, S, key) => i = j
           /\ Rank(i, S, key) < Rank(j, S, key) <=> key[i] < key[j]
  <1>1. Rank(i, S, key) \in Nat /\ Rank(j, S, key) \in Nat
    BY RankIsAPlace
  <1>2. key[i] \in Nat /\ key[j] \in Nat /\ (key[i] = key[j] => i = j)
    BY DEF Orders
  <1>3. key[i] < key[j] => Rank(i, S, key) < Rank(j, S, key)
    BY RankFollowsKey
  <1>4. key[j] < key[i] => Rank(j, S, key) < Rank(i, S, key)
    BY RankFollowsKey
  <1> QED
    BY <1>1, <1>2, <1>3, <1>4

\* As many issues as have places between two numbers fit between them.
LEMMA PlacesFit ==
    ASSUME NEW S, IsFiniteSet(S), NEW key, Orders(key, S), NEW T \in SUBSET S,
           NEW a \in Nat, NEW n \in Nat,
           \A i \in T : a < Rank(i, S, key) /\ Rank(i, S, key) <= a + n
    PROVE  IsFiniteSet(T) /\ Cardinality(T) \in Nat /\ Cardinality(T) <= n
  <1> DEFINE f == [i \in T |-> Rank(i, S, key) - a]
  <1>1. IsFiniteSet(T) /\ Cardinality(T) \in Nat
    BY FS_Subset, FS_CardinalityType
  <1>2. \A i \in T : Rank(i, S, key) \in Nat
    BY RankIsAPlace
  <1>3. f \in [T -> 1 .. n]
    BY <1>2
  <1>4. \A i, j \in T : f[i] = f[j] => i = j
    BY <1>2, RankTellsApart
  <1>5. f \in Injection(T, 1 .. n)
    BY <1>3, <1>4 DEF Injection, IsInjective
  <1>6. IsFiniteSet(1 .. n) /\ Cardinality(1 .. n) = n
    BY FS_Interval
  <1> QED
    BY <1>1, <1>5, <1>6, FS_Injection

\* A page has at most PageSize issues; all, if there are no more.
LEMMA PageFits ==
    ASSUME NEW S, IsFiniteSet(S), NEW key, Orders(key, S), NEW start \in Nat
    PROVE  LET page == PageOf(S, key, start)
           IN  /\ IsFiniteSet(page) /\ Cardinality(page) \in Nat
               /\ Cardinality(page) <= PageSize
               /\ Cardinality(S) <= PageSize /\ start = 0 => page = S
  <1> PageSize \in Nat
    BY RawSyncAssumption
  <1>1. Cardinality(S) <= PageSize /\ start = 0 => PageOf(S, key, start) = S
    <2> SUFFICES ASSUME Cardinality(S) <= PageSize, start = 0, NEW i \in S
                 PROVE  i \in PageOf(S, key, start)
      BY DEF PageOf
    <2>1. Rank(i, S, key) \in 1 .. Cardinality(S) /\ Cardinality(S) \in Nat
      BY RankIsAPlace
    <2> QED
      BY <2>1 DEF PageOf
  <1>2. /\ PageOf(S, key, start) \in SUBSET S
        /\ \A i \in PageOf(S, key, start) : /\ start < Rank(i, S, key)
                                            /\ Rank(i, S, key) <= start + PageSize
    BY DEF PageOf
  <1> QED
    BY <1>1, <1>2, PlacesFit

\* A page is empty only if nothing comes after `start` places.
LEMMA EmptyPageIsTheEnd ==
    ASSUME NEW S, IsFiniteSet(S), NEW key, Orders(key, S), NEW start \in Nat,
           PageOf(S, key, start) = {}, NEW i \in S
    PROVE  Rank(i, S, key) <= start
  <1> PageSize \in Nat \ {0}
    BY RawSyncAssumption
  <1> DEFINE after == {j \in S : start < Rank(j, S, key)}
             places == {Rank(j, S, key) : j \in after}
  <1>1. \A j \in S : Rank(j, S, key) \in Nat
    BY RankIsAPlace
  <1>2. SUFFICES ASSUME i \in after
                 PROVE  FALSE
    BY <1>1
  <1>3. PICK r \in places : \A x \in places : r <= x
    <2>1. places \in SUBSET Nat /\ places # {}
      BY <1>1, <1>2
    <2> HIDE DEF places
    <2> QED
      BY <2>1, LeastNatural
  <1>4. PICK m \in after : r = Rank(m, S, key)
    BY <1>3
  <1> DEFINE upTo == {j \in S : key[j] <= key[m]}
             before == upTo \ {m}
  <1>5. m \in upTo /\ IsFiniteSet(upTo) /\ Cardinality(upTo) = r
    BY <1>4, FS_Subset DEF Rank, Orders
  <1>6. Cardinality(before) = r - 1
    BY <1>5, FS_RemoveElement
  <1>7. ASSUME NEW j \in before
        PROVE  0 < Rank(j, S, key) /\ Rank(j, S, key) <= 0 + start
    <2>1. key[j] < key[m]
      BY <1>7 DEF Orders
    <2>2. Rank(j, S, key) < Rank(m, S, key)
      BY <2>1, RankFollowsKey
    <2>3. j \notin after
      BY <1>1, <1>3, <1>4, <2>2
    <2> QED
      BY <2>3, RankIsAPlace
  <1>8. Cardinality(before) <= start
    <2>1. before \in SUBSET S
      OBVIOUS
    <2> HIDE DEF before
    <2> QED
      BY <1>7, <2>1, PlacesFit
  <1>9. m \in PageOf(S, key, start)
    BY <1>1, <1>4, <1>6, <1>8 DEF PageOf
  <1> QED
    BY <1>9

-----------------------------------------------------------------------------
\* Issues of Jira are finitely many, and ordered by their ids and by their updates.
LEMMA LiveIsOrdered ==
    ASSUME TypeInv, NEW S \in SUBSET Live
    PROVE  IsFiniteSet(S) /\ Orders(jira, S) /\ Orders(Ids, S)
  <1>1. IsFiniteSet(1 .. created)
    BY FS_Interval DEF TypeInv
  <1>2. IsFiniteSet(S)
    BY <1>1, FS_Subset DEF TypeInv
  <1>3. S \subseteq Issues /\ Issues \subseteq Nat
    BY DEF Live, Issues
  <1> QED
    BY <1>2, <1>3 DEF Orders, Ids, TypeInv

\* A page of the load: issues of Jira and of the project, and the position behind it.
LEMMA PageOfTheLoad ==
    ASSUME TypeInv, NEW page, page = PageOf(Remaining, jira, 0)
    PROVE  /\ page \subseteq Remaining /\ Remaining \subseteq Live \cap Synced
           /\ NextPos(page) \in Nat
           /\ Cardinality(Remaining) <= PageSize => page = Remaining
  <1>1. Remaining \subseteq Live \cap Synced /\ page \subseteq Remaining
    BY DEF Remaining, Matching, PageOf
  <1>2. /\ IsFiniteSet(page) /\ Cardinality(page) \in Nat
        /\ Cardinality(Remaining) <= PageSize => page = Remaining
    BY <1>1, LiveIsOrdered, PageFits
  <1>3. sync.pos \in Nat
    BY DEF TypeInv, SyncType
  <1>4. CASE LegacySearch
    BY <1>1, <1>2, <1>3, <1>4 DEF NextPos
  <1>5. CASE ~LegacySearch
    <2> DEFINE times == {sync.pos} \cup {jira[i] : i \in page}
    <2>1. \A i \in page : jira[i] \in 0 .. now
      BY <1>1 DEF TypeInv, Live
    <2>2. times \in SUBSET Int /\ times # {} /\ times \subseteq 0 .. now \cup {sync.pos}
      BY <1>3, <2>1 DEF TypeInv
    <2>3. IsFiniteSet(0 .. now)
      BY FS_Interval DEF TypeInv
    <2>4. IsFiniteSet(0 .. now \cup {sync.pos})
      BY <2>3, FS_AddElement
    <2>5. IsFiniteSet(times)
      BY <2>2, <2>4, FS_Subset
    <2>6. Max(times) \in times
      <3> HIDE DEF times
      <3> QED
        BY <2>2, <2>5, MaxIsGreatest
    <2>7. Max(times) \in Nat
      BY <1>3, <2>1, <2>6 DEF TypeInv
    <2> QED
      BY <1>1, <1>2, <1>5, <2>7 DEF NextPos
  <1> QED
    BY <1>1, <1>2, <1>4, <1>5

\* With nextPageToken the page is everything up to the new position.
LEMMA PageGoesUpToItsEnd ==
    ASSUME TypeInv, ~LegacySearch, sync.pos <= now,
           NEW page, page = PageOf(Remaining, jira, 0)
    PROVE  /\ sync.pos <= NextPos(page) /\ NextPos(page) <= now
           /\ \A i \in page : jira[i] <= NextPos(page)
           /\ \A i \in Remaining : jira[i] <= NextPos(page) => i \in page
  <1> DEFINE times == {sync.pos} \cup {jira[i] : i \in page}
  <1>1. page \subseteq Remaining /\ Remaining \subseteq Live
    BY PageOfTheLoad
  <1>2. /\ IsFiniteSet(Remaining) /\ Orders(jira, Remaining)
        /\ \A i \in Remaining : jira[i] \in 0 .. now /\ sync.pos < jira[i]
    BY <1>1, LiveIsOrdered DEF TypeInv, Live, Remaining
  <1>3. sync.pos \in 0 .. now /\ now \in Nat
    BY DEF TypeInv, SyncType
  <1>4. times \in SUBSET Int /\ times # {} /\ times \subseteq 0 .. now
    BY <1>1, <1>2, <1>3
  <1>5. IsFiniteSet(times)
    <2>1. IsFiniteSet(0 .. now)
      BY <1>3, FS_Interval
    <2> HIDE DEF times
    <2> QED
      BY <1>4, <2>1, FS_Subset
  <1>6. NextPos(page) \in times /\ \A x \in times : x <= NextPos(page)
    <2>1. Max(times) \in times /\ \A x \in times : x <= Max(times)
      <3> HIDE DEF times
      <3> QED
        BY <1>4, <1>5, MaxIsGreatest
    <2> QED
      BY <2>1 DEF NextPos
  <1>7. ASSUME NEW i \in Remaining, jira[i] <= NextPos(page)
        PROVE  i \in page
    <2>1. PICK last \in page : NextPos(page) = jira[last]
      BY <1>2, <1>3, <1>6, <1>7
    <2>2. Rank(last, Remaining, jira) \in Nat /\ Rank(i, Remaining, jira) \in Nat
      BY <1>1, <1>2, RankIsAPlace
    <2>3. 0 < Rank(i, Remaining, jira)
      BY <1>2, RankIsAPlace
    <2>4. ~(Rank(last, Remaining, jira) < Rank(i, Remaining, jira))
      BY <1>1, <1>2, <1>7, <2>1, RankTellsApart
    <2>5. Rank(last, Remaining, jira) <= 0 + PageSize
      BY DEF PageOf
    <2> QED
      BY <2>2, <2>3, <2>4, <2>5, RawSyncAssumption DEF PageOf
  <1> QED
    BY <1>4, <1>6, <1>7

-----------------------------------------------------------------------------
LEMMA TypeInit == Init => TypeInv
  <1> SUFFICES ASSUME Init
               PROVE  TypeInv
    OBVIOUS
  <1>1. MaxIssue \in Nat /\ MaxTime \in Nat
    BY RawSyncAssumption
  <1>2. Live = {} /\ InRaw = {}
    BY DEF Init, Live, InRaw
  <1>3. sync \in SyncType /\ cleanup \in CleanupType
    BY <1>1 DEF Init, SyncType, CleanupType, IdleSync, IdleCleanup, NoRows
  <1> QED
    BY <1>1, <1>2, <1>3 DEF Init, TypeInv, IdleSync, NoRows

\* As time passes and ids are given out, the other variables keep their types.
LEMMA TypesGrow ==
    ASSUME TypeInv, now' \in Nat, now <= now', created' \in Nat, created <= created',
           UNCHANGED <<raw, cursor, sync, cleanup>>
    PROVE  /\ raw' \in [Issues -> 0 .. now'] /\ InRaw' \subseteq Synced \cap (1 .. created')
           /\ cursor' \in 0 .. now' /\ sync' \in SyncType' /\ cleanup' \in CleanupType'
           /\ \A i \in Synced : sync'.rows[i] # {} => i \in 1 .. created'
  <1>1. 0 .. now \subseteq 0 .. now' /\ 1 .. now \subseteq 1 .. now'
        /\ 1 .. created \subseteq 1 .. created'
    BY DEF TypeInv
  <1>2. sync' \in SyncType'
    BY <1>1 DEF TypeInv, SyncType
  <1>3. cleanup' \in CleanupType'
    BY <1>1 DEF TypeInv, CleanupType
  <1> QED
    BY <1>1, <1>2, <1>3 DEF TypeInv, InRaw

PeopleStep ==
    \/ CreateIssue
    \/ \E i \in Issues : UpdateIssue(i) \/ DeleteIssue(i)

\* A step of Jira gives one issue a new time, later than all others, or deletes one.
LEMMA PeopleChangeOneIssue ==
    ASSUME TypeInv, PeopleStep
    PROVE  /\ UNCHANGED <<raw, cursor, sync, cleanup>>
           /\ \E i \in Issues :
                /\ \/ /\ now' = now + 1 /\ now' \in 0 .. MaxTime
                      /\ jira' = [jira EXCEPT ![i] = now + 1]
                   \/ now' = now /\ jira' = [jira EXCEPT ![i] = 0]
                /\ \/ created' = created /\ i \in Live
                   \/ /\ created' = created + 1 /\ created' \in 0 .. MaxIssue
                      /\ i = created + 1 /\ i \notin Live
  <1>1. MaxIssue \in Nat /\ MaxTime \in Nat
    BY RawSyncAssumption
  <1>2. ASSUME CreateIssue
        PROVE  /\ UNCHANGED <<raw, cursor, sync, cleanup>>
               /\ created + 1 \in Issues /\ created + 1 \notin Live
               /\ created' = created + 1 /\ created' \in 0 .. MaxIssue
               /\ now' = now + 1 /\ now' \in 0 .. MaxTime
               /\ jira' = [jira EXCEPT ![created + 1] = now + 1]
    <2>1. created \in 0 .. MaxIssue /\ created < MaxIssue /\ now \in 0 .. MaxTime /\ now < MaxTime
      BY <1>2 DEF CreateIssue, Touch, TypeInv
    <2>2. created + 1 \in Issues /\ created + 1 \notin Live
      BY <1>1, <2>1 DEF Issues, TypeInv
    <2>3. /\ created' = created + 1 /\ now' = now + 1
          /\ jira' = [jira EXCEPT ![created + 1] = now + 1]
          /\ UNCHANGED <<raw, cursor, sync, cleanup>>
      BY <1>2 DEF CreateIssue, Touch
    <2> QED
      BY <1>1, <2>1, <2>2, <2>3
  <1>3. ASSUME NEW i \in Issues, UpdateIssue(i)
        PROVE  /\ UNCHANGED <<created, raw, cursor, sync, cleanup>> /\ i \in Live
               /\ now' = now + 1 /\ now' \in 0 .. MaxTime
               /\ jira' = [jira EXCEPT ![i] = now + 1]
    BY <1>1, <1>3 DEF UpdateIssue, Touch, TypeInv
  <1>4. ASSUME NEW i \in Issues, DeleteIssue(i)
        PROVE  /\ UNCHANGED <<created, now, raw, cursor, sync, cleanup>> /\ i \in Live
               /\ jira' = [jira EXCEPT ![i] = 0]
    BY <1>4 DEF DeleteIssue
  <1> QED
    BY <1>2, <1>3, <1>4 DEF PeopleStep

LEMMA PeopleKeepTypes ==
    ASSUME TypeInv, PeopleStep
    PROVE  TypeInv'
  <1>1. PICK i \in Issues :
            /\ \/ /\ now' = now + 1 /\ now' \in 0 .. MaxTime
                  /\ jira' = [jira EXCEPT ![i] = now + 1]
               \/ now' = now /\ jira' = [jira EXCEPT ![i] = 0]
            /\ \/ created' = created /\ i \in Live
               \/ /\ created' = created + 1 /\ created' \in 0 .. MaxIssue
                  /\ i = created + 1 /\ i \notin Live
    BY PeopleChangeOneIssue
  <1>2. /\ now \in Nat /\ now' \in 0 .. MaxTime /\ now <= now'
        /\ created \in Nat /\ created' \in 0 .. MaxIssue /\ created <= created'
    BY <1>1 DEF TypeInv
  <1>3. jira' \in [Issues -> 0 .. now']
    BY <1>1, <1>2 DEF TypeInv
  <1>4. Live' \subseteq 1 .. created'
    <2>1. Live' \subseteq Live \cup {i}
      BY <1>1 DEF Live, TypeInv
    <2> QED
      BY <1>1, <1>2, <2>1 DEF TypeInv
  <1>5. ASSUME NEW a \in Live', NEW b \in Live', jira'[a] = jira'[b]
        PROVE  a = b
    BY <1>1, <1>5 DEF Live, TypeInv
  <1>6. UNCHANGED <<raw, cursor, sync, cleanup>>
    BY PeopleChangeOneIssue
  <1> QED
    BY <1>2, <1>3, <1>4, <1>5, <1>6, TypesGrow DEF TypeInv

-----------------------------------------------------------------------------
\* A page adds to the rows versions that Jira has, later than the watermark.
LEMMA PageKeepsTypes ==
    ASSUME TypeInv, FetchPage
    PROVE  TypeInv'
  <1> DEFINE page == PageOf(Remaining, jira, 0)
  <1>1. /\ UNCHANGED <<jira, created, now, raw, cursor, cleanup>>
        /\ sync' = [sync EXCEPT !.rows = Yielded(page), !.pos = NextPos(page),
                        !.pc = IF Cardinality(Remaining) <= PageSize THEN "load" ELSE "fetch"]
    BY DEF FetchPage
  <1>2. page \subseteq Live \cap Synced /\ NextPos(page) \in Nat
    BY PageOfTheLoad
  <1> HIDE DEF page
  <1>3. \A i \in Synced : i \in page => jira[i] \in 1 .. now /\ i \in 1 .. created
    BY <1>2 DEF TypeInv, Live
  <1>4. Yielded(page) \in [Synced -> SUBSET (1 .. now)]
    BY <1>3 DEF Yielded, TypeInv, SyncType
  <1>5. \A i \in Synced : Yielded(page)[i] # {} => i \in 1 .. created
    BY <1>3 DEF Yielded, TypeInv
  <1>6. sync' \in SyncType
    BY <1>1, <1>2, <1>4 DEF TypeInv, SyncType
  <1>7. sync'.rows = Yielded(page)
    BY <1>1 DEF TypeInv, SyncType
  <1> QED
    BY <1>1, <1>5, <1>6, <1>7 DEF TypeInv, SyncType, CleanupType, Live, InRaw

\* The watermark advances to the greatest version read.
LEMMA AdvancedIsRead ==
    ASSUME TypeInv
    PROVE  /\ Advanced \in 0 .. now /\ cursor <= Advanced
           /\ Advanced = cursor \/ \E i \in Synced : Advanced \in sync.rows[i]
  <1> DEFINE versions == {cursor} \cup UNION {sync.rows[i] : i \in Synced}
  <1>1. versions \subseteq 0 .. now /\ versions # {} /\ now \in Nat
    BY DEF TypeInv, SyncType
  <1>2. IsFiniteSet(versions) /\ versions \in SUBSET Int
    <2>1. IsFiniteSet(0 .. now) /\ 0 .. now \subseteq Int
      BY <1>1, FS_Interval
    <2> HIDE DEF versions
    <2> QED
      BY <1>1, <2>1, FS_Subset
  <1>3. Max(versions) \in versions /\ \A x \in versions : x <= Max(versions)
    <2> HIDE DEF versions
    <2> QED
      BY <1>1, <1>2, MaxIsGreatest
  <1>4. cursor \in versions
    OBVIOUS
  <1>5. Advanced = Max(versions)
    BY DEF Advanced
  <1>6. Advanced \in 0 .. now /\ cursor <= Advanced
    <2> HIDE DEF versions
    <2> QED
      BY <1>1, <1>3, <1>4, <1>5
  <1>7. Advanced = cursor \/ \E i \in Synced : Advanced \in sync.rows[i]
    BY <1>3, <1>5
  <1> QED
    BY <1>6, <1>7

\* The other steps of the load.
LEMMA SyncKeepsTypes ==
    ASSUME TypeInv, StartSync \/ FailSync \/ Load \/ LoadWithoutTable
    PROVE  TypeInv'
  <1>1. NoRows \in [Synced -> SUBSET (1 .. now)] /\ (\A i \in Synced : NoRows[i] = {})
        /\ now \in Nat /\ cursor \in 0 .. now /\ sync \in SyncType
    BY DEF NoRows, TypeInv
  <1>2. IdleSync \in SyncType /\ IdleSync.rows = NoRows
    BY <1>1 DEF IdleSync, SyncType
  <1>3. ASSUME NEW from \in 0 .. now, NEW attempt \in 1 .. 2, StartFetch(from, attempt)
        PROVE  sync' \in SyncType /\ sync'.rows = NoRows
    BY <1>1, <1>3 DEF StartFetch, SyncType
  <1>4. Advanced \in 0 .. now
    BY AdvancedIsRead
  <1>5. CASE StartSync
    <2>1. sync' \in SyncType /\ sync'.rows = NoRows
      BY <1>1, <1>3, <1>5 DEF StartSync
    <2> QED
      BY <1>1, <1>5, <2>1 DEF StartSync, TypeInv, SyncType, CleanupType, Live, InRaw
  <1>6. CASE FailSync
    BY <1>1, <1>2, <1>6 DEF FailSync, TypeInv, SyncType, CleanupType, Live, InRaw
  <1>7. CASE Load
    <2>1. /\ UNCHANGED <<jira, created, now, cleanup>> /\ cursor' = Advanced
          /\ sync' = IdleSync /\ raw' \in [Issues -> 0 .. MaxTime]
          /\ \A i \in Issues :
                IF i \in Synced /\ sync.rows[i] # {} THEN raw'[i] \in sync.rows[i]
                ELSE raw'[i] = raw[i]
      BY <1>7 DEF Load
    <2>2. raw' \in [Issues -> 0 .. now]
      <3>1. \A i \in Issues : raw'[i] \in 0 .. now
        BY <2>1 DEF TypeInv, SyncType
      <3> QED
        BY <2>1, <3>1
    <2>3. InRaw' \subseteq Synced \cap (1 .. created)
      BY <2>1 DEF InRaw, TypeInv
    <2> QED
      BY <1>1, <1>2, <1>4, <2>1, <2>2, <2>3 DEF TypeInv, SyncType, CleanupType, Live
  <1>8. CASE LoadWithoutTable
    <2>1. sync' \in SyncType /\ sync'.rows = NoRows
      BY <1>2, <1>3, <1>4, <1>8 DEF LoadWithoutTable
    <2> QED
      BY <1>1, <1>4, <1>8, <2>1 DEF LoadWithoutTable, TypeInv, SyncType, CleanupType, Live, InRaw
  <1> QED
    BY <1>5, <1>6, <1>7, <1>8

CleanupStep ==
    \/ StartCleanup \/ FetchIds \/ CountRaw \/ SelectGhosts \/ DeleteGhosts \/ FailCleanup

LEMMA CleanupKeepsTypes ==
    ASSUME TypeInv, CleanupStep
    PROVE  TypeInv'
  <1>1. UNCHANGED <<jira, created, now, cursor, sync>>
    BY DEF CleanupStep, StartCleanup, FetchIds, CountRaw, SelectGhosts, DeleteGhosts, FailCleanup
  <1>2. IdleCleanup \in CleanupType
    BY DEF IdleCleanup, CleanupType
  <1>3. /\ cleanup \in CleanupType /\ Live \subseteq 1 .. created
        /\ raw \in [Issues -> 0 .. now] /\ InRaw \subseteq Synced \cap (1 .. created)
        /\ now \in Nat
    BY DEF TypeInv
  <1>4. CASE StartCleanup
    <2>1. cleanup' \in CleanupType
      BY <1>3, <1>4 DEF StartCleanup, CleanupType, IdleCleanup
    <2> QED
      BY <1>1, <1>4, <2>1 DEF StartCleanup, TypeInv, SyncType, CleanupType, Live, InRaw
  <1>5. CASE FetchIds
    <2> DEFINE found == PageOf(Live, Ids, cleanup.startAt)
    <2>1. found \subseteq Live /\ Cardinality(found) \in Nat
      <3>1. IsFiniteSet(Live) /\ Orders(Ids, Live) /\ cleanup.startAt \in Nat
        BY <1>3, LiveIsOrdered DEF CleanupType
      <3> QED
        BY <3>1, PageFits DEF PageOf
    <2>2. cleanup' = [cleanup EXCEPT
                !.ids = @ \cup found,
                !.startAt = @ + Cardinality(found),
                !.pc = IF found = {} \/ cleanup.startAt + Cardinality(found) >= Cardinality(Live)
                       THEN "count" ELSE "fetch"]
      BY <1>5 DEF FetchIds, Ids
    <2> HIDE DEF found
    <2>3. /\ cleanup.ids \cup found \in SUBSET (1 .. created)
          /\ cleanup.startAt + Cardinality(found) \in Nat
      <3>1. /\ cleanup.ids \subseteq 1 .. created /\ cleanup.startAt \in Nat
            /\ found \subseteq 1 .. created
        BY <1>3, <2>1 DEF CleanupType
      <3>2. cleanup.startAt + Cardinality(found) \in Nat
        BY <2>1, <3>1
      <3> QED
        BY <3>1, <3>2
    <2>4. cleanup' \in CleanupType
      BY <1>3, <2>2, <2>3 DEF CleanupType
    <2>5. UNCHANGED <<jira, created, now, raw, cursor, sync>>
      BY <1>5 DEF FetchIds
    <2> QED
      BY <2>4, <2>5 DEF TypeInv, SyncType, CleanupType, Live, InRaw
  <1>6. CASE CountRaw
    <2>1. cleanup' \in CleanupType
      BY <1>2, <1>3, <1>6 DEF CountRaw, CleanupType
    <2> QED
      BY <1>1, <1>6, <2>1 DEF CountRaw, TypeInv, SyncType, CleanupType, Live, InRaw
  <1>7. CASE SelectGhosts
    <2>1. cleanup' \in CleanupType
      BY <1>2, <1>3, <1>7 DEF SelectGhosts, CleanupType
    <2> QED
      BY <1>1, <1>7, <2>1 DEF SelectGhosts, TypeInv, SyncType, CleanupType, Live, InRaw
  <1>8. CASE DeleteGhosts
    <2>1. raw' \in [Issues -> 0 .. now] /\ InRaw' \subseteq InRaw
      BY <1>3, <1>8 DEF DeleteGhosts, InRaw
    <2> QED
      BY <1>1, <1>2, <1>3, <1>8, <2>1 DEF DeleteGhosts, TypeInv, SyncType, CleanupType, Live
  <1>9. CASE FailCleanup
    BY <1>1, <1>2, <1>9 DEF FailCleanup, TypeInv, SyncType, CleanupType, Live, InRaw
  <1> QED
    BY <1>4, <1>5, <1>6, <1>7, <1>8, <1>9 DEF CleanupStep

LEMMA TypeStep == TypeInv /\ [Next]_vars => TypeInv'
  <1> SUFFICES ASSUME TypeInv, [Next]_vars
               PROVE  TypeInv'
    OBVIOUS
  <1>1. CASE Next
    BY <1>1, PeopleKeepTypes, PageKeepsTypes, SyncKeepsTypes, CleanupKeepsTypes
       DEF Next, PeopleStep, CleanupStep
  <1>2. CASE UNCHANGED vars
    BY <1>2 DEF vars, TypeInv, SyncType, CleanupType, Live, InRaw
  <1> QED
    BY <1>1, <1>2

\* Every variable has its type; the watermark and what was loaded are behind Jira.
THEOREM RawSyncTypeCorrect == Spec => []TypeOK
  <1>1. TypeInv => TypeOK
    BY DEF TypeInv, TypeOK, SyncType, CleanupType
  <1> QED
    BY <1>1, TypeInit, TypeStep, PTL DEF Spec

-----------------------------------------------------------------------------
\* What LoadInv says of one issue of the project.
Read(i) ==
    /\ sync.rows[i] \subseteq 1 .. sync.pos
    /\ i \in Live =>
        /\ sync.from < jira[i] /\ jira[i] <= sync.pos => jira[i] \in sync.rows[i]
        /\ jira[i] <= sync.began => sync.rows[i] \subseteq {jira[i]}
        /\ sync.pc = "load" /\ sync.from < jira[i] /\ jira[i] <= sync.began =>
                jira[i] \in sync.rows[i]

\* A load that begins has read nothing, up to position 0.
LEMMA LoadBegins ==
    ASSUME TypeInv, NEW attempt \in 1 .. 2, StartFetch(cursor', attempt), UNCHANGED <<jira, now>>
    PROVE  LoadInv'
  <1>1. /\ sync'.pc = "fetch" /\ sync'.from = cursor' /\ sync'.pos = 0
        /\ \A i \in Synced : sync'.rows[i] = {}
    BY DEF StartFetch, NoRows
  <1>2. now' \in Nat /\ \A i \in Live' : jira'[i] \in Nat \ {0}
    BY DEF TypeInv, Live
  <1> QED
    BY <1>1, <1>2 DEF LoadInv

\* A new update is later than the position and than the beginning of the load.
LEMMA PeopleKeepLoad ==
    ASSUME TypeInv, LoadInv, PeopleStep
    PROVE  LoadInv'
  <1>1. UNCHANGED <<raw, cursor, sync, cleanup>>
    BY PeopleChangeOneIssue
  <1>2. PICK i \in Issues :
            \/ now' = now + 1 /\ jira' = [jira EXCEPT ![i] = now + 1]
            \/ now' = now /\ jira' = [jira EXCEPT ![i] = 0]
    BY PeopleChangeOneIssue
  <1>3. SUFFICES ASSUME sync.pc # "idle"
                 PROVE  LoadInv'
    BY <1>1 DEF LoadInv
  <1>4. /\ now \in Nat /\ sync.pos \in Nat /\ sync.pos <= now /\ sync.began \in 0 .. now
        /\ sync.from = cursor
    BY <1>3 DEF TypeInv, SyncType, LoadInv
  <1>5. ASSUME NEW j \in Synced
        PROVE  Read(j)'
    <2>1. Read(j)
      BY <1>3 DEF LoadInv, Read
    <2>2. CASE jira'[j] = jira[j]
      <3>1. j \in Live' <=> j \in Live
        BY <2>2 DEF Live
      <3> QED
        BY <1>1, <2>1, <2>2, <3>1 DEF Read
    <2>3. CASE jira'[j] # jira[j]
      <3>1. j = i
        BY <1>2, <2>3, RawSyncAssumption DEF TypeInv
      <3>2. jira'[j] = 0 \/ jira'[j] = now + 1
        BY <1>2, <3>1 DEF TypeInv
      <3>3. j \in Live' => jira'[j] > sync.pos /\ jira'[j] > sync.began /\ jira'[j] = now + 1
        BY <1>4, <3>2 DEF Live
      <3>4. j \in Live' => ~(jira'[j] <= sync.pos) /\ ~(jira'[j] <= sync.began)
        BY <1>4, <3>3
      <3> QED
        BY <1>1, <2>1, <3>4 DEF Read
    <2> QED
      BY <2>2, <2>3
  <1>6. now' \in Nat /\ now <= now'
    BY <1>2, <1>4
  <1>7. sync'.from = cursor' /\ sync'.pos <= now'
    BY <1>1, <1>4, <1>6
  <1> QED
    BY <1>5, <1>7 DEF LoadInv, Read

\* A page brings in everything after the watermark up to its end.
LEMMA PageKeepsLoad ==
    ASSUME TypeInv, LoadInv, ~LegacySearch, FetchPage
    PROVE  LoadInv'
  <1> DEFINE page == PageOf(Remaining, jira, 0)
  <1>1. /\ sync.pc = "fetch" /\ UNCHANGED <<jira, now, cursor>>
        /\ sync' = [sync EXCEPT !.rows = Yielded(page), !.pos = NextPos(page),
                        !.pc = IF Cardinality(Remaining) <= PageSize THEN "load" ELSE "fetch"]
    BY DEF FetchPage
  <1>2. /\ sync.from = cursor /\ sync.pos <= now /\ sync.pos \in Nat /\ now \in Nat
        /\ cursor \in Nat /\ Lookback \in Nat
        /\ \A i \in Synced : Read(i)
    BY <1>1, RawSyncAssumption DEF LoadInv, Read, TypeInv, SyncType
  <1>3. /\ page \subseteq Remaining /\ Remaining \subseteq Live \cap Synced
        /\ Cardinality(Remaining) <= PageSize => page = Remaining
        /\ sync.pos <= NextPos(page) /\ NextPos(page) <= now /\ NextPos(page) \in Nat
        /\ \A i \in page : jira[i] <= NextPos(page)
        /\ \A i \in Remaining : jira[i] <= NextPos(page) => i \in page
    BY <1>2, PageOfTheLoad, PageGoesUpToItsEnd
  <1> HIDE DEF page
  <1>4. /\ sync'.rows = Yielded(page) /\ sync'.pos = NextPos(page)
        /\ sync'.from = sync.from /\ sync'.began = sync.began
        /\ sync'.pc = "load" => Cardinality(Remaining) <= PageSize
    BY <1>1 DEF TypeInv, SyncType
  <1>5. ASSUME NEW i \in Synced
        PROVE  Read(i)'
    <2>1. /\ sync'.rows[i] = IF i \in page /\ jira[i] > sync.from
                             THEN sync.rows[i] \cup {jira[i]} ELSE sync.rows[i]
          /\ Live' = Live
      BY <1>1, <1>4 DEF Yielded, Live
    <2>2. sync.rows[i] \subseteq 1 .. sync.pos /\ Read(i)
      BY <1>2 DEF Read
    <2>3. i \in Live => jira[i] \in 1 .. now
      BY DEF TypeInv, Live
    <2>4. sync'.rows[i] \subseteq 1 .. NextPos(page)
      BY <1>2, <1>3, <2>1, <2>2, <2>3
    <2>5. i \in Live /\ sync.from < jira[i] /\ sync.pos < jira[i] => i \in Remaining
      BY <1>2, <2>3 DEF Remaining, Matching
    <2>6. ASSUME i \in Live, sync.from < jira[i], jira[i] <= NextPos(page)
          PROVE  jira[i] \in sync'.rows[i]
      <3>1. CASE jira[i] <= sync.pos
        BY <2>1, <2>2, <2>6, <3>1 DEF Read
      <3>2. CASE sync.pos < jira[i]
        BY <1>2, <1>3, <2>1, <2>3, <2>5, <2>6, <3>2
      <3> QED
        BY <1>2, <2>3, <2>6, <3>1, <3>2
    <2>7. ASSUME i \in Live, sync.from < jira[i], sync'.pc = "load"
          PROVE  jira[i] \in sync'.rows[i]
      <3>1. CASE jira[i] <= sync.pos
        BY <2>1, <2>2, <2>7, <3>1 DEF Read
      <3>2. CASE sync.pos < jira[i]
        BY <1>2, <1>3, <1>4, <2>1, <2>3, <2>5, <2>7, <3>2
      <3> QED
        BY <1>2, <2>3, <2>7, <3>1, <3>2
    <2>8. i \in Live /\ jira[i] <= sync.began => sync'.rows[i] \subseteq {jira[i]}
      BY <2>1, <2>2 DEF Read
    <2> QED
      BY <1>1, <1>4, <2>1, <2>4, <2>6, <2>7, <2>8 DEF Read
  <1> QED
    BY <1>1, <1>2, <1>3, <1>4, <1>5 DEF LoadInv, Read

LEMMA LoadStep ==
    ASSUME TypeInv, LoadInv, ~LegacySearch, [Next]_vars
    PROVE  LoadInv'
  <1>1. CASE PeopleStep
    BY <1>1, PeopleKeepLoad
  <1>2. CASE StartSync
    BY <1>2, LoadBegins DEF StartSync
  <1>3. CASE FetchPage
    BY <1>3, PageKeepsLoad
  <1>4. CASE Load \/ FailSync
    BY <1>4 DEF Load, FailSync, IdleSync, LoadInv
  <1>5. CASE LoadWithoutTable
    <2>1. CASE sync.attempt = 1
      BY <1>5, <2>1, LoadBegins DEF LoadWithoutTable
    <2>2. CASE sync.attempt # 1
      BY <1>5, <2>2 DEF LoadWithoutTable, IdleSync, LoadInv
    <2> QED
      BY <2>1, <2>2
  <1>6. CASE CleanupStep \/ UNCHANGED vars
    <2>1. UNCHANGED <<jira, created, now, cursor, sync>>
      BY <1>6 DEF CleanupStep, StartCleanup, FetchIds, CountRaw, SelectGhosts, DeleteGhosts,
                  FailCleanup, vars
    <2> QED
      BY <2>1 DEF LoadInv, Live
  <1> QED
    BY <1>1, <1>2, <1>3, <1>4, <1>5, <1>6 DEF Next, PeopleStep, CleanupStep

LEMMA LoadCorrect == ASSUME ~LegacySearch PROVE Spec => [](TypeInv /\ LoadInv)
  <1>1. Init => LoadInv
    BY DEF Init, LoadInv, IdleSync
  <1>2. TypeInv /\ LoadInv /\ [Next]_vars => (TypeInv /\ LoadInv)'
    BY TypeStep, LoadStep
  <1> QED
    BY <1>1, <1>2, TypeInit, PTL DEF Spec

\* With nextPageToken, a load brings in every issue of the project that nobody touched while
\* its pages were read and that was updated after the watermark.
THEOREM LoadBringsInTheUntouched == ASSUME ~LegacySearch PROVE Spec => SyncLoadsUntouched
  <1>1. ASSUME TypeInv, LoadInv, Load, NEW i \in Synced \cap Live,
               sync.from < jira[i], jira[i] <= sync.began
        PROVE  raw'[i] = jira[i]
    <2>1. jira[i] \in sync.rows[i] /\ sync.rows[i] \subseteq {jira[i]}
      BY <1>1 DEF LoadInv, Load
    <2> QED
      BY <1>1, <2>1 DEF Load, Live
  <1>2. TypeInv /\ LoadInv /\ [Next]_vars =>
            [Load => \A i \in Synced \cap Live :
                sync.from < jira[i] /\ jira[i] <= sync.began => raw'[i] = jira[i]]_vars
    BY <1>1
  <1> QED
    BY <1>2, LoadCorrect, PTL DEF Spec, SyncLoadsUntouched

\* With nextPageToken, the watermark never passes an issue in a version that was not read.
THEOREM WatermarkIsBehindTheRead ==
    ASSUME ~LegacySearch PROVE Spec => WatermarkPassesOnlyTheRead
  <1>1. ASSUME TypeInv, LoadInv, [Next]_vars, cursor' # cursor, NEW i \in Synced \cap Live,
               sync.from < jira[i], jira[i] <= cursor'
        PROVE  jira[i] \in sync.rows[i]
    <2>1. Load \/ LoadWithoutTable
      BY <1>1 DEF Next, CreateIssue, UpdateIssue, DeleteIssue, StartSync, FetchPage, FailSync,
                  StartCleanup, FetchIds, CountRaw, SelectGhosts, DeleteGhosts, FailCleanup, vars
    <2>2. sync.pc = "load" /\ cursor' = Advanced
      BY <2>1 DEF Load, LoadWithoutTable
    <2>3. PICK j \in Synced : cursor' \in sync.rows[j]
      BY <1>1, <2>2, AdvancedIsRead
    <2>4. /\ sync.rows[j] \subseteq 1 .. sync.pos /\ sync.pos \in Nat
          /\ jira[i] <= sync.pos => jira[i] \in sync.rows[i]
      BY <1>1, <2>2 DEF LoadInv, TypeInv, SyncType
    <2>5. cursor' \in 1 .. sync.pos /\ jira[i] \in Nat
      BY <1>1, <2>3, <2>4 DEF TypeInv, Live
    <2> QED
      BY <1>1, <2>4, <2>5
  <1>2. TypeInv /\ LoadInv /\ [Next]_vars =>
            [cursor' # cursor => \A i \in Synced \cap Live :
                sync.from < jira[i] /\ jira[i] <= cursor' => jira[i] \in sync.rows[i]]_vars
    BY <1>1
  <1> QED
    BY <1>2, LoadCorrect, PTL DEF Spec, WatermarkPassesOnlyTheRead

-----------------------------------------------------------------------------
\* As long as what was there when the cleanup began still is, it keeps its places.
LEMMA OldIdsKeepTheirPlaces ==
    ASSUME TypeInv, CleanupInv, cleanup.pc # "idle", cleanup.live \subseteq Live,
           NEW i \in cleanup.live
    PROVE  Rank(i, Live, Ids) = Rank(i, cleanup.live, Ids)
  <1>1. Live \subseteq Issues /\ Issues \subseteq Nat
    BY DEF Live, Issues
  <1>2. \A j \in Live \ cleanup.live : i < j
    BY DEF CleanupInv
  <1>3. \A j \in Live : Ids[j] <= Ids[i] => j \in cleanup.live
    <2>1. \A j \in Live : j \in Nat /\ Ids[j] = j /\ Ids[i] = i
      BY <1>1 DEF Ids
    <2> QED
      BY <1>2, <2>1
  <1>4. {j \in Live : Ids[j] <= Ids[i]} = {j \in cleanup.live : Ids[j] <= Ids[i]}
    BY <1>3
  <1> QED
    BY <1>4 DEF Rank

\* A new issue has the greatest id.
LEMMA PeopleKeepCleanup ==
    ASSUME TypeInv, CleanupInv, PeopleStep
    PROVE  CleanupInv'
  <1>1. cleanup' = cleanup /\ cleanup.live \subseteq 1 .. created /\ created \in Nat
    BY PeopleChangeOneIssue DEF TypeInv, CleanupType
  <1>2. \A i \in Live' \ Live : i = created + 1
    <2>1. PICK i \in Issues :
            /\ \/ jira' = [jira EXCEPT ![i] = now + 1]
               \/ jira' = [jira EXCEPT ![i] = 0]
            /\ i \in Live \/ i = created + 1
      BY PeopleChangeOneIssue
    <2>2. Live' \subseteq Live \cup {i}
      BY <2>1 DEF Live, TypeInv
    <2> QED
      BY <2>1, <2>2
  <1>3. cleanup.live \subseteq Live' => cleanup.live \subseteq Live
    BY <1>1, <1>2
  <1>4. ASSUME cleanup.pc # "idle", cleanup.live \subseteq Live',
               NEW i \in Live' \ cleanup.live, NEW j \in cleanup.live
        PROVE  j < i
    <2>1. CASE i \in Live
      BY <1>3, <1>4, <2>1 DEF CleanupInv
    <2>2. CASE i \notin Live
      BY <1>1, <1>2, <1>4, <2>2
    <2> QED
      BY <2>1, <2>2
  <1>5. Ids' = Ids
    BY DEF Ids
  <1> QED
    BY <1>1, <1>3, <1>4 DEF CleanupInv, Rank, Ids

LEMMA CleanupBegins ==
    ASSUME TypeInv, StartCleanup
    PROVE  CleanupInv'
  <1>1. /\ cleanup'.pc = "fetch" /\ cleanup'.live = Live /\ cleanup'.startAt = 0
        /\ Live' = Live
    BY DEF StartCleanup, IdleCleanup, Live
  <1>2. \A i \in Live : Rank(i, Live, Ids) \in Nat \ {0}
    BY LiveIsOrdered, RankIsAPlace
  <1>3. \A i \in Live : ~(Rank(i, Live, Ids) <= 0)
    BY <1>2
  <1> QED
    BY <1>1, <1>3 DEF CleanupInv, Rank, Ids

\* A page of ids: the next places of those that were there, or the last.
LEMMA PageKeepsCleanup ==
    ASSUME TypeInv, CleanupInv, FetchIds
    PROVE  CleanupInv'
  <1> DEFINE found == PageOf(Live, Ids, cleanup.startAt)
             all == found = {} \/ cleanup.startAt + Cardinality(found) >= Cardinality(Live)
  <1>1. /\ cleanup.pc = "fetch" /\ Live' = Live
        /\ cleanup' = [cleanup EXCEPT !.ids = @ \cup found, !.startAt = @ + Cardinality(found),
                           !.pc = IF all THEN "count" ELSE "fetch"]
    BY DEF FetchIds, Ids, Live
  <1>2. cleanup.startAt \in Nat /\ IsFiniteSet(Live) /\ Orders(Ids, Live)
    BY LiveIsOrdered DEF TypeInv, CleanupType
  <1>3. Cardinality(found) \in Nat /\ Cardinality(found) <= PageSize /\ PageSize \in Nat
    BY <1>2, PageFits, RawSyncAssumption
  <1>4. \A i \in Live : Rank(i, Live, Ids) \in 1 .. Cardinality(Live) /\ Cardinality(Live) \in Nat
    BY <1>2, RankIsAPlace
  <1>5. \A i \in Live : found = {} => Rank(i, Live, Ids) <= cleanup.startAt
    BY <1>2, EmptyPageIsTheEnd
  <1>6. \A i \in Live : i \in found <=> /\ cleanup.startAt < Rank(i, Live, Ids)
                                       /\ Rank(i, Live, Ids) <= cleanup.startAt + PageSize
    BY DEF PageOf
  <1> HIDE DEF found
  <1>7. ASSUME cleanup.live \subseteq Live, NEW i \in cleanup.live,
               Rank(i, Live, Ids) <= cleanup.startAt + Cardinality(found)
        PROVE  i \in cleanup.ids \cup found
    <2>1. Rank(i, Live, Ids) <= cleanup.startAt => i \in cleanup.ids
      BY <1>1, <1>7, OldIdsKeepTheirPlaces DEF CleanupInv
    <2>2. i \in Live /\ Rank(i, Live, Ids) \in Nat
      BY <1>4, <1>7
    <2>3. cleanup.startAt < Rank(i, Live, Ids) => i \in found
      BY <1>2, <1>3, <1>6, <1>7, <2>2
    <2> QED
      BY <1>2, <2>1, <2>2, <2>3
  <1>8. ASSUME cleanup.live \subseteq Live, NEW i \in cleanup.live, all
        PROVE  i \in cleanup.ids \cup found
    <2>1. i \in Live /\ Rank(i, Live, Ids) \in Nat
      BY <1>4, <1>8
    <2>2. Rank(i, Live, Ids) <= cleanup.startAt + Cardinality(found)
      BY <1>2, <1>3, <1>4, <1>5, <1>8, <2>1
    <2> QED
      BY <1>7, <1>8, <2>2
  <1>9. /\ cleanup'.ids = cleanup.ids \cup found
        /\ cleanup'.startAt = cleanup.startAt + Cardinality(found)
        /\ cleanup'.pc = (IF all THEN "count" ELSE "fetch") /\ cleanup'.live = cleanup.live
    BY <1>1 DEF TypeInv, CleanupType
  <1> HIDE DEF all
  <1>10. ASSUME cleanup.live \subseteq Live
         PROVE  /\ \A i \in Live \ cleanup.live, j \in cleanup.live : j < i
                /\ \A i \in cleanup.live :
                    Rank(i, cleanup.live, Ids) <= cleanup.startAt + Cardinality(found) =>
                        i \in cleanup.ids \cup found
    BY <1>1, <1>7, <1>10, OldIdsKeepTheirPlaces DEF CleanupInv
  <1>11. cleanup'.pc = "fetch" \/ (cleanup'.pc = "count" /\ all)
    BY <1>9
  <1>12. ASSUME cleanup.live \subseteq Live
         PROVE  cleanup'.pc = "count" => cleanup.live \subseteq cleanup'.ids
    BY <1>8, <1>9, <1>11, <1>12
  <1> QED
    BY <1>1, <1>9, <1>10, <1>11, <1>12 DEF CleanupInv, Rank, Ids

LEMMA CleanupKeepsInv ==
    ASSUME TypeInv, CleanupInv, [Next]_vars
    PROVE  CleanupInv'
  <1>1. CASE PeopleStep
    BY <1>1, PeopleKeepCleanup
  <1>2. CASE StartCleanup
    BY <1>2, CleanupBegins
  <1>3. CASE FetchIds
    BY <1>3, PageKeepsCleanup
  <1>4. CASE CountRaw
    <2>1. cleanup'.pc = "idle" \/ cleanup' = [cleanup EXCEPT !.pc = "select"]
      BY <1>4 DEF CountRaw, IdleCleanup
    <2>2. CASE cleanup' = [cleanup EXCEPT !.pc = "select"]
      BY <1>4, <2>2 DEF CountRaw, CleanupInv, Live, TypeInv, CleanupType
    <2> QED
      BY <2>1, <2>2 DEF CleanupInv
  <1>5. CASE SelectGhosts
    <2>1. \/ cleanup'.pc = "idle"
          \/ cleanup' = [cleanup EXCEPT !.ghosts = InRaw \ cleanup.ids, !.pc = "delete"]
      BY <1>5 DEF SelectGhosts, IdleCleanup
    <2>2. CASE cleanup' = [cleanup EXCEPT !.ghosts = InRaw \ cleanup.ids, !.pc = "delete"]
      BY <1>5, <2>2 DEF SelectGhosts, CleanupInv, Live, TypeInv, CleanupType
    <2> QED
      BY <2>1, <2>2 DEF CleanupInv
  <1>6. CASE DeleteGhosts \/ FailCleanup
    BY <1>6 DEF DeleteGhosts, FailCleanup, IdleCleanup, CleanupInv
  <1>7. CASE StartSync \/ FetchPage \/ Load \/ LoadWithoutTable \/ FailSync \/ UNCHANGED vars
    <2>1. UNCHANGED <<jira, cleanup>>
      BY <1>7 DEF StartSync, FetchPage, Load, LoadWithoutTable, FailSync, vars
    <2> QED
      BY <2>1 DEF CleanupInv, Live, Rank, Ids
  <1> QED
    BY <1>1, <1>2, <1>3, <1>4, <1>5, <1>6, <1>7 DEF Next, PeopleStep

\* If nothing was deleted in Jira while the ids were read, the cleanup leaves every issue
\* alone that existed when it began.
THEOREM CleanupLeavesTheLiving == Spec => CleanupSparesTheLiving
  <1>1. Init => CleanupInv
    BY DEF Init, CleanupInv, IdleCleanup
  <1>2. TypeInv /\ CleanupInv /\ [Next]_vars => (TypeInv /\ CleanupInv)'
    BY TypeStep, CleanupKeepsInv
  <1>3. ASSUME TypeInv, CleanupInv, DeleteGhosts, cleanup.live \subseteq Live,
               NEW i \in cleanup.live
        PROVE  raw'[i] = raw[i]
    BY <1>3 DEF DeleteGhosts, CleanupInv, Live
  <1>4. TypeInv /\ CleanupInv /\ [Next]_vars =>
            [DeleteGhosts /\ cleanup.live \subseteq Live =>
                \A i \in cleanup.live : raw'[i] = raw[i]]_vars
    BY <1>3
  <1> QED
    BY <1>1, <1>2, <1>4, TypeInit, PTL DEF Spec, CleanupSparesTheLiving
================================================================================
