-------------------------- MODULE MetricReportsProofs --------------------------
(****************************************************************************)
(* What the reports tell of Jira, for every history of it: lead times and   *)
(* ages, the times active, waiting and blocked, the cumulative flow         *)
(* diagram, the backlog, the delivery of epics, when an issue was finished, *)
(* and what was committed, planned, activated, completed, left to do and    *)
(* counted in the sprint are those of the history, though they are computed *)
(* from the tables of the clean layer. First, the two resolvers of          *)
(* commitment rules agree: for all rules, boards and projects.              *)
(****************************************************************************)
EXTENDS MetricReports, Aggregates, FunctionTheorems, TLAPS

\* A project and a board, either of which may be NULL, have one rule.
OneRulePerScope(given) ==
    \A r, s \in given : r.project = s.project /\ r.board = s.board => r = s

\* The rules name columns that exist.
NamesColumns(given, columns) ==
    \A r \in given : {r.start, r.end} \subseteq {c.id : c \in columns}

-----------------------------------------------------------------------------
\* The score of the cache orders applicable rules as the query does.
LEMMA ScoreIsTheOrder ==
    ASSUME NEW given, NEW project, NEW board,
           project # Nothing, board # Nothing,
           NEW r \in Applicable(given, project, board),
           NEW s \in Applicable(given, project, board)
    PROVE  NoLater(r, s) <=> Score(s) <= Score(r)
  <1>1. /\ r.project = Nothing \/ r.project = project
        /\ r.board = Nothing \/ r.board = board
        /\ s.project = Nothing \/ s.project = project
        /\ s.board = Nothing \/ s.board = board
    BY DEF Applicable
  <1> DEFINE high(x) == IF x.project # Nothing THEN 2 ELSE 0
             low(x) == IF x.board # Nothing THEN 1 ELSE 0
  <1>2. Score(r) = high(r) + low(r) /\ Score(s) = high(s) + low(s)
    BY DEF Score
  <1>3. CASE r.project # Nothing /\ s.project # Nothing
    <2>1. high(r) = 2 /\ high(s) = 2 /\ r.project = s.project
      BY <1>1, <1>3
    <2> QED
      BY <1>2, <1>3, <2>1 DEF NoLater
  <1>4. CASE r.project = Nothing /\ s.project = Nothing
    BY <1>2, <1>4 DEF NoLater
  <1>5. CASE r.project # Nothing /\ s.project = Nothing
    BY <1>2, <1>5 DEF NoLater
  <1>6. CASE r.project = Nothing /\ s.project # Nothing
    BY <1>2, <1>6 DEF NoLater
  <1> QED
    BY <1>3, <1>4, <1>5, <1>6

\* Applicable rules of the same score have the same scope.
LEMMA ScoreTellsScope ==
    ASSUME NEW given, NEW project, NEW board,
           project # Nothing, board # Nothing,
           NEW r \in Applicable(given, project, board),
           NEW s \in Applicable(given, project, board),
           Score(r) = Score(s)
    PROVE  r.project = s.project /\ r.board = s.board
  BY DEF Applicable, Score

\* There is a rule of the highest score: there are only four scores.
LEMMA HighestScore ==
    ASSUME NEW found, found # {}
    PROVE  \E r \in found : \A s \in found : Score(s) <= Score(r)
  <1>1. \A r : Score(r) \in 0 .. 3
    BY DEF Score
  <1>2. CASE \E r \in found : Score(r) = 3
    BY <1>1, <1>2
  <1>3. CASE (\A r \in found : Score(r) < 3) /\ \E r \in found : Score(r) = 2
    BY <1>1, <1>3
  <1>4. CASE (\A r \in found : Score(r) < 2) /\ \E r \in found : Score(r) = 1
    BY <1>1, <1>4
  <1>5. CASE \A r \in found : Score(r) < 1
    BY <1>1, <1>5
  <1> QED
    BY <1>1, <1>2, <1>3, <1>4, <1>5

\* The rule that the cache resolves is the most specific that applies: none that names the
\* project gives way to one that does not, and of those none that names the board
\* (commitment_resolver.py).
THEOREM CacheResolvesMostSpecific ==
    ASSUME NEW given, NEW project, NEW board,
           project # Nothing, board # Nothing,
           Applicable(given, project, board) # {}
    PROVE  LET r == resolve_rule_from_cache(given, project, board)
           IN  /\ r \in Applicable(given, project, board)
               /\ \A s \in Applicable(given, project, board) : NoLater(r, s)
  <1> DEFINE found == Applicable(given, project, board)
             r == resolve_rule_from_cache(given, project, board)
  <1>1. \E x \in found : \A s \in found : Score(s) <= Score(x)
    BY HighestScore
  <1>2. r = CHOOSE x \in found : \A s \in found : Score(s) <= Score(x)
    BY DEF resolve_rule_from_cache
  <1>3. r \in found /\ \A s \in found : Score(s) <= Score(r)
    BY <1>1, <1>2
  <1> QED
    BY <1>3, ScoreIsTheOrder

\* The cache and the query resolve the same rule, if a scope has one rule and the rules name
\* columns that exist (commitment_resolver.py: the cache scores the rules in Python, the
\* query orders them in SQL).
THEOREM ResolversAgree ==
    ASSUME NEW given, NEW columns, NEW project, NEW board,
           project # Nothing, board # Nothing,
           OneRulePerScope(given), NamesColumns(given, columns)
    PROVE  resolve_rule_from_cache(given, project, board)
             = resolve_commitment_columns(given, columns, project, board)
  <1> DEFINE found == Applicable(given, project, board)
             joined == {r \in found : {r.start, r.end} \subseteq {c.id : c \in columns}}
             cached == resolve_rule_from_cache(given, project, board)
             queried == resolve_commitment_columns(given, columns, project, board)
  <1>1. found \subseteq given
    BY DEF Applicable
  <1>2. joined = found
    BY <1>1 DEF NamesColumns
  <1>3. CASE found = {}
    BY <1>2, <1>3 DEF resolve_rule_from_cache, resolve_commitment_columns
  <1>4. CASE found # {}
    <2>1. cached \in found /\ \A s \in found : NoLater(cached, s)
      BY <1>4, CacheResolvesMostSpecific
    <2>2. queried = CHOOSE r \in found : \A s \in found : NoLater(r, s)
      BY <1>2, <1>4 DEF resolve_commitment_columns
    <2>3. queried \in found /\ \A s \in found : NoLater(queried, s)
      BY <2>1, <2>2
    <2>4. Score(cached) <= Score(queried) /\ Score(queried) <= Score(cached)
      BY <2>1, <2>3, ScoreIsTheOrder
    <2>5. Score(cached) = Score(queried)
      BY <2>4 DEF Score
    <2>6. cached.project = queried.project /\ cached.board = queried.board
      BY <2>1, <2>3, <2>5, ScoreTellsScope
    <2> QED
      BY <1>1, <2>1, <2>3, <2>6 DEF OneRulePerScope
  <1> QED
    BY <1>3, <1>4

-----------------------------------------------------------------------------
\* The history of Jira: every property below reads the film of its past states, and the
\* strengthening says what the changes and moves of an issue tell of that film.

\* The changes of an attribute tell the values it had from `born` to `at`.
Tells(changes, value, born, at) ==
    /\ \A c \in changes : /\ c.at \in (born + 1) .. at /\ c.from # c.to
                          /\ c.from = value[c.at - 1] /\ c.to = value[c.at]
    /\ \A c, d \in changes : c.at = d.at => c = d
    /\ \A k \in (born + 1) .. at : value[k] # value[k - 1] => \E c \in changes : c.at = k

\* Only what a history was up to the tick matters to its changes.
LEMMA TellsTheSame ==
    ASSUME NEW changes, NEW b \in Nat, NEW n \in Nat, NEW v, Tells(changes, v, b, n),
           NEW w, \A k \in b .. n : w[k] = v[k]
    PROVE  Tells(changes, w, b, n)
  <1>1. \A k \in (b + 1) .. n : k \in b .. n /\ k - 1 \in b .. n
    OBVIOUS
  <1> QED
    BY <1>1 DEF Tells

\* Changes tell one more tick in which nothing happened.
LEMMA TellsOneMore ==
    ASSUME NEW changes, NEW b \in Nat, NEW n \in Nat, b <= n, NEW v, Tells(changes, v, b, n),
           NEW m, m = n + 1, NEW w, \A k \in b .. n : w[k] = v[k], w[m] = v[n]
    PROVE  Tells(changes, w, b, m)
  <1>1. \A k \in (b + 1) .. n : k \in b .. n /\ k - 1 \in b .. n /\ k \in (b + 1) .. (n + 1)
    OBVIOUS
  <1>2. \A k \in (b + 1) .. (n + 1) : k \in (b + 1) .. n \/ (k = n + 1 /\ k - 1 = n /\ n \in b .. n)
    OBVIOUS
  <1> QED
    BY <1>1, <1>2 DEF Tells

\* One more change tells the last tick.
LEMMA TellsTheChange ==
    ASSUME NEW changes, NEW b \in Nat, NEW n \in Nat, b < n, NEW v, Tells(changes, v, b, n),
           \A c \in changes : c.at < n,
           NEW w, \A k \in b .. (n - 1) : w[k] = v[k],
           NEW new, new.at = n, new.from = v[n], new.to = w[n], new.from # new.to
    PROVE  Tells(changes \cup {new}, w, b, n)
  <1>1. \A k \in (b + 1) .. n : k = n \/ (k \in b .. (n - 1) /\ k \in (b + 1) .. n)
    OBVIOUS
  <1>2. \A k \in (b + 1) .. n : k - 1 \in b .. (n - 1)
    OBVIOUS
  <1>3. n \in (b + 1) .. n /\ n - 1 \in b .. (n - 1)
    OBVIOUS
  <1>4. v[n] = v[n - 1]
    BY <1>3 DEF Tells
  <1>5. \A c \in changes : c.at \in b .. (n - 1) /\ c.at # n
    BY <1>1 DEF Tells
  <1>6. \A c \in changes \cup {new} :
            /\ c.at \in (b + 1) .. n /\ c.from # c.to
            /\ c.from = w[c.at - 1] /\ c.to = w[c.at]
    <2> TAKE c \in changes \cup {new}
    <2>1. CASE c \in changes
      BY <1>2, <1>5, <2>1 DEF Tells
    <2>2. CASE c = new
      BY <1>3, <1>4, <2>2
    <2> QED
      BY <2>1, <2>2
  <1>7. \A c, d \in changes \cup {new} : c.at = d.at => c = d
    BY <1>5 DEF Tells
  <1>8. \A k \in (b + 1) .. n : w[k] # w[k - 1] => \E c \in changes \cup {new} : c.at = k
    BY <1>1, <1>2 DEF Tells
  <1> QED
    BY <1>6, <1>7, <1>8 DEF Tells

-----------------------------------------------------------------------------
\* Types.
PointValues == Estimates \cup {Nothing}

IssueType ==
    [created : Nat, status : Statuses, statusName : Statuses,
     changes : SUBSET [at : Nat, from : Statuses, to : Statuses, name : Statuses],
     sprints : SUBSET {"sprint"},
     moves : SUBSET [at : Nat, from : SUBSET {"sprint"}, to : SUBSET {"sprint"}],
     points : PointValues,
     pointChanges : SUBSET [at : Nat, from : PointValues, to : PointValues],
     resolved : Nat \cup {Nothing}]

Boards(w) == UNION {[D -> IssueType] : D \in SUBSET w.issues}

\* Statuses go by their own names.
Named(issue) == issue.statusName = issue.status /\ \A c \in issue.changes : c.name = c.to

RuleType ==
    [project : {Nothing, "project"}, board : {Nothing, "board"},
     start : {s[1] : s \in RuleSpans}, end : {s[2] : s \in RuleSpans}]

TypeInv ==
    /\ world \in Worlds /\ now \in 0 .. world.maxNow /\ events \in 0 .. world.maxEvents
    /\ jira \in Boards(world) /\ past \in Seq(Boards(world)) /\ Len(past) = now
    /\ \A i \in DOMAIN jira : Named(jira[i])
    /\ rules \subseteq RuleType
    /\ \A r, s \in rules : r.project = s.project /\ r.board = s.board => r = s
    /\ tables = TablesOf(world, jira, now)

\* What Jira was, tick by tick.
Film == [k \in 0 .. now |-> At(k)]

\* An issue is there since its creation, and its histories tell what it was.
HistoryOf(i, film, n) ==
    LET issue == film[n][i]
        life == issue.created .. n
    IN  /\ issue.created \in 0 .. n
        /\ \A k \in 0 .. n : i \in DOMAIN film[k] <=> issue.created <= k
        /\ film[issue.created][i].status = Initial
        /\ Tells(issue.changes, [k \in life |-> film[k][i].status], issue.created, n)
        /\ Tells(issue.moves, [k \in life |-> film[k][i].sprints], issue.created, n)
        /\ Tells(issue.pointChanges, [k \in life |-> film[k][i].points], issue.created, n)

HistoryOk(film, n) ==
    /\ \A k \in 0 .. n : DOMAIN film[k] \subseteq DOMAIN film[n]
    /\ \A i \in DOMAIN film[n] : HistoryOf(i, film, n)

HistoryInv == HistoryOk(Film, now)

-----------------------------------------------------------------------------
\* What the type invariant says of the values the proofs meet.
LEMMA WorldTypes ==
    ASSUME TypeInv
    PROVE  /\ now \in Nat /\ world.maxNow \in Nat /\ Initial \in Statuses
           /\ \A i \in DOMAIN jira : jira[i] \in IssueType /\ i \in world.issues
           /\ \A k \in 1 .. now : past[k] \in Boards(world)
  <1>1. Initial \in Statuses
    BY ReportsAssumption, MinIsLeast DEF Initial
  <1>2. now \in Nat /\ world.maxNow \in Nat
    BY ReportsAssumption DEF TypeInv
  <1>3. \A k \in 1 .. now : past[k] \in Boards(world)
    BY <1>2 DEF TypeInv
  <1>4. \A i \in DOMAIN jira : jira[i] \in IssueType /\ i \in world.issues
    BY DEF TypeInv, Boards
  <1> QED
    BY <1>1, <1>2, <1>3, <1>4

\* The film ends with the present.
LEMMA FilmOfNow ==
    ASSUME TypeInv
    PROVE  /\ Film[now] = jira /\ now \in 0 .. now
           /\ \A k \in 0 .. now : Film[k] = At(k)
  BY WorldTypes DEF Film, At

\* A tick adds the present to the film once more.
LEMMA FilmOfTick ==
    ASSUME TypeInv, now' = now + 1, past' = Append(past, jira), jira' = jira
    PROVE  Film' = [k \in 0 .. (now + 1) |-> IF k <= now THEN Film[k] ELSE Film[now]]
  <1>1. now \in Nat /\ past \in Seq(Boards(world)) /\ Len(past) = now
    BY WorldTypes DEF TypeInv
  <1>2. past'[now + 1] = jira /\ \A k \in 1 .. now : past'[k] = past[k]
    BY <1>1
  <1>3. Film' = [k \in 0 .. now' |-> IF k < now' THEN past'[k + 1] ELSE jira']
    BY DEF Film, At
  <1>4. ASSUME NEW k \in 0 .. (now + 1)
        PROVE  (IF k < now' THEN past'[k + 1] ELSE jira') = IF k <= now THEN Film[k] ELSE Film[now]
    <2>1. CASE k < now
      <3>1. k < now' /\ k <= now /\ k + 1 \in 1 .. now /\ k \in 0 .. now
        BY <1>1, <2>1
      <3> QED
        BY <1>2, <2>1, <3>1, FilmOfNow DEF At
    <2>2. CASE k = now
      <3>1. k < now' /\ k <= now /\ k + 1 = now + 1
        BY <1>1, <2>2
      <3> QED
        BY <1>2, <2>2, <3>1, FilmOfNow
    <2>3. CASE k = now + 1
      <3>1. ~(k < now') /\ ~(k <= now)
        BY <1>1, <2>3
      <3> QED
        BY <3>1, FilmOfNow
    <2> QED
      BY <1>1, <2>1, <2>2, <2>3
  <1> QED
    BY <1>3, <1>4

\* An edit changes the last picture of the film only.
LEMMA FilmOfEdit ==
    ASSUME TypeInv, UNCHANGED <<now, past>>
    PROVE  Film' = [k \in 0 .. now |-> IF k < now THEN Film[k] ELSE jira']
  <1>1. Film' = [k \in 0 .. now |-> IF k < now THEN past[k + 1] ELSE jira']
    BY DEF Film, At
  <1>2. \A k \in 0 .. now : k < now => Film[k] = past[k + 1]
    BY FilmOfNow DEF At
  <1> QED
    BY <1>1, <1>2

-----------------------------------------------------------------------------
\* A tick passes: all is as it was.
LEMMA TickKeepsHistory ==
    ASSUME NEW n \in Nat, NEW f, HistoryOk(f, n), NEW g,
           g = [k \in 0 .. (n + 1) |-> IF k <= n THEN f[k] ELSE f[n]]
    PROVE  HistoryOk(g, n + 1)
  <1>1. g[n + 1] = f[n] /\ \A k \in 0 .. n : g[k] = f[k]
    OBVIOUS
  <1>2. \A k \in 0 .. (n + 1) : k \in 0 .. n \/ k = n + 1
    OBVIOUS
  <1>3. \A k \in 0 .. (n + 1) : DOMAIN g[k] \subseteq DOMAIN g[n + 1]
    BY <1>1, <1>2 DEF HistoryOk
  <1>4. ASSUME NEW i \in DOMAIN g[n + 1]
        PROVE  HistoryOf(i, g, n + 1)
    <2> DEFINE issue == f[n][i]
               b == issue.created
    <2>1. g[n + 1][i] = issue /\ i \in DOMAIN f[n]
      BY <1>1
    <2>2. /\ b \in 0 .. n
          /\ \A k \in 0 .. n : i \in DOMAIN f[k] <=> b <= k
          /\ f[b][i].status = Initial
      BY <2>1 DEF HistoryOk, HistoryOf
    <2>3. b \in Nat /\ b <= n /\ b \in 0 .. (n + 1) /\ b .. n \subseteq b .. (n + 1)
          /\ n + 1 \in b .. (n + 1) /\ n \in b .. n /\ b .. n \subseteq 0 .. n
      BY <2>2
    <2>4. \A k \in 0 .. (n + 1) : i \in DOMAIN g[k] <=> b <= k
      BY <1>1, <1>2, <2>1, <2>2, <2>3
    <2>5. Tells(issue.changes, [k \in b .. (n + 1) |-> g[k][i].status], b, n + 1)
      <3> DEFINE v == [k \in b .. n |-> f[k][i].status]
                 w == [k \in b .. (n + 1) |-> g[k][i].status]
      <3>1. Tells(issue.changes, v, b, n)
        BY <2>1 DEF HistoryOk, HistoryOf
      <3>2. w[n + 1] = v[n] /\ \A k \in b .. n : w[k] = v[k]
        BY ONLY n \in Nat, <1>1, <2>3
      <3>3. Tells(issue.changes, w, b, n + 1)
        <4> HIDE DEF v, w, b, issue
        <4> QED
          BY <2>3, <3>1, <3>2, TellsOneMore
      <3> QED
        BY <3>3
    <2>6. Tells(issue.moves, [k \in b .. (n + 1) |-> g[k][i].sprints], b, n + 1)
      <3> DEFINE v == [k \in b .. n |-> f[k][i].sprints]
                 w == [k \in b .. (n + 1) |-> g[k][i].sprints]
      <3>1. Tells(issue.moves, v, b, n)
        BY <2>1 DEF HistoryOk, HistoryOf
      <3>2. w[n + 1] = v[n] /\ \A k \in b .. n : w[k] = v[k]
        BY ONLY n \in Nat, <1>1, <2>3
      <3>3. Tells(issue.moves, w, b, n + 1)
        <4> HIDE DEF v, w, b, issue
        <4> QED
          BY <2>3, <3>1, <3>2, TellsOneMore
      <3> QED
        BY <3>3
    <2>7. Tells(issue.pointChanges, [k \in b .. (n + 1) |-> g[k][i].points], b, n + 1)
      <3> DEFINE v == [k \in b .. n |-> f[k][i].points]
                 w == [k \in b .. (n + 1) |-> g[k][i].points]
      <3>1. Tells(issue.pointChanges, v, b, n)
        BY <2>1 DEF HistoryOk, HistoryOf
      <3>2. w[n + 1] = v[n] /\ \A k \in b .. n : w[k] = v[k]
        BY ONLY n \in Nat, <1>1, <2>3
      <3>3. Tells(issue.pointChanges, w, b, n + 1)
        <4> HIDE DEF v, w, b, issue
        <4> QED
          BY <2>3, <3>1, <3>2, TellsOneMore
      <3> QED
        BY <3>3
    <2>8. g[b][i].status = Initial
      BY <1>1, <2>2
    <2> QED
      BY <2>1, <2>3, <2>4, <2>5, <2>6, <2>7, <2>8 DEF HistoryOf
  <1> QED
    BY <1>3, <1>4 DEF HistoryOk

\* One attribute of an issue is left alone, or changed for the first time at this tick.
Edit(changes, from, newChanges, to, at) ==
    \/ newChanges = changes /\ to = from
    \/ /\ \A c \in changes : c.at < at
       /\ \E c : /\ newChanges = changes \cup {c}
                 /\ c.at = at /\ c.from = from /\ c.to = to /\ from # to

\* After an edit the changes tell the last tick as well.
LEMMA TellsTheEdit ==
    ASSUME NEW changes, NEW b \in Nat, NEW n \in Nat, b < n, NEW v, Tells(changes, v, b, n),
           NEW w, \A k \in b .. (n - 1) : w[k] = v[k],
           NEW newChanges, Edit(changes, v[n], newChanges, w[n], n)
    PROVE  Tells(newChanges, w, b, n)
  <1>1. CASE newChanges = changes /\ w[n] = v[n]
    <2>1. \A k \in b .. n : w[k] = v[k]
      <3>1. \A k \in b .. n : k \in b .. (n - 1) \/ k = n
        OBVIOUS
      <3> QED
        BY <1>1, <3>1
    <2> QED
      BY <1>1, <2>1, TellsTheSame
  <1>2. CASE ~(newChanges = changes /\ w[n] = v[n])
    <2>1. PICK c : /\ newChanges = changes \cup {c}
                   /\ c.at = n /\ c.from = v[n] /\ c.to = w[n] /\ v[n] # w[n]
      BY <1>2 DEF Edit
    <2>2. \A d \in changes : d.at < n
      BY <1>2 DEF Edit
    <2> QED
      BY <2>1, <2>2, TellsTheChange
  <1> QED
    BY <1>1, <1>2

\* An issue is as it was.
LEMMA OthersKeepHistory ==
    ASSUME NEW n \in Nat, NEW f, HistoryOk(f, n), NEW g,
           \A k \in 0 .. (n - 1) : g[k] = f[k],
           NEW j \in DOMAIN f[n], j \in DOMAIN g[n], g[n][j] = f[n][j]
    PROVE  HistoryOf(j, g, n)
    <2> DEFINE issue == f[n][j]
               b == issue.created
    <2>1. /\ b \in 0 .. n
          /\ \A k \in 0 .. n : j \in DOMAIN f[k] <=> b <= k
          /\ f[b][j].status = Initial
      BY DEF HistoryOk, HistoryOf
    <2>2. \A k \in 0 .. n : k \in 0 .. (n - 1) \/ k = n
      OBVIOUS
    <2>3. b \in Nat /\ b <= n /\ b .. n \subseteq 0 .. n
      BY <2>1
    <2>4. \A k \in b .. n : g[k][j] = f[k][j]
      BY <2>2, <2>3
    <2>5. \A k \in 0 .. n : j \in DOMAIN g[k] <=> b <= k
      BY <2>1, <2>2, <2>3
    <2>6. g[b][j].status = Initial
      BY <2>1, <2>3, <2>4
    <2>7. Tells(issue.changes, [k \in b .. n |-> g[k][j].status], b, n)
      <3> DEFINE v == [k \in b .. n |-> f[k][j].status]
                 w == [k \in b .. n |-> g[k][j].status]
      <3>1. Tells(issue.changes, v, b, n)
        BY <2>1 DEF HistoryOk, HistoryOf
      <3>2. \A k \in b .. n : w[k] = v[k]
        BY <2>4
      <3>3. Tells(issue.changes, w, b, n)
        <4> HIDE DEF v, w, b, issue
        <4> QED
          BY <2>3, <3>1, <3>2, TellsTheSame
      <3> QED
        BY <3>3
    <2>8. Tells(issue.moves, [k \in b .. n |-> g[k][j].sprints], b, n)
      <3> DEFINE v == [k \in b .. n |-> f[k][j].sprints]
                 w == [k \in b .. n |-> g[k][j].sprints]
      <3>1. Tells(issue.moves, v, b, n)
        BY <2>1 DEF HistoryOk, HistoryOf
      <3>2. \A k \in b .. n : w[k] = v[k]
        BY <2>4
      <3>3. Tells(issue.moves, w, b, n)
        <4> HIDE DEF v, w, b, issue
        <4> QED
          BY <2>3, <3>1, <3>2, TellsTheSame
      <3> QED
        BY <3>3
    <2>9. Tells(issue.pointChanges, [k \in b .. n |-> g[k][j].points], b, n)
      <3> DEFINE v == [k \in b .. n |-> f[k][j].points]
                 w == [k \in b .. n |-> g[k][j].points]
      <3>1. Tells(issue.pointChanges, v, b, n)
        BY <2>1 DEF HistoryOk, HistoryOf
      <3>2. \A k \in b .. n : w[k] = v[k]
        BY <2>4
      <3>3. Tells(issue.pointChanges, w, b, n)
        <4> HIDE DEF v, w, b, issue
        <4> QED
          BY <2>3, <3>1, <3>2, TellsTheSame
      <3> QED
        BY <3>3
    <2> QED
      BY <2>1, <2>5, <2>6, <2>7, <2>8, <2>9 DEF HistoryOf

\* An issue that was there is edited.
LEMMA EditKeepsHistory ==
    ASSUME NEW n \in Nat, NEW f, HistoryOk(f, n), NEW i \in DOMAIN f[n],
           f[n][i].created < n, NEW x, x.created = f[n][i].created,
           Edit(f[n][i].changes, f[n][i].status, x.changes, x.status, n),
           Edit(f[n][i].moves, f[n][i].sprints, x.moves, x.sprints, n),
           Edit(f[n][i].pointChanges, f[n][i].points, x.pointChanges, x.points, n),
           NEW g, g = [k \in 0 .. n |-> IF k < n THEN f[k] ELSE [f[n] EXCEPT ![i] = x]]
    PROVE  HistoryOk(g, n)
  <1>1. /\ \A k \in 0 .. (n - 1) : g[k] = f[k]
        /\ DOMAIN g[n] = DOMAIN f[n] /\ g[n][i] = x
        /\ \A j \in DOMAIN f[n] \ {i} : g[n][j] = f[n][j]
    OBVIOUS
  <1>2. \A k \in 0 .. n : k \in 0 .. (n - 1) \/ k = n
    OBVIOUS
  <1>3. \A k \in 0 .. n : DOMAIN g[k] \subseteq DOMAIN g[n]
    BY <1>1, <1>2 DEF HistoryOk
  <1>4. HistoryOf(i, g, n)
    <2> DEFINE old == f[n][i]
               b == old.created
    <2>1. /\ b \in 0 .. n /\ x.created = b
          /\ \A k \in 0 .. n : i \in DOMAIN f[k] <=> b <= k
          /\ f[b][i].status = Initial
      BY DEF HistoryOk, HistoryOf
    <2>2. b \in Nat /\ b < n /\ n \in b .. n /\ b .. (n - 1) \subseteq 0 .. (n - 1)
          /\ b \in 0 .. (n - 1) /\ b .. (n - 1) \subseteq b .. n
      BY <2>1
    <2>3. \A k \in 0 .. n : i \in DOMAIN g[k] <=> b <= k
      BY <1>1, <1>2, <2>1, <2>2
    <2>4. g[b][i].status = Initial
      BY <1>1, <2>1, <2>2
    <2>5. Tells(x.changes, [k \in b .. n |-> g[k][i].status], b, n)
      <3> DEFINE v == [k \in b .. n |-> f[k][i].status]
                 w == [k \in b .. n |-> g[k][i].status]
      <3>1. Tells(old.changes, v, b, n)
        BY DEF HistoryOk, HistoryOf
      <3>2. v[n] = old.status /\ w[n] = x.status /\ \A k \in b .. (n - 1) : w[k] = v[k]
        BY ONLY n \in Nat, <1>1, <2>1, <2>2
      <3>3. Tells(x.changes, w, b, n)
        <4>1. Edit(old.changes, v[n], x.changes, w[n], n)
          BY <3>2
        <4> HIDE DEF v, w, b, old
        <4> QED
          BY <2>2, <3>1, <3>2, <4>1, TellsTheEdit
      <3> QED
        BY <3>3
    <2>6. Tells(x.moves, [k \in b .. n |-> g[k][i].sprints], b, n)
      <3> DEFINE v == [k \in b .. n |-> f[k][i].sprints]
                 w == [k \in b .. n |-> g[k][i].sprints]
      <3>1. Tells(old.moves, v, b, n)
        BY DEF HistoryOk, HistoryOf
      <3>2. v[n] = old.sprints /\ w[n] = x.sprints /\ \A k \in b .. (n - 1) : w[k] = v[k]
        BY ONLY n \in Nat, <1>1, <2>1, <2>2
      <3>3. Tells(x.moves, w, b, n)
        <4>1. Edit(old.moves, v[n], x.moves, w[n], n)
          BY <3>2
        <4> HIDE DEF v, w, b, old
        <4> QED
          BY <2>2, <3>1, <3>2, <4>1, TellsTheEdit
      <3> QED
        BY <3>3
    <2>7. Tells(x.pointChanges, [k \in b .. n |-> g[k][i].points], b, n)
      <3> DEFINE v == [k \in b .. n |-> f[k][i].points]
                 w == [k \in b .. n |-> g[k][i].points]
      <3>1. Tells(old.pointChanges, v, b, n)
        BY DEF HistoryOk, HistoryOf
      <3>2. v[n] = old.points /\ w[n] = x.points /\ \A k \in b .. (n - 1) : w[k] = v[k]
        BY ONLY n \in Nat, <1>1, <2>1, <2>2
      <3>3. Tells(x.pointChanges, w, b, n)
        <4>1. Edit(old.pointChanges, v[n], x.pointChanges, w[n], n)
          BY <3>2
        <4> HIDE DEF v, w, b, old
        <4> QED
          BY <2>2, <3>1, <3>2, <4>1, TellsTheEdit
      <3> QED
        BY <3>3
    <2> QED
      BY <1>1, <2>1, <2>3, <2>4, <2>5, <2>6, <2>7 DEF HistoryOf
  <1>5. \A j \in DOMAIN f[n] \ {i} : HistoryOf(j, g, n)
    BY <1>1, OthersKeepHistory
  <1> QED
    BY <1>1, <1>3, <1>4, <1>5 DEF HistoryOk

\* An issue is created.
LEMMA CreateKeepsHistory ==
    ASSUME NEW n \in Nat, NEW f, HistoryOk(f, n), NEW i, i \notin DOMAIN f[n],
           NEW x, x.created = n, x.status = Initial,
           x.changes = {}, x.moves = {}, x.pointChanges = {},
           NEW g, \A k \in 0 .. (n - 1) : g[k] = f[k],
           DOMAIN g[n] = DOMAIN f[n] \cup {i}, g[n][i] = x,
           \A j \in DOMAIN f[n] : g[n][j] = f[n][j]
    PROVE  HistoryOk(g, n)
  <1>2. \A k \in 0 .. n : k \in 0 .. (n - 1) \/ k = n
    OBVIOUS
  <1>3. \A k \in 0 .. n : DOMAIN g[k] \subseteq DOMAIN g[n]
    BY <1>2 DEF HistoryOk
  <1>4. HistoryOf(i, g, n)
    <2>1. \A k \in 0 .. n : i \in DOMAIN g[k] <=> n <= k
      <3>1. \A k \in 0 .. (n - 1) : i \notin DOMAIN f[k] /\ ~(n <= k)
        BY DEF HistoryOk
      <3> QED
        BY <1>2, <3>1
    <2>2. \A v : Tells({}, v, n, n)
      <3>1. (n + 1) .. n = {}
        OBVIOUS
      <3> QED
        BY <3>1 DEF Tells
    <2>3. /\ Tells({}, [k \in n .. n |-> g[k][i].status], n, n)
          /\ Tells({}, [k \in n .. n |-> g[k][i].sprints], n, n)
          /\ Tells({}, [k \in n .. n |-> g[k][i].points], n, n)
      BY <2>2
    <2>4. n \in 0 .. n /\ g[n][i].created = n /\ g[n][i].status = Initial
      OBVIOUS
    <2> QED
      BY ONLY g[n][i] = x, x.created = n, x.changes = {}, x.moves = {}, x.pointChanges = {},
              <2>1, <2>3, <2>4 DEF HistoryOf
  <1>5. \A j \in DOMAIN f[n] : HistoryOf(j, g, n)
    BY OthersKeepHistory
  <1> QED
    BY <1>3, <1>4, <1>5 DEF HistoryOk


-----------------------------------------------------------------------------
\* Before there is an issue nothing is to be told.
LEMMA ReportsInit == Init => TypeInv /\ HistoryInv
  <1> SUFFICES ASSUME Init
               PROVE  TypeInv /\ HistoryInv
    OBVIOUS
  <1>1. world.maxNow \in Nat /\ world.maxEvents \in Nat
    BY ReportsAssumption DEF Init
  <1>2. <<>> \in Boards(world) /\ DOMAIN <<>> = {}
    <2>1. <<>> \in [{} -> IssueType] /\ {} \in SUBSET world.issues
      OBVIOUS
    <2> QED
      BY <2>1 DEF Boards
  <1>3. TypeInv
    BY <1>1, <1>2 DEF Init, TypeInv
  <1>4. Film[0] = <<>> /\ \A k \in 0 .. 0 : k = 0
    BY DEF Init, Film, At
  <1> QED
    BY <1>2, <1>3, <1>4 DEF HistoryInv, HistoryOk, Init

\* Time passes without a change of any issue.
LEMMA TickKeeps ==
    ASSUME TypeInv, HistoryInv, Tick
    PROVE  TypeInv' /\ HistoryInv'
  <1>1. now \in Nat /\ world.maxNow \in Nat
    BY WorldTypes
  <1>2. past' \in Seq(Boards(world)) /\ Len(past') = now + 1
    BY <1>1 DEF Tick, TypeInv
  <1>3. TypeInv'
    BY <1>1, <1>2 DEF Tick, TypeInv
  <1>4. Film' = [k \in 0 .. (now + 1) |-> IF k <= now THEN Film[k] ELSE Film[now]]
    BY FilmOfTick DEF Tick
  <1>5. HistoryOk(Film', now + 1)
    BY <1>1, <1>4, TickKeepsHistory DEF HistoryInv
  <1>6. now' = now + 1
    BY DEF Tick
  <1> QED
    BY <1>3, <1>5, <1>6 DEF HistoryInv

\* What an edit of an issue may be.
Edited(i, x) ==
    /\ i \in DOMAIN jira /\ jira[i].created < now /\ jira' = [jira EXCEPT ![i] = x]
    /\ x.created = jira[i].created
    /\ Edit(jira[i].changes, jira[i].status, x.changes, x.status, now)
    /\ Edit(jira[i].moves, jira[i].sprints, x.moves, x.sprints, now)
    /\ Edit(jira[i].pointChanges, jira[i].points, x.pointChanges, x.points, now)

\* Moving, planning and estimating are edits of one issue.
LEMMA IssueEdits ==
    ASSUME TypeInv, NEW i \in DOMAIN jira,
           (\E s \in Statuses : MoveIssue(i, s)) \/ PlanIssue(i)
              \/ \E p \in PointValues : EstimateIssue(i, p)
    PROVE  /\ \E x \in IssueType : Named(x) /\ Edited(i, x)
           /\ tables' = TablesOf(world, jira', now)
           /\ UNCHANGED <<world, now, past, rules>> /\ events' \in 0 .. world.maxEvents
  <1>1. /\ jira[i] \in IssueType /\ now \in Nat /\ world.maxEvents \in Nat /\ events \in Nat
        /\ Named(jira[i])
    BY WorldTypes, ReportsAssumption DEF TypeInv
  <1>2. ASSUME NEW s \in Statuses, MoveIssue(i, s)
        PROVE  \E x \in IssueType : Named(x) /\ Edited(i, x)
    <2> DEFINE old == jira[i]
               c == [at |-> now, from |-> old.status, to |-> s, name |-> s]
               x == [old EXCEPT !.status = s, !.statusName = s, !.resolved = Resolution(old, s),
                                !.changes = @ \cup {c}]
    <2>1. /\ s # old.status /\ old.created < now /\ \A d \in old.changes : d.at < now
          /\ jira' = [jira EXCEPT ![i] = x]
      BY <1>2 DEF MoveIssue, Change
    <2>2. Resolution(old, s) \in Nat \cup {Nothing}
      BY <1>1 DEF Resolution, IssueType
    <2>3. c \in [at : Nat, from : Statuses, to : Statuses, name : Statuses]
      BY <1>1 DEF IssueType
    <2>4. x \in IssueType
      BY <1>1, <2>2, <2>3 DEF IssueType
    <2>5. /\ x.created = old.created /\ x.status = s /\ x.changes = old.changes \cup {c}
          /\ x.sprints = old.sprints /\ x.moves = old.moves
          /\ x.points = old.points /\ x.pointChanges = old.pointChanges
      BY <1>1 DEF IssueType
    <2>7. Named(x)
      BY <1>1 DEF Named, IssueType
    <2>6. c.at = now /\ c.from = old.status /\ c.to = s
      OBVIOUS
    <2> HIDE DEF x, c
    <2> QED
      BY <2>1, <2>4, <2>5, <2>6, <2>7 DEF Edited, Edit
  <1>3. ASSUME PlanIssue(i)
        PROVE  \E x \in IssueType : Named(x) /\ Edited(i, x)
    <2> DEFINE old == jira[i]
               new == {"sprint"} \ old.sprints
               c == [at |-> now, from |-> old.sprints, to |-> new]
               x == [old EXCEPT !.sprints = new, !.moves = @ \cup {c}]
    <2>1. /\ old.created < now /\ \A d \in old.moves : d.at < now
          /\ jira' = [jira EXCEPT ![i] = x]
      BY <1>3 DEF PlanIssue, Change
    <2>2. new # old.sprints /\ new \in SUBSET {"sprint"}
      BY <1>1 DEF IssueType
    <2>3. c \in [at : Nat, from : SUBSET {"sprint"}, to : SUBSET {"sprint"}]
      BY <1>1, <2>2 DEF IssueType
    <2>4. x \in IssueType
      BY <1>1, <2>2, <2>3 DEF IssueType
    <2>5. /\ x.created = old.created /\ x.status = old.status /\ x.changes = old.changes
          /\ x.sprints = new /\ x.moves = old.moves \cup {c}
          /\ x.points = old.points /\ x.pointChanges = old.pointChanges
      BY <1>1 DEF IssueType
    <2>7. Named(x)
      BY <1>1 DEF Named, IssueType
    <2>6. c.at = now /\ c.from = old.sprints /\ c.to = new
      OBVIOUS
    <2> HIDE DEF x, c, new
    <2> QED
      BY <2>1, <2>2, <2>4, <2>5, <2>6, <2>7 DEF Edited, Edit
  <1>4. ASSUME NEW p \in PointValues, EstimateIssue(i, p)
        PROVE  \E x \in IssueType : Named(x) /\ Edited(i, x)
    <2> DEFINE old == jira[i]
               c == [at |-> now, from |-> old.points, to |-> p]
               x == [old EXCEPT !.points = p, !.pointChanges = @ \cup {c}]
    <2>1. /\ p # old.points /\ old.created < now /\ \A d \in old.pointChanges : d.at < now
          /\ jira' = [jira EXCEPT ![i] = x]
      BY <1>4 DEF EstimateIssue, Change
    <2>3. c \in [at : Nat, from : PointValues, to : PointValues]
      BY <1>1 DEF IssueType
    <2>4. x \in IssueType
      BY <1>1, <2>3 DEF IssueType
    <2>5. /\ x.created = old.created /\ x.status = old.status /\ x.changes = old.changes
          /\ x.sprints = old.sprints /\ x.moves = old.moves
          /\ x.points = p /\ x.pointChanges = old.pointChanges \cup {c}
      BY <1>1 DEF IssueType
    <2>7. Named(x)
      BY <1>1 DEF Named, IssueType
    <2>6. c.at = now /\ c.from = old.points /\ c.to = p
      OBVIOUS
    <2> HIDE DEF x, c
    <2> QED
      BY <2>1, <2>4, <2>5, <2>6, <2>7 DEF Edited, Edit
  <1>5. /\ tables' = TablesOf(world, jira', now)
        /\ UNCHANGED <<world, now, past, rules>> /\ events < world.maxEvents /\ events' = events + 1
    BY DEF MoveIssue, PlanIssue, EstimateIssue, Change, Event
  <1>6. events' \in 0 .. world.maxEvents
    BY <1>1, <1>5
  <1> QED
    BY <1>2, <1>3, <1>4, <1>5, <1>6

\* Such an edit keeps the invariant.
LEMMA EditKeeps ==
    ASSUME TypeInv, HistoryInv, NEW i \in DOMAIN jira, NEW x \in IssueType, Named(x), Edited(i, x),
           tables' = TablesOf(world, jira', now),
           UNCHANGED <<world, now, past, rules>>, events' \in 0 .. world.maxEvents
    PROVE  TypeInv' /\ HistoryInv'
  <1>1. jira' \in Boards(world)
    <2>1. PICK D \in SUBSET world.issues : jira \in [D -> IssueType]
      BY DEF TypeInv, Boards
    <2>2. jira' \in [D -> IssueType]
      BY <2>1 DEF Edited
    <2> QED
      BY <2>2 DEF Boards
  <1>2. TypeInv'
    <2>1. \A j \in DOMAIN jira' : Named(jira'[j])
      BY DEF TypeInv, Edited
    <2> QED
      BY <1>1, <2>1 DEF TypeInv
  <1>3. Film' = [k \in 0 .. now |-> IF k < now THEN Film[k] ELSE [Film[now] EXCEPT ![i] = x]]
    BY FilmOfEdit, FilmOfNow DEF Edited
  <1>4. Film[now] = jira /\ now \in Nat
    BY FilmOfNow, WorldTypes
  <1>5. HistoryOk(Film', now)
    BY <1>3, <1>4, EditKeepsHistory DEF HistoryInv, Edited
  <1> QED
    BY <1>2, <1>5 DEF HistoryInv

\* A new issue has nothing to tell.
LEMMA CreateKeeps ==
    ASSUME TypeInv, HistoryInv, NEW i \in world.issues, NEW planned \in BOOLEAN,
           NEW points \in PointValues, CreateIssue(i, planned, points)
    PROVE  TypeInv' /\ HistoryInv'
  <1> DEFINE x == [created |-> now, status |-> Initial, statusName |-> Initial, changes |-> {},
                   sprints |-> IF planned THEN {"sprint"} ELSE {}, moves |-> {},
                   points |-> points, pointChanges |-> {}, resolved |-> Nothing]
  <1>1. /\ now \in Nat /\ Initial \in Statuses /\ events \in Nat /\ world.maxEvents \in Nat
    BY WorldTypes, ReportsAssumption DEF TypeInv
  <1>2. x \in IssueType
    BY <1>1 DEF IssueType
  <1>3. /\ i \notin DOMAIN jira
        /\ jira' = [j \in DOMAIN jira \cup {i} |-> IF j # i THEN jira[j] ELSE x]
        /\ tables' = TablesOf(world, jira', now) /\ UNCHANGED <<world, now, past, rules>>
        /\ events < world.maxEvents /\ events' = events + 1
    BY DEF CreateIssue, Event
  <1>4. x.created = now /\ x.status = Initial /\ x.changes = {} /\ x.moves = {} /\ x.pointChanges = {}
    OBVIOUS
  <1>11. Named(x)
    BY DEF Named
  <1> HIDE DEF x
  <1>5. jira' \in Boards(world)
    <2>1. PICK D \in SUBSET world.issues : jira \in [D -> IssueType]
      BY DEF TypeInv, Boards
    <2>2. jira' \in [D \cup {i} -> IssueType] /\ D \cup {i} \in SUBSET world.issues
      BY <1>2, <1>3, <2>1
    <2> QED
      BY <2>2 DEF Boards
  <1>6. events' \in 0 .. world.maxEvents
    BY <1>1, <1>3
  <1>7. TypeInv'
    <2>1. \A j \in DOMAIN jira' : Named(jira'[j])
      BY <1>3, <1>11 DEF TypeInv
    <2> QED
      BY <1>3, <1>5, <1>6, <2>1 DEF TypeInv
  <1>8. Film[now] = jira
    BY FilmOfNow
  <1>9. Film' = [k \in 0 .. now |-> IF k < now THEN Film[k] ELSE
                    [j \in DOMAIN Film[now] \cup {i} |-> IF j # i THEN Film[now][j] ELSE x]]
    BY <1>3, <1>8, FilmOfEdit
  <1>10. HistoryOk(Film', now)
    <2>1. HistoryOk(Film, now) /\ i \notin DOMAIN Film[now]
      BY <1>3, <1>8 DEF HistoryInv
    <2>2. /\ \A k \in 0 .. (now - 1) : Film'[k] = Film[k]
          /\ DOMAIN Film'[now] = DOMAIN Film[now] \cup {i} /\ Film'[now][i] = x
          /\ \A j \in DOMAIN Film[now] : Film'[now][j] = Film[now][j]
      BY <1>1, <1>9, <2>1
    <2> QED
      BY <1>1, <1>4, <2>1, <2>2, CreateKeepsHistory
  <1> QED
    BY <1>3, <1>7, <1>10 DEF HistoryInv

\* A rule changes no issue.
LEMMA RulesKeep ==
    ASSUME TypeInv, HistoryInv, NEW rule \in RuleType, SaveRule(rule)
    PROVE  TypeInv' /\ HistoryInv'
  <1>1. /\ events \in Nat /\ world.maxEvents \in Nat
    BY ReportsAssumption DEF TypeInv
  <1>2. /\ rules' = {r \in rules : <<r.project, r.board>> # <<rule.project, rule.board>>} \cup {rule}
        /\ UNCHANGED <<world, now, past, jira, tables>>
        /\ events < world.maxEvents /\ events' = events + 1
    BY DEF SaveRule, Event
  <1>3. rules' \subseteq RuleType
    BY <1>2 DEF TypeInv
  <1>4. \A r, s \in rules' : r.project = s.project /\ r.board = s.board => r = s
    BY <1>2 DEF TypeInv
  <1>5. events' \in 0 .. world.maxEvents
    BY <1>1, <1>2
  <1>6. TypeInv'
    BY <1>2, <1>3, <1>4, <1>5 DEF TypeInv
  <1>7. Film' = Film /\ now' = now
    BY <1>2 DEF Film, At
  <1> QED
    BY <1>6, <1>7 DEF HistoryInv

\* Every step is one of these.
LEMMA ReportsStep == TypeInv /\ HistoryInv /\ [Next]_vars => TypeInv' /\ HistoryInv'
  <1> SUFFICES ASSUME TypeInv, HistoryInv, [Next]_vars
               PROVE  TypeInv' /\ HistoryInv'
    OBVIOUS
  <1>1. CASE Tick
    BY <1>1, TickKeeps
  <1>2. CASE \E i \in world.issues, planned \in BOOLEAN, points \in PointValues :
                CreateIssue(i, planned, points)
    BY <1>2, CreateKeeps
  <1>3. CASE \E i \in DOMAIN jira : \/ \E s \in Statuses : MoveIssue(i, s)
                                    \/ PlanIssue(i)
                                    \/ \E p \in PointValues : EstimateIssue(i, p)
    <2>1. PICK i \in DOMAIN jira : \/ \E s \in Statuses : MoveIssue(i, s)
                                   \/ PlanIssue(i)
                                   \/ \E p \in PointValues : EstimateIssue(i, p)
      BY <1>3
    <2>2. /\ \E x \in IssueType : Named(x) /\ Edited(i, x)
          /\ tables' = TablesOf(world, jira', now)
          /\ UNCHANGED <<world, now, past, rules>> /\ events' \in 0 .. world.maxEvents
      BY <2>1, IssueEdits
    <2> QED
      BY <2>2, EditKeeps
  <1>4. CASE \E r \in Rules : SaveRule([project |-> r.project, board |-> r.board,
                                        start |-> r.span[1], end |-> r.span[2]])
    <2>1. PICK r \in Rules : SaveRule([project |-> r.project, board |-> r.board,
                                       start |-> r.span[1], end |-> r.span[2]])
      BY <1>4
    <2>2. [project |-> r.project, board |-> r.board, start |-> r.span[1], end |-> r.span[2]]
            \in RuleType
      BY DEF Rules, RuleType
    <2> QED
      BY <2>1, <2>2, RulesKeep
  <1>5. CASE UNCHANGED vars
    <2>1. TypeInv'
      BY <1>5 DEF vars, TypeInv
    <2>2. Film' = Film /\ now' = now
      BY <1>5 DEF vars, Film, At
    <2> QED
      BY <2>1, <2>2 DEF HistoryInv
  <1> QED
    BY <1>1, <1>2, <1>3, <1>4, <1>5 DEF Next, PointValues

\* The inductive invariant of the reports.
LEMMA ReportsCorrect == Spec => [](TypeInv /\ HistoryInv)
  BY ReportsInit, ReportsStep, PTL DEF Spec

-----------------------------------------------------------------------------
\* What the histories tell of a status, at a tick of the issue's life.
LEMMA StatusesAreTold ==
    ASSUME TypeInv, HistoryInv, NEW i \in DOMAIN jira
    PROVE  /\ jira[i].created \in 0 .. now /\ now \in Nat
           /\ \A k \in Life(i) : i \in DOMAIN At(k) /\ StatusAt(i, k) \in Statuses
           /\ StatusAt(i, jira[i].created) = Initial /\ StatusAt(i, now) = jira[i].status
           /\ \A c \in jira[i].changes :
                /\ c.at \in After(i) /\ c.from # c.to
                /\ c.from = StatusAt(i, c.at - 1) /\ c.to = StatusAt(i, c.at)
           /\ \A c, d \in jira[i].changes : c.at = d.at => c = d
           /\ \A k \in After(i) : StatusAt(i, k) # StatusAt(i, k - 1) =>
                \E c \in jira[i].changes : c.at = k
  <1>1. HistoryOf(i, Film, now) /\ Film[now] = jira /\ \A k \in 0 .. now : Film[k] = At(k)
    BY FilmOfNow DEF HistoryInv, HistoryOk
  <1> DEFINE b == jira[i].created
             v == [k \in b .. now |-> Film[k][i].status]
  <1>2. /\ b \in 0 .. now /\ \A k \in 0 .. now : i \in DOMAIN Film[k] <=> b <= k
        /\ Film[b][i].status = Initial /\ Tells(jira[i].changes, v, b, now)
    BY <1>1 DEF HistoryOf
  <1>3. now \in Nat
    BY WorldTypes
  <1>4. b .. now \subseteq 0 .. now /\ now \in b .. now /\ b \in b .. now
        /\ \A k \in b .. now : b <= k
    BY <1>2, <1>3
  <1>5. \A k \in b .. now : v[k] = StatusAt(i, k) /\ i \in DOMAIN At(k)
    BY <1>1, <1>2, <1>4 DEF StatusAt
  <1>6. \A k \in (b + 1) .. now : k \in b .. now /\ k - 1 \in b .. now
    BY <1>2, <1>3
  <1>7. \A k \in b .. now : StatusAt(i, k) \in Statuses
    <2> TAKE k \in b .. now
    <2>1. At(k) \in Boards(world)
      <3>1. k + 1 \in 1 .. now \/ At(k) = jira
        BY <1>2, <1>3, <1>4 DEF At
      <3> QED
        BY <3>1, WorldTypes DEF At, TypeInv
    <2>2. At(k)[i] \in IssueType
      BY <1>5, <2>1 DEF Boards
    <2> QED
      BY <2>2 DEF StatusAt, IssueType
  <1>8. StatusAt(i, b) = Initial /\ StatusAt(i, now) = jira[i].status
    BY <1>1, <1>2, <1>4 DEF StatusAt
  <1> HIDE DEF v
  <1>9. \A c \in jira[i].changes :
                /\ c.at \in (b + 1) .. now /\ c.from # c.to
                /\ c.from = StatusAt(i, c.at - 1) /\ c.to = StatusAt(i, c.at)
    BY <1>2, <1>5, <1>6 DEF Tells
  <1>10. \A k \in (b + 1) .. now : StatusAt(i, k) # StatusAt(i, k - 1) =>
                \E c \in jira[i].changes : c.at = k
    BY <1>2, <1>5, <1>6 DEF Tells
  <1>11. \A c, d \in jira[i].changes : c.at = d.at => c = d
    BY <1>2 DEF Tells
  <1> QED
    BY <1>2, <1>3, <1>5, <1>7, <1>8, <1>9, <1>10, <1>11 DEF Life, After

\* The histories are what changed from tick to tick, and a project and board have one rule.
THEOREM ReportsTypeCorrect == Spec => []TypeOK
  <1>1. ASSUME TypeInv, HistoryInv, NEW i \in DOMAIN jira
        PROVE  /\ jira[i].created \in 0 .. now /\ jira[i].status \in Statuses
               /\ Times(jira[i].changes) = Came(i, Statuses)
               /\ \A k \in Life(i) : i \in DOMAIN At(k)
    <2>1. now \in Life(i)
      BY <1>1, StatusesAreTold DEF Life
    <2>2. /\ jira[i].created \in 0 .. now /\ jira[i].status \in Statuses
          /\ \A k \in Life(i) : i \in DOMAIN At(k) /\ StatusAt(i, k) \in Statuses
      BY <1>1, <2>1, StatusesAreTold
    <2>3. /\ \A c \in jira[i].changes : c.at \in After(i) /\ c.from # c.to
                /\ c.from = StatusAt(i, c.at - 1) /\ c.to = StatusAt(i, c.at)
          /\ \A k \in After(i) : StatusAt(i, k) # StatusAt(i, k - 1) =>
                \E c \in jira[i].changes : c.at = k
      BY <1>1, StatusesAreTold
    <2>4. After(i) \subseteq Life(i)
      BY <1>1, StatusesAreTold DEF After, Life
    <2> QED
      BY <2>2, <2>3, <2>4 DEF Times, Came
  <1>2. TypeInv /\ HistoryInv => TypeOK
    BY <1>1 DEF TypeOK, TypeInv
  <1> QED
    BY <1>2, ReportsCorrect, PTL

-----------------------------------------------------------------------------
\* What the clean layer makes of the history: the names of the statuses.

\* The statuses the clean layer knows: from earlier runs, of the issues now, and of their
\* changes.
KnownTo(w, issues) ==
    w.known \cup {issues[i].status : i \in DOMAIN issues}
            \cup UNION {{c.to : c \in issues[i].changes} : i \in DOMAIN issues}

Raw(issues) == [issues |-> issues, tables |-> {"items"}]

Known0(w) == [issue_statuses |-> [s \in w.known |-> s]]

\* The dimension of statuses has those of earlier runs and those the issues name.
LEMMA StatusesAreKnown ==
    ASSUME NEW w, NEW issues, \A i \in DOMAIN issues : Named(issues[i]),
           \A i \in DOMAIN issues : \A c \in issues[i].changes : c.to \in Nat
    PROVE  DOMAIN Clean!CleanIssueStatuses(Known0(w), Raw(issues)).issue_statuses = KnownTo(w, issues)
  <1> DEFINE raw == Raw(issues)
             old == [s \in w.known |-> s]
             rows == Clean!StatusRows(raw)
             current == Clean!UpsertedNames(old, rows)
             found == Clean!Historical(current, raw)
             added == [id \in Clean!IdsOf(found) |->
                CHOOSE n \in {c[2] : c \in {c \in found : c[1] = id}} :
                    \A d \in found : d[1] = id => n <= d[2]]
  <1>1. rows = {<<issues[i].status, issues[i].status>> : i \in DOMAIN issues}
    <2>1. \A i \in DOMAIN issues : issues[i].statusName = issues[i].status
      BY DEF Named
    <2> QED
      BY <2>1 DEF Clean!StatusRows, Clean!Loaded, Raw
  <1>2. Clean!IdsOf(rows) = {issues[i].status : i \in DOMAIN issues}
    <2>1. \A r \in rows : r[1] \in {issues[i].status : i \in DOMAIN issues}
      BY <1>1
    <2>2. ASSUME NEW i \in DOMAIN issues
          PROVE  \E r \in rows : r[1] = issues[i].status
      <3>1. <<issues[i].status, issues[i].status>> \in rows
        BY <1>1
      <3> QED
        BY <3>1
    <2> HIDE DEF rows
    <2> QED
      BY <2>1, <2>2 DEF Clean!IdsOf
  <1>3. DOMAIN current = w.known \cup {issues[i].status : i \in DOMAIN issues}
    <2> HIDE DEF rows
    <2> QED
      BY <1>2 DEF Clean!UpsertedNames, Clean!Upserted
  <1>4. \A id \in DOMAIN current : current[id] = id
    <2>1. \A id \in Clean!IdsOf(rows) : Clean!NameOf(rows, id) = id
      <3> TAKE id \in Clean!IdsOf(rows)
      <3>1. PICK r \in rows : r[1] = id
        BY DEF Clean!IdsOf
      <3>2. \A s \in rows : s[2] = s[1]
        BY <1>1
      <3> HIDE DEF rows
      <3> QED
        BY <3>1, <3>2 DEF Clean!NameOf
    <2> HIDE DEF rows
    <2> QED
      BY <2>1 DEF Clean!UpsertedNames, Clean!Upserted
  <1>5. Clean!StatusChanges(raw) = UNION {issues[i].changes : i \in DOMAIN issues}
    BY DEF Clean!StatusChanges, Clean!Loaded, Raw
  <1>6. \A c \in Clean!StatusChanges(raw) : c.name = c.to
    BY <1>5 DEF Named
  <1> DEFINE tos == {c.to : c \in Clean!StatusChanges(raw)}
  <1>7. tos = UNION {{c.to : c \in issues[i].changes} : i \in DOMAIN issues}
    BY <1>5
  <1>8. \A p : p \in Clean!Candidates(raw) <=> p[1] \in tos /\ p = <<p[1], p[1]>>
    <2>1. \A c, d \in Clean!StatusChanges(raw) : d.name = c.name => c.to <= d.to
      BY <1>5, <1>6
    <2>2. Clean!Candidates(raw) = {<<c.to, c.to>> : c \in Clean!StatusChanges(raw)}
      <3> HIDE DEF raw
      <3> QED
        BY <1>6, <2>1 DEF Clean!Candidates
    <2> HIDE DEF raw
    <2> QED
      BY <2>2
  <1>9. \A p : p \in found <=> p[1] \in tos \ DOMAIN current /\ p = <<p[1], p[1]>>
    <2>1. found = {c \in Clean!Candidates(raw) : c[1] \notin DOMAIN current
                        /\ \A id \in DOMAIN current : current[id] # c[2]}
      BY DEF Clean!Historical
    <2> HIDE DEF current, found, raw, tos
    <2> QED
      BY <1>4, <1>8, <2>1
  <1>10. Clean!IdsOf(found) = tos \ DOMAIN current
    <2>1. \A s \in tos \ DOMAIN current : <<s, s>> \in found /\ <<s, s>>[1] = s
      <3> HIDE DEF current, found, raw, tos
      <3> QED
        BY <1>9
    <2> HIDE DEF current, found, raw, tos
    <2> QED
      BY <1>9, <2>1 DEF Clean!IdsOf
  <1>11. Clean!CleanIssueStatuses(Known0(w), raw).issue_statuses = Clean!Added(current, added)
    BY DEF Clean!CleanIssueStatuses, Known0, Raw
  <1>12. DOMAIN Clean!Added(current, added) = DOMAIN current \cup (tos \ DOMAIN current)
    <2> HIDE DEF current, found, tos
    <2> QED
      BY <1>10 DEF Clean!Added, Clean!Upserted
  <1> QED
    BY <1>3, <1>7, <1>11, <1>12 DEF KnownTo

-----------------------------------------------------------------------------
\* What the clean layer makes of the history: the log of status changes.

\* What the clean layer makes of the changes of status: those whose old status it does not
\* know come from NULL.
Logged(w, issues, i, c) ==
    [issue |-> i, from |-> IF c.from \in KnownTo(w, issues) THEN c.from ELSE Nothing,
     to |-> c.to, at |-> c.at]

\* Histories that can be loaded: names tell statuses, times tell changes.
Loadable(issues) ==
    \A i \in DOMAIN issues :
        /\ Named(issues[i])
        /\ \A c \in issues[i].changes : c.to \in Nat
        /\ \A c, d \in issues[i].changes : c.at = d.at => c = d

\* The rows of the changelog are the changes of the histories.
LEMMA ChangelogIsTheHistory ==
    ASSUME NEW w, NEW issues, Loadable(issues), NEW at
    PROVE  \A r : r \in TablesOf(w, issues, at).status_changelog <=>
                \E i \in DOMAIN issues : \E c \in issues[i].changes : r = Logged(w, issues, i, c)
  <1> DEFINE raw == Raw(issues)
             X == Clean!CleanIssueStatuses(Known0(w), raw).issue_statuses
             t0 == [issues |-> [i \in DOMAIN issues |-> issues[i].status],
                    issue_statuses |-> X, status_changelog |-> <<>>,
                    sprints |-> [s \in {"sprint"} |-> "active"], sprint_issues |-> <<>>,
                    sprint_issues_changelog |-> {}]
             t1 == Clean!CleanStatusChangelog(t0, raw)
             log == t1.status_changelog
             K == KnownTo(w, issues)
             known == {x \in Clean!ChangesIn(t0, raw) : x[2].to \in DOMAIN X}
             keys == {<<x[1], x[2].to, x[2].at>> : x \in known}
             from(k) == (CHOOSE x \in known : k = <<x[1], x[2].to, x[2].at>>)[2].from
  <1>1. TablesOf(w, issues, at).status_changelog =
            {[issue |-> k[1], from |-> log[k], to |-> k[2], at |-> k[3]] : k \in DOMAIN log}
    <2>1. Cleaned(w, issues).status_changelog = log
      BY DEF Cleaned, Clean!CleanSprintIssuesChangelog, Clean!CleanSprintIssues,
             Clean!CleanStatusChangelog, Raw, Known0
    <2> HIDE DEF log
    <2> QED
      BY <2>1 DEF TablesOf
  <1>2. DOMAIN X = K
    BY StatusesAreKnown DEF Loadable
  <1>3. \A x : x \in Clean!ChangesIn(t0, raw) <=>
            \E i \in DOMAIN issues : \E c \in issues[i].changes : x = <<i, c>>
    BY DEF Clean!ChangesIn, Clean!Joined, Clean!Loaded, Raw
  <1>4. \A i \in DOMAIN issues : \A c \in issues[i].changes : c.to \in K
    BY DEF KnownTo
  <1>5. \A x : x \in known <=> \E i \in DOMAIN issues : \E c \in issues[i].changes : x = <<i, c>>
    <2> HIDE DEF raw, t0, X, K
    <2> QED
      BY <1>2, <1>3, <1>4
  <1>6. log = Clean!Upserted(<<>>, [k \in keys |-> IF from(k) \in DOMAIN X THEN from(k) ELSE Nothing])
    BY DEF Clean!CleanStatusChangelog
  <1>7. /\ DOMAIN log = keys
        /\ \A k \in keys : log[k] = IF from(k) \in K THEN from(k) ELSE Nothing
    <2> DEFINE f == [k \in keys |-> IF from(k) \in DOMAIN X THEN from(k) ELSE Nothing]
    <2>1. DOMAIN f = keys /\ \A k \in keys : f[k] = IF from(k) \in K THEN from(k) ELSE Nothing
      <3> HIDE DEF keys, X, known, K
      <3> QED
        BY <1>2
    <2>2. DOMAIN <<>> = {}
      OBVIOUS
    <2>3. log = Clean!Upserted(<<>>, f)
      BY <1>6
    <2> HIDE DEF f, keys, log, from
    <2> QED
      BY <2>1, <2>2, <2>3 DEF Clean!Upserted
  <1>8. ASSUME NEW i \in DOMAIN issues, NEW c \in issues[i].changes
        PROVE  <<i, c.to, c.at>> \in keys /\ from(<<i, c.to, c.at>>) = c.from
    <2>1. <<i, c>> \in known /\ <<i, c>>[1] = i /\ <<i, c>>[2] = c
      BY <1>5
    <2>2. ASSUME NEW x \in known, <<i, c.to, c.at>> = <<x[1], x[2].to, x[2].at>>
          PROVE  x[2] = c
      <3>1. PICK j \in DOMAIN issues : \E d \in issues[j].changes : x = <<j, d>>
        BY <1>5
      <3>4. PICK d \in issues[j].changes : x = <<j, d>>
        BY <3>1
      <3>2. j = i /\ d.at = c.at
        BY <2>2, <3>4
      <3>3. d = c
        BY <3>2 DEF Loadable
      <3> QED
        BY <3>4, <3>3
    <2> HIDE DEF known
    <2> QED
      BY <2>1, <2>2
  <1>9. \A k \in keys : \E i \in DOMAIN issues : \E c \in issues[i].changes : k = <<i, c.to, c.at>>
    <2> HIDE DEF known
    <2> QED
      BY <1>5
  <1>10. \A i \in DOMAIN issues : \A c \in issues[i].changes :
            /\ <<i, c.to, c.at>> \in keys
            /\ [issue |-> i, from |-> log[<<i, c.to, c.at>>], to |-> c.to, at |-> c.at]
                    = Logged(w, issues, i, c)
    <2> HIDE DEF keys, log, from
    <2> QED
      BY <1>7, <1>8 DEF Logged
  <1> DEFINE row(k) == [issue |-> k[1], from |-> log[k], to |-> k[2], at |-> k[3]]
  <1>11. \A i \in DOMAIN issues : \A c \in issues[i].changes :
            /\ <<i, c.to, c.at>> \in DOMAIN log
            /\ row(<<i, c.to, c.at>>) = Logged(w, issues, i, c)
    <2> HIDE DEF keys, log
    <2> QED
      BY <1>7, <1>10
  <1>12. \A k \in DOMAIN log : \E i \in DOMAIN issues : \E c \in issues[i].changes :
            k = <<i, c.to, c.at>>
    BY <1>7, <1>9
  <1>13. TablesOf(w, issues, at).status_changelog = {row(k) : k \in DOMAIN log}
    BY <1>1
  <1>14. \A r : r \in TablesOf(w, issues, at).status_changelog <=> \E k \in DOMAIN log : r = row(k)
    BY <1>13
  <1> HIDE DEF log, row
  <1>15. \A k \in DOMAIN log : \E i \in DOMAIN issues : \E c \in issues[i].changes :
            row(k) = Logged(w, issues, i, c)
    BY ONLY <1>11, <1>12
  <1>16. \A i \in DOMAIN issues : \A c \in issues[i].changes :
            \E k \in DOMAIN log : Logged(w, issues, i, c) = row(k)
    BY ONLY <1>11
  <1> QED
    BY ONLY <1>14, <1>15, <1>16

-----------------------------------------------------------------------------
\* The log against the history.

\* What Jira holds satisfies what the statements of the clean layer assume.
LEMMA JiraIsLoadable ==
    ASSUME TypeInv, HistoryInv
    PROVE  Loadable(jira) /\ tables = TablesOf(world, jira, now)
  <1>1. \A i \in DOMAIN jira : \A c \in jira[i].changes : c.to \in Nat
    BY WorldTypes, ReportsAssumption DEF IssueType
  <1> QED
    BY <1>1, StatusesAreTold DEF Loadable, TypeInv

\* Something happened to a status on the way from outside S into it, or back.
LEMMA LeavesBetween ==
    ASSUME TypeInv, HistoryInv, NEW i \in DOMAIN jira, NEW S,
           NEW a \in Life(i), NEW b \in Life(i), a <= b,
           StatusAt(i, a) \in S, StatusAt(i, b) \notin S
    PROVE  \E m \in Left(i, S) : a < m /\ m <= b
  <1>1. jira[i].created \in Nat /\ now \in Nat
    BY StatusesAreTold
  <1> DEFINE out == {k \in a .. b : StatusAt(i, k) \notin S}
  <1>2. out \in SUBSET Nat /\ b \in out
    BY <1>1 DEF Life
  <1>3. PICK m \in out : \A k \in out : m <= k
    BY <1>2, LeastNatural
  <1>4. m - 1 \in a .. b /\ a < m /\ m <= b /\ m - 1 < m
    BY <1>1, <1>3 DEF Life
  <1>5. StatusAt(i, m - 1) \in S
    BY <1>2, <1>3, <1>4
  <1>6. m \in After(i)
    BY <1>1, <1>4 DEF After, Life
  <1> QED
    BY <1>3, <1>4, <1>5, <1>6 DEF Left

\* After a change, the status an issue has is one that a change has led to.
LEMMA ComesFromAChange ==
    ASSUME TypeInv, HistoryInv, NEW i \in DOMAIN jira,
           NEW c \in jira[i].changes, NEW k \in Life(i), c.at <= k
    PROVE  StatusAt(i, k) \in KnownTo(world, jira)
  <1>1. /\ jira[i].created \in Nat /\ now \in Nat /\ c.at \in After(i)
        /\ c.from # c.to /\ c.from = StatusAt(i, c.at - 1) /\ c.to = StatusAt(i, c.at)
        /\ \A d \in jira[i].changes : d.to = StatusAt(i, d.at)
        /\ \A n \in After(i) : StatusAt(i, n) # StatusAt(i, n - 1) =>
                \E d \in jira[i].changes : d.at = n
    BY StatusesAreTold
  <1> DEFINE same == {n \in c.at .. k : StatusAt(i, n) = StatusAt(i, k)}
  <1>2. same \in SUBSET Nat /\ k \in same
    BY <1>1 DEF After, Life
  <1>3. PICK n \in same : \A m \in same : n <= m
    BY <1>2, LeastNatural
  <1>4. StatusAt(i, n) # StatusAt(i, n - 1)
    <2>1. CASE n = c.at
      BY <1>1, <2>1
    <2>2. CASE n # c.at
      <3>1. n - 1 \in c.at .. k /\ n - 1 < n
        BY <1>1, <1>3, <2>2 DEF After, Life
      <3>2. n - 1 \notin same
        BY <1>2, <1>3, <3>1
      <3> QED
        BY <1>3, <3>1, <3>2
    <2> QED
      BY <2>1, <2>2
  <1>5. n \in After(i)
    BY <1>1, <1>3 DEF After, Life
  <1>6. PICK d \in jira[i].changes : d.at = n
    BY <1>1, <1>4, <1>5
  <1>7. d.to = StatusAt(i, k)
    BY <1>1, <1>3, <1>6
  <1> QED
    BY <1>7 DEF KnownTo

\* The clean tables, read by issue.
LEMMA TablesAreThoseOfJira ==
    ASSUME TypeInv, HistoryInv
    PROVE  /\ DOMAIN tables.issues = DOMAIN jira /\ tables.columns = Board /\ tables.now = now
           /\ \A i \in DOMAIN jira : /\ tables.issues[i].created = jira[i].created
                                     /\ tables.issues[i].resolved = jira[i].resolved
                                     /\ tables.issues[i].status = jira[i].status
  BY DEF TypeInv, TablesOf

\* The ticks at which the log has the issue leave S: a status it does not know it cannot
\* name.
Noted(i, S) == {k \in Left(i, S) : StatusAt(i, k - 1) \in KnownTo(world, jira)}

\* The changes of an issue in the log.
LEMMA LogOfAnIssue ==
    ASSUME TypeInv, HistoryInv, NEW i \in DOMAIN jira
    PROVE  /\ \A r : r \in ChangesOf(tables, i) <=>
                    \E c \in jira[i].changes : r = Logged(world, jira, i, c)
           /\ \A c : LET r == Logged(world, jira, i, c)
                    IN  /\ r.at = c.at /\ r.to = c.to
                        /\ r.from = IF c.from \in KnownTo(world, jira) THEN c.from ELSE Nothing
           /\ \A r \in ChangesOf(tables, i) :
                /\ r.at \in After(i) /\ r.to = StatusAt(i, r.at)
                /\ r.to \in KnownTo(world, jira) \cap Statuses
                /\ StatusAt(i, r.at) # StatusAt(i, r.at - 1)
                /\ r.from = IF StatusAt(i, r.at - 1) \in KnownTo(world, jira)
                            THEN StatusAt(i, r.at - 1) ELSE Nothing
  <1> DEFINE K == KnownTo(world, jira)
  <1>1. \A r : r \in ChangesOf(tables, i) <=> \E c \in jira[i].changes : r = Logged(world, jira, i, c)
    <2>1. \A r : r \in tables.status_changelog <=>
              \E j \in DOMAIN jira : \E c \in jira[j].changes : r = Logged(world, jira, j, c)
      BY JiraIsLoadable, ChangelogIsTheHistory
    <2>2. \A j, c : Logged(world, jira, j, c).issue = j
      BY DEF Logged
    <2> QED
      BY <2>1, <2>2 DEF ChangesOf
  <1>2. \A c : LET r == Logged(world, jira, i, c)
               IN  r.at = c.at /\ r.to = c.to /\ r.from = IF c.from \in K THEN c.from ELSE Nothing
    BY DEF Logged
  <1>3. ASSUME NEW r \in ChangesOf(tables, i)
        PROVE  /\ r.at \in After(i) /\ r.to = StatusAt(i, r.at)
               /\ r.to \in KnownTo(world, jira) \cap Statuses
               /\ StatusAt(i, r.at) # StatusAt(i, r.at - 1)
               /\ r.from = IF StatusAt(i, r.at - 1) \in K THEN StatusAt(i, r.at - 1) ELSE Nothing
    <2>1. PICK c \in jira[i].changes : r = Logged(world, jira, i, c)
      BY <1>1
    <2>2. c.at \in After(i) /\ c.from # c.to /\ c.from = StatusAt(i, c.at - 1) /\ c.to = StatusAt(i, c.at)
      BY StatusesAreTold
    <2>3. c.to \in K
      BY DEF KnownTo
    <2>4. c.to \in Statuses
      BY WorldTypes DEF IssueType
    <2> HIDE DEF K
    <2> QED
      BY <1>2, <2>1, <2>2, <2>3, <2>4 DEF K
  <1> QED
    BY <1>1, <1>2, <1>3

\* The times of entries and exits in the log are the ticks of the moves.
LEMMA LogTellsTheMoves ==
    ASSUME TypeInv, HistoryInv, NEW i \in DOMAIN jira, NEW S \in SUBSET Statuses
    PROVE  /\ Times(Entries(tables, i, S)) = Came(i, S)
           /\ Times(Exits(tables, i, S)) = Noted(i, S)
           /\ Times(ChangesOf(tables, i)) = Came(i, Statuses)
  <1> DEFINE K == KnownTo(world, jira)
             old(c) == IF c.from \in K THEN c.from ELSE Nothing
  <1>1. \A r : r \in ChangesOf(tables, i) <=> \E c \in jira[i].changes : r = Logged(world, jira, i, c)
    BY LogOfAnIssue
  <1>2. \A c : LET r == Logged(world, jira, i, c)
               IN  r.at = c.at /\ r.to = c.to /\ r.from = old(c)
    BY DEF Logged
  <1>3. /\ \A c \in jira[i].changes :
                /\ c.at \in After(i) /\ c.from # c.to
                /\ c.from = StatusAt(i, c.at - 1) /\ c.to = StatusAt(i, c.at)
        /\ \A k \in After(i) : StatusAt(i, k) # StatusAt(i, k - 1) =>
                \E c \in jira[i].changes : c.at = k
    BY StatusesAreTold
  <1>4. Nothing \notin S
    BY ReportsAssumption
  <1>5. \A k : k \in Times(ChangesOf(tables, i)) <=> \E c \in jira[i].changes : c.at = k
    BY <1>1, <1>2 DEF Times
  <1>6. \A k : k \in Times(Entries(tables, i, S)) <=>
                \E c \in jira[i].changes : c.at = k /\ c.to \in S
    BY <1>1, <1>2 DEF Times, Entries
  <1>7. \A k : k \in Times(Exits(tables, i, S)) <=>
                \E c \in jira[i].changes : c.at = k /\ old(c) \in S /\ c.to \notin S
    BY <1>1, <1>2 DEF Times, Exits
  <1>8. \A k \in After(i) : StatusAt(i, k) \in Statuses
    <2>1. After(i) \subseteq Life(i)
      BY StatusesAreTold DEF After, Life
    <2> QED
      BY <2>1, StatusesAreTold
  <1>9. Times(ChangesOf(tables, i)) = Came(i, Statuses)
    BY <1>3, <1>5, <1>8 DEF Came
  <1>10. Times(Entries(tables, i, S)) = Came(i, S)
    BY <1>3, <1>6 DEF Came
  <1>11. Times(Exits(tables, i, S)) = Noted(i, S)
    <2>1. \A c : old(c) \in S <=> c.from \in K /\ c.from \in S
      BY <1>4
    <2> HIDE DEF K, old
    <2>2. \A k : k \in Times(Exits(tables, i, S)) <=>
                \E c \in jira[i].changes : c.at = k /\ c.from \in K /\ c.from \in S /\ c.to \notin S
      BY <1>7, <2>1
    <2>3. \A k : k \in Times(Exits(tables, i, S)) <=> k \in Left(i, S) /\ StatusAt(i, k - 1) \in K
      BY <1>3, <2>2 DEF Left
    <2> QED
      BY <2>3 DEF Noted, K
  <1> QED
    BY <1>9, <1>10, <1>11

\* Whether a move came after all that the log knows, or after all exits, is the same: an exit
\* that the log does not know is the first move of the issue.
LEMMA UnknownExitsAreFirst ==
    ASSUME TypeInv, HistoryInv, NEW i \in DOMAIN jira, NEW S,
           NEW m \in Left(i, S), m \notin Noted(i, S), NEW c \in jira[i].changes
    PROVE  m <= c.at
  <1>1. jira[i].created \in Nat /\ now \in Nat /\ c.at \in After(i)
    BY StatusesAreTold
  <1>2. m \in After(i)
    BY DEF Left
  <1>3. SUFFICES ASSUME c.at < m
                 PROVE  FALSE
    BY <1>1, <1>2 DEF After
  <1>4. m - 1 \in Life(i) /\ c.at <= m - 1
    BY <1>1, <1>2, <1>3 DEF After, Life
  <1> QED
    BY <1>4, ComesFromAChange DEF Noted

-----------------------------------------------------------------------------
\* The ticks of entries and exits.

\* The statuses of the end column are not among those left of it.
LEMMA PointsAreApart ==
    /\ \A rule : LET p == identify_commitment_points_from_rule(rule, Board)
                 IN  p.middle \cap p.end = {} /\ p.middle \cup p.end \subseteq Statuses
    /\ LET p == ByName
       IN  p.middle \cap p.end = {} /\ p.middle \cup p.end \subseteq Statuses
  <1>1. \A S \in SUBSET Board : StatusesOf(S) \subseteq Statuses
    BY ReportsAssumption DEF StatusesOf
  <1>2. \A from, to : Between(Board, from, to) \subseteq Statuses
    BY <1>1 DEF Between
  <1>3. ASSUME NEW S \in SUBSET Board, NEW from, NEW to \in Nat, \A c \in S : c.position = to
        PROVE  Between(Board, from, to) \cap StatusesOf(S) = {}
    <2> SUFFICES ASSUME NEW s \in Between(Board, from, to), s \in StatusesOf(S)
                 PROVE  FALSE
      OBVIOUS
    <2>1. PICK c \in Board : c.status = s /\ c.position < to
      BY DEF Between, StatusesOf
    <2>2. PICK d \in S : d.status = s /\ s # Nothing
      BY DEF StatusesOf
    <2>3. c.position = d.position
      BY <2>1, <2>2, BoardAssumption
    <2> QED
      BY <1>3, <2>1, <2>2, <2>3, BoardAssumption
  <1>4. ASSUME NEW rule
        PROVE  LET p == identify_commitment_points_from_rule(rule, Board)
               IN  p.middle \cap p.end = {} /\ p.middle \cup p.end \subseteq Statuses
    <2> DEFINE p == identify_commitment_points_from_rule(rule, Board)
               S == {c \in Board : c.id = rule.end}
               position(id) == (CHOOSE c \in Board : c.id = id).position
               start == IF \E c \in Board : c.id = rule.start THEN position(rule.start) ELSE 0
               end == IF \E c \in Board : c.id = rule.end THEN position(rule.end) ELSE 999
    <2>1. p.middle = Between(Board, start, end) /\ p.end = StatusesOf(S)
      BY DEF identify_commitment_points_from_rule
    <2>2. CASE S = {}
      BY <1>2, <2>1, <2>2 DEF StatusesOf
    <2>3. CASE S # {}
      <3>1. end = position(rule.end) /\ \E c \in Board : c.id = rule.end
        BY <2>3
      <3>2. end \in Nat /\ \A c \in S : c.position = end
        BY <3>1, BoardAssumption
      <3> HIDE DEF start, end
      <3> QED
        BY <1>1, <1>2, <1>3, <2>1, <3>2
    <2> QED
      BY <2>2, <2>3
  <1>5. LET p == ByName
        IN  p.middle \cap p.end = {} /\ p.middle \cup p.end \subseteq Statuses
    <2> DEFINE first(name) == EarliestOf({c.position : c \in {c \in Board : c.name = name}})
               at(position) == StatusesOf({c \in Board : c.position = position})
               start == Coalesce(first("progress"), 0)
               done == first("done")
    <2>1. ByName.end = at(done)
      BY DEF ByName, identify_commitment_points_heuristic
    <2>2. ByName.middle = {} \/ (done # Nothing /\ ByName.middle = Between(Board, start, done))
      <3>1. ByName = identify_commitment_points_heuristic(Board)
        BY DEF ByName
      <3>2. ByName.middle = IF /\ first("progress") # Nothing /\ at(start) # {}
                               /\ first("done") # Nothing /\ at(first("done")) # {}
                               /\ start < first("done")
                            THEN Between(Board, start, first("done")) ELSE {}
        BY <3>1 DEF identify_commitment_points_heuristic
      <3> HIDE DEF first, at, start
      <3> QED
        BY <3>2
    <2>3. at(done) \subseteq Statuses
      BY <1>1
    <2>4. done # Nothing => done \in Nat
      <3> DEFINE P == {c.position : c \in {c \in Board : c.name = "done"}}
      <3>1. P \in SUBSET Nat
        BY BoardAssumption
      <3>2. done = IF P = {} THEN Nothing ELSE Min(P)
        BY DEF EarliestOf
      <3> HIDE DEF P, done
      <3> QED
        BY <3>1, <3>2, MinIsLeast
    <2>5. CASE ByName.middle = {}
      BY <2>1, <2>3, <2>5
    <2>6. CASE done # Nothing /\ ByName.middle = Between(Board, start, done)
      <3> DEFINE S == {c \in Board : c.position = done}
      <3>1. at(done) = StatusesOf(S) /\ \A c \in S : c.position = done
        OBVIOUS
      <3> HIDE DEF start, done, first
      <3>2. Between(Board, start, done) \cap StatusesOf(S) = {}
        BY <1>3, <2>4, <2>6, <3>1
      <3> QED
        BY <1>2, <2>1, <2>3, <2>6, <3>1, <3>2
    <2> HIDE DEF start, done, at, first
    <2> QED
      BY <2>2, <2>5, <2>6
  <1> QED
    BY <1>4, <1>5

\* Left(i, S) is a finite set of numbers.
LEMMA TicksAreFinite ==
    ASSUME TypeInv, HistoryInv, NEW i \in DOMAIN jira
    PROVE  /\ \A S \in SUBSET After(i) : S \in SUBSET Nat /\ S \in SUBSET Int /\ IsFiniteSet(S)
           /\ \A S : Left(i, S) \in SUBSET After(i) /\ Came(i, S) \in SUBSET After(i)
                     /\ Noted(i, S) \in SUBSET Left(i, S) /\ Noted(i, S) \in SUBSET After(i)
  <1>1. jira[i].created \in Nat /\ now \in Nat
    BY StatusesAreTold
  <1>2. IsFiniteSet(After(i)) /\ After(i) \subseteq Nat
    <2>1. jira[i].created + 1 \in Int /\ now \in Int
      BY <1>1
    <2>2. IsFiniteSet(After(i))
      BY <2>1, FS_Interval DEF After
    <2> QED
      BY <1>1, <2>2 DEF After
  <1> QED
    BY <1>2, FS_Subset DEF Left, Came, Noted

\* The lead time per issue, from what the log tells (lead_time.py).
LEMMA LeadTimeFromTheLog ==
    ASSUME TypeInv, HistoryInv, NEW i \in DOMAIN jira,
           NEW middle \in SUBSET Statuses, NEW end \in SUBSET Statuses
    PROVE  LET left == Noted(i, end)
               ends == {k \in Came(i, end) : left # {} => k > Max(left)}
               finish == Coalesce(EarliestOf(ends), jira[i].resolved)
           IN  /\ CommitmentEnd(tables, i, end) = finish
               /\ CommitmentStart(tables, i, middle, end) =
                    EarliestOf({k \in Came(i, middle) :
                                  k <= finish /\ (left # {} => k >= Max(left))})
  <1> DEFINE left == Noted(i, end)
             ends == {k \in Came(i, end) : left # {} => k > Max(left)}
             finish == Coalesce(EarliestOf(ends), jira[i].resolved)
  <1>1. LastLeft(tables, i, end) = IF left = {} THEN Nothing ELSE Max(left)
    BY LogTellsTheMoves DEF LastLeft, LatestOf
  <1>2. left # {} => Max(left) \in Nat
    BY TicksAreFinite, MaxIsGreatest
  <1>3. left # {} <=> LastLeft(tables, i, end) # Nothing
    BY <1>1, <1>2, ReportsAssumption
  <1>4. {k \in Came(i, end) : LastLeft(tables, i, end) # Nothing => k > LastLeft(tables, i, end)} = ends
    BY <1>1, <1>3
  <1>5. tables.issues[i].resolved = jira[i].resolved
    BY TablesAreThoseOfJira
  <1>6. CommitmentEnd(tables, i, end) = finish
    BY <1>4, <1>5, LogTellsTheMoves DEF CommitmentEnd
  <1>7. {k \in Came(i, middle) : k <= finish /\
            (LastLeft(tables, i, end) # Nothing => k >= LastLeft(tables, i, end))} =
        {k \in Came(i, middle) : k <= finish /\ (left # {} => k >= Max(left))}
    BY <1>1, <1>3
  <1>8. CommitmentStart(tables, i, middle, end) =
          EarliestOf({k \in Came(i, middle) : k <= finish /\ (left # {} => k >= Max(left))})
    BY <1>6, <1>7, LogTellsTheMoves DEF CommitmentStart
  <1> QED
    BY <1>6, <1>8

\* A change to a status that an issue left later is not after the last exit in the log, and
\* a change is no earlier than the last exit in the log just if it is no earlier than the
\* last exit.
LEMMA LastExits ==
    ASSUME TypeInv, HistoryInv, NEW i \in DOMAIN jira, NEW S
    PROVE  /\ \A k \in Came(i, S), m \in Left(i, S) : k < m =>
                /\ m \in Noted(i, S) /\ Noted(i, S) # {} /\ m <= Max(Noted(i, S))
           /\ \A k \in Came(i, Statuses) :
                (Noted(i, S) # {} => k >= Max(Noted(i, S))) <=>
                (Left(i, S) # {} => k >= Max(Left(i, S)))
  <1>1. \A T : Came(i, T) \subseteq After(i) /\ \A k \in Came(i, T) : \E c \in jira[i].changes : c.at = k
    BY StatusesAreTold DEF Came
  <1>2. Noted(i, S) \subseteq Left(i, S) /\ Left(i, S) \in SUBSET Nat
    BY TicksAreFinite
  <1>3. Noted(i, S) # {} => /\ Max(Noted(i, S)) \in Noted(i, S)
                            /\ \A m \in Noted(i, S) : m <= Max(Noted(i, S))
    BY TicksAreFinite, MaxIsGreatest
  <1>4. Left(i, S) # {} => /\ Max(Left(i, S)) \in Left(i, S)
                           /\ \A m \in Left(i, S) : m <= Max(Left(i, S))
    BY TicksAreFinite, MaxIsGreatest
  <1>5. \A T : \A k \in Came(i, T) : k \in Nat
    BY TicksAreFinite
  <1>6. \A T : \A k \in Came(i, T), m \in Left(i, S) : m \notin Noted(i, S) => m <= k
    BY <1>1, UnknownExitsAreFirst
  <1>7. ASSUME NEW k \in Came(i, S), NEW m \in Left(i, S), k < m
        PROVE  m \in Noted(i, S) /\ Noted(i, S) # {} /\ m <= Max(Noted(i, S))
    <2>1. m \in Noted(i, S)
      BY <1>2, <1>5, <1>6, <1>7
    <2> QED
      BY <1>3, <2>1
  <1>8. ASSUME NEW k \in Came(i, Statuses)
        PROVE  (Noted(i, S) # {} => k >= Max(Noted(i, S))) <=> (Left(i, S) # {} => k >= Max(Left(i, S)))
    <2>1. ASSUME Left(i, S) # {} => k >= Max(Left(i, S)), Noted(i, S) # {}
          PROVE  k >= Max(Noted(i, S))
      BY <1>2, <1>3, <1>4, <1>5, <2>1
    <2>2. ASSUME Noted(i, S) # {} => k >= Max(Noted(i, S)), Left(i, S) # {}
          PROVE  k >= Max(Left(i, S))
      <3>1. CASE Max(Left(i, S)) \in Noted(i, S)
        BY <1>2, <1>3, <1>4, <1>5, <2>2, <3>1
      <3>2. CASE Max(Left(i, S)) \notin Noted(i, S)
        BY <1>2, <1>4, <1>5, <1>6, <2>2, <3>2
      <3> QED
        BY <3>1, <3>2
    <2> QED
      BY <2>1, <2>2
  <1> QED
    BY <1>7, <1>8

\* An issue that is in the end statuses came there when its present stay began, if it was
\* not created there; nothing else came after the last exit.
LEMMA StayBegins ==
    ASSUME TypeInv, HistoryInv, NEW i \in DOMAIN jira, NEW S \in SUBSET Statuses,
           jira[i].status \in S
    PROVE  LET since == Min({k \in Life(i) : \A j \in k .. now : StatusAt(i, j) \in S})
               left == Noted(i, S)
           IN  /\ since \in Life(i) /\ \A j \in since .. now : StatusAt(i, j) \in S
               /\ since # jira[i].created =>
                    EarliestOf({k \in Came(i, S) : left # {} => k > Max(left)}) = since
  <1> DEFINE stays == {k \in Life(i) : \A j \in k .. now : StatusAt(i, j) \in S}
             since == Min(stays)
             left == Noted(i, S)
             entries == {k \in Came(i, S) : left # {} => k > Max(left)}
  <1>1. /\ jira[i].created \in 0 .. now /\ now \in Nat /\ StatusAt(i, now) = jira[i].status
    BY StatusesAreTold
  <1>2. now \in stays /\ stays \in SUBSET Nat
    BY <1>1 DEF Life
  <1>3. since \in stays /\ \A k \in stays : since <= k
    <2> HIDE DEF stays
    <2> QED
      BY <1>2, MinIsLeast
  <1>4. ASSUME since # jira[i].created
        PROVE  EarliestOf(entries) = since
    <2> HIDE DEF since
    <2>1. since - 1 \in Life(i) /\ since \in After(i) /\ since \in Life(i)
      BY <1>1, <1>3, <1>4 DEF Life, After
    <2>2. StatusAt(i, since - 1) \notin S
      <3>1. since - 1 \notin stays /\ since \in Nat
        BY <1>2, <1>3
      <3>2. \A j \in (since - 1) .. now : j = since - 1 \/ j \in since .. now
        BY <3>1, <1>1
      <3> QED
        BY <1>3, <2>1, <3>1, <3>2
    <2>3. since \in since .. now
      BY <1>1, <2>1 DEF Life
    <2>4. StatusAt(i, since) \in S
      BY <1>3, <2>3
    <2>5. since \in Came(i, S)
      BY <2>1, <2>2, <2>4 DEF Came
    <2>6. \A m \in Left(i, S) : m < since
      <3> SUFFICES ASSUME NEW m \in Left(i, S), since <= m
                   PROVE  FALSE
        BY <2>1, TicksAreFinite DEF After
      <3>1. m \in since .. now /\ StatusAt(i, m) \notin S
        BY <1>1, <2>1 DEF Left, After
      <3> QED
        BY <1>3, <3>1
    <2>7. left # {} => Max(left) \in Left(i, S) /\ Max(left) \in Nat
      BY TicksAreFinite, MaxIsGreatest
    <2>8. since \in entries
      BY <1>1, <2>1, <2>5, <2>6, <2>7 DEF After
    <2>9. ASSUME NEW k \in entries, k < since
          PROVE  FALSE
      <3>1. k \in Came(i, S) /\ k \in Life(i) /\ StatusAt(i, k) \in S /\ k <= since - 1
        BY <1>1, <2>1, <2>9 DEF Came, After, Life
      <3>2. PICK m \in Left(i, S) : k < m
        BY <2>1, <2>2, <3>1, LeavesBetween
      <3>3. left # {} /\ m <= Max(left)
        BY <3>1, <3>2, LastExits
      <3>4. k > Max(left) /\ k \in Nat /\ m \in Nat /\ Max(left) \in Nat
        BY <1>1, <2>7, <3>1, <3>3, TicksAreFinite DEF Life
      <3> QED
        BY <3>2, <3>3, <3>4
    <2>10. entries \in SUBSET Nat
      BY TicksAreFinite
    <2> HIDE DEF entries
    <2>11. Min(entries) \in entries /\ \A k \in entries : Min(entries) <= k
      BY <2>8, <2>10, MinIsLeast
    <2>12. Min(entries) = since
      <3>1. ~(Min(entries) < since)
        BY <2>9, <2>11
      <3>2. Min(entries) <= since /\ Min(entries) \in Nat /\ since \in Nat
        BY <2>8, <2>10, <2>11
      <3> QED
        BY <3>1, <3>2
    <2> QED
      BY <2>8, <2>12 DEF EarliestOf
  <1> QED
    BY <1>3, <1>4

\* An issue that is not in the end statuses did not come there after its last exit.
LEMMA NoEntryAfterTheLastExit ==
    ASSUME TypeInv, HistoryInv, NEW i \in DOMAIN jira, NEW S,
           jira[i].status \notin S
    PROVE  {k \in Came(i, S) : Noted(i, S) # {} => k > Max(Noted(i, S))} = {}
  <1> SUFFICES ASSUME NEW k \in Came(i, S), Noted(i, S) # {} => k > Max(Noted(i, S))
               PROVE  FALSE
    OBVIOUS
  <1>1. jira[i].created \in 0 .. now /\ now \in Nat /\ StatusAt(i, now) = jira[i].status
    BY StatusesAreTold
  <1>2. k \in Life(i) /\ StatusAt(i, k) \in S /\ k <= now /\ now \in Life(i)
    BY <1>1 DEF Came, After, Life
  <1>3. PICK m \in Left(i, S) : k < m
    BY <1>1, <1>2, LeavesBetween
  <1>4. Noted(i, S) # {} /\ m <= Max(Noted(i, S))
    BY <1>3, LastExits
  <1>5. k \in Nat /\ m \in Nat /\ Max(Noted(i, S)) \in Nat
    BY <1>4, TicksAreFinite, MaxIsGreatest
  <1> QED
    BY <1>3, <1>4, <1>5

-----------------------------------------------------------------------------
\* Lead times.

\* Lead times when the middle and the end statuses are apart.
LEMMA LeadTimeOfTheStay ==
    ASSUME TypeInv, HistoryInv, NEW i \in DOMAIN jira,
           NEW p, p.middle \in SUBSET Statuses, p.end \in SUBSET Statuses,
           p.middle \cap p.end = {}
    PROVE  LET facts == calculate_lead_time_per_issue(tables, p)
           IN  IF jira[i].status \in p.end
               THEN LET since == Min({k \in Life(i) : \A j \in k .. now : StatusAt(i, j) \in p.end})
                        left == Left(i, p.end)
                        started == {k \in Came(i, p.middle) :
                                        k <= since /\ (left # {} => k >= Max(left))}
                    IN  IF started = {} THEN i \notin DOMAIN facts
                        ELSE i \in DOMAIN facts /\ facts[i] = Span(Min(started), since)
               ELSE jira[i].resolved = Nothing => i \notin DOMAIN facts
  <1> DEFINE facts == calculate_lead_time_per_issue(tables, p)
             start(j) == CommitmentStart(tables, j, p.middle, p.end)
             end(j) == CommitmentEnd(tables, j, p.end)
             left == Left(i, p.end)
             noted == Noted(i, p.end)
             ends == {k \in Came(i, p.end) : noted # {} => k > Max(noted)}
  <1>1. /\ i \in DOMAIN facts => start(i) # Nothing /\ end(i) # Nothing
        /\ p.middle # {} /\ p.end # {} /\ start(i) # Nothing /\ end(i) # Nothing =>
                i \in DOMAIN facts /\ facts[i] = Span(start(i), end(i))
        /\ i \in DOMAIN facts => facts[i] = Span(start(i), end(i))
    <2> DEFINE rows == {j \in DOMAIN jira : end(j) # Nothing /\ start(j) # Nothing}
    <2>1. facts = IF p.middle = {} \/ p.end = {} THEN <<>>
                  ELSE [j \in rows |-> Span(start(j), end(j))]
      BY TablesAreThoseOfJira DEF calculate_lead_time_per_issue, Issues
    <2>2. i \in rows <=> end(i) # Nothing /\ start(i) # Nothing
      OBVIOUS
    <2>3. DOMAIN <<>> = {}
      OBVIOUS
    <2> HIDE DEF facts, rows, start, end
    <2>4. CASE p.middle = {} \/ p.end = {}
      BY <2>1, <2>3, <2>4
    <2>5. CASE ~(p.middle = {} \/ p.end = {})
      <3>1. facts = [j \in rows |-> Span(start(j), end(j))]
        BY <2>1, <2>5
      <3>2. DOMAIN facts = rows
        BY <3>1
      <3> QED
        BY <2>2, <3>1, <3>2
    <2> QED
      BY <2>4, <2>5
  <1>2. /\ end(i) = Coalesce(EarliestOf(ends), jira[i].resolved)
        /\ start(i) = EarliestOf({k \in Came(i, p.middle) :
                                    k <= end(i) /\ (noted # {} => k >= Max(noted))})
    <2> DEFINE finish == Coalesce(EarliestOf(ends), jira[i].resolved)
               until(f) == {k \in Came(i, p.middle) :
                                k <= f /\ (noted # {} => k >= Max(noted))}
    <2>1. end(i) = finish /\ start(i) = EarliestOf(until(finish))
      BY LeadTimeFromTheLog
    <2>2. start(i) = EarliestOf(until(end(i)))
      <3> HIDE DEF start, end, until, finish
      <3> QED
        BY <2>1
    <2> QED
      BY <2>1, <2>2
  <1>3. \A T \in SUBSET Statuses : Came(i, T) \subseteq Came(i, Statuses)
    BY DEF Came
  <1>4. \A k \in Came(i, p.middle) : (noted # {} => k >= Max(noted)) <=> (left # {} => k >= Max(left))
    BY <1>3, LastExits
  <1>5. ASSUME jira[i].status \notin p.end, jira[i].resolved = Nothing
        PROVE  i \notin DOMAIN facts
    <2>1. ends = {}
      BY <1>5, NoEntryAfterTheLastExit
    <2>2. end(i) = Nothing
      BY <1>2, <1>5, <2>1 DEF EarliestOf, Coalesce
    <2> QED
      BY <1>1, <2>2
  <1>6. ASSUME jira[i].status \in p.end
        PROVE  LET since == Min({k \in Life(i) : \A j \in k .. now : StatusAt(i, j) \in p.end})
                   started == {k \in Came(i, p.middle) :
                                  k <= since /\ (left # {} => k >= Max(left))}
               IN  IF started = {} THEN i \notin DOMAIN facts
                   ELSE i \in DOMAIN facts /\ facts[i] = Span(Min(started), since)
    <2> DEFINE since == Min({k \in Life(i) : \A j \in k .. now : StatusAt(i, j) \in p.end})
               started == {k \in Came(i, p.middle) : k <= since /\ (left # {} => k >= Max(left))}
    <2>1. /\ since \in Life(i) /\ \A j \in since .. now : StatusAt(i, j) \in p.end
          /\ since # jira[i].created => EarliestOf(ends) = since
      BY <1>6, StayBegins
    <2>2. jira[i].created \in 0 .. now /\ now \in Nat
      BY StatusesAreTold
    <2> HIDE DEF since
    <2>3. CASE since = jira[i].created
      <3>1. Came(i, p.middle) = {}
        <4> SUFFICES ASSUME NEW k \in Came(i, p.middle)
                     PROVE  FALSE
          OBVIOUS
        <4>1. k \in since .. now /\ StatusAt(i, k) \in p.middle
          BY <2>2, <2>3 DEF Came, After
        <4> QED
          BY <2>1, <4>1
      <3>2. start(i) = Nothing /\ started = {}
        BY <1>2, <3>1 DEF EarliestOf
      <3> QED
        BY <1>1, <3>2 DEF since
    <2>4. CASE since # jira[i].created
      <3>1. end(i) = since
        <4>1. since \in Nat /\ EarliestOf(ends) = since
          BY <2>1, <2>2, <2>4 DEF Life
        <4> QED
          BY <1>2, <4>1, ReportsAssumption DEF Coalesce
      <3>2. start(i) = EarliestOf(started)
        <4>1. {k \in Came(i, p.middle) : k <= since /\ (noted # {} => k >= Max(noted))} = started
          BY <1>4
        <4> HIDE DEF started, start, end
        <4> QED
          BY <1>2, <3>1, <4>1
      <3>3. CASE started = {}
        <4>1. start(i) = Nothing
          BY <3>2, <3>3 DEF EarliestOf
        <4> QED
          BY <1>1, <3>3, <4>1 DEF since
      <3>4. CASE started # {}
        <4>1. started \in SUBSET Nat
          BY TicksAreFinite
        <4>2. start(i) = Min(started) /\ Min(started) \in started
          <5> HIDE DEF started, start
          <5> QED
            BY <3>2, <3>4, <4>1, MinIsLeast DEF EarliestOf
        <4>3. p.middle # {} /\ p.end # {}
          BY <1>6, <3>4 DEF Came
        <4>4. start(i) # Nothing /\ end(i) # Nothing
          <5>1. since \in Nat
            BY <2>1, <2>2 DEF Life
          <5>2. Min(started) \in Nat
            BY <4>1, <4>2
          <5> HIDE DEF started, start, end
          <5> QED
            BY <3>1, <4>2, <5>1, <5>2, ReportsAssumption
        <4>5. i \in DOMAIN facts /\ facts[i] = Span(start(i), end(i))
          <5> HIDE DEF facts, start, end
          <5> QED
            BY <1>1, <4>3, <4>4
        <4>6. i \in DOMAIN facts /\ facts[i] = Span(Min(started), since)
          <5> HIDE DEF facts, start, end, started
          <5> QED
            BY <3>1, <4>2, <4>5
        <4> QED
          BY <3>4, <4>6 DEF since
      <3> QED
        BY <3>3, <3>4
    <2> QED
      BY <2>3, <2>4
  <1> QED
    BY <1>5, <1>6

\* The lead time of an issue that is in the end statuses is that of its present stay, by the
\* rule that applies to the board, whatever the rules, the board and the history
\* (lead_time.py: commitment and completion after the last reopening).
THEOREM LeadTimesAreCurrent == Spec => []LeadTimeIsOfTheCurrentStay
  <1>1. ByRule.middle \cap ByRule.end = {} /\ ByRule.middle \cup ByRule.end \subseteq Statuses
    <2> DEFINE cached == resolve_rule_from_cache(rules, "project", "board")
               rule == Coalesce(cached, resolve_commitment_columns(rules, Board, "project", "board"))
    <2>1. ByRule = IF rule # Nothing THEN identify_commitment_points_from_rule(rule, Board)
                   ELSE ByName
      BY DEF ByRule, ByName, CommitmentPoints
    <2> HIDE DEF rule
    <2> QED
      BY <2>1, PointsAreApart
  <1>2. ASSUME TypeInv, HistoryInv
        PROVE  LeadTimeIsOfTheCurrentStay
    <2>1. ByRule.middle \in SUBSET Statuses /\ ByRule.end \in SUBSET Statuses
      BY <1>1
    <2> QED
      BY <1>1, <1>2, <2>1, LeadTimeOfTheStay DEF LeadTimeIsOfTheCurrentStay
  <1> QED
    BY <1>2, ReportsCorrect, PTL

-----------------------------------------------------------------------------
\* The last change up to a day.

\* Without a row between two ticks the status is the same.
LEMMA SameUntilAChange ==
    ASSUME TypeInv, HistoryInv, NEW i \in DOMAIN jira,
           NEW a \in Life(i), NEW b \in Life(i), a <= b,
           \A r \in ChangesOf(tables, i) : ~(a < r.at /\ r.at <= b)
    PROVE  StatusAt(i, a) = StatusAt(i, b)
  <1> SUFFICES ASSUME StatusAt(i, b) \notin {StatusAt(i, a)}
               PROVE  FALSE
    OBVIOUS
  <1>1. PICK m \in Left(i, {StatusAt(i, a)}) : a < m /\ m <= b
    BY LeavesBetween
  <1>2. StatusAt(i, m) # StatusAt(i, m - 1) /\ m \in After(i)
    BY <1>1 DEF Left
  <1>3. PICK c \in jira[i].changes : c.at = m
    BY <1>2, StatusesAreTold
  <1> QED
    BY <1>1, <1>3, LogOfAnIssue

\* The last change up to a tick tells the status at that tick, and the clean layer knows it.
LEMMA LastChangeTells ==
    ASSUME TypeInv, HistoryInv, NEW i \in DOMAIN jira, NEW n \in Life(i)
    PROVE  LET before == {c \in ChangesOf(tables, i) : c.at <= n}
           IN  IF before = {} THEN StatusAt(i, n) = Initial
               ELSE /\ LastChange(before) \in before
                    /\ LastChange(before).to = StatusAt(i, n)
                    /\ StatusAt(i, n) \in KnownTo(world, jira)
  <1> DEFINE before == {c \in ChangesOf(tables, i) : c.at <= n}
  <1>1. /\ jira[i].created \in 0 .. now /\ now \in Nat
        /\ StatusAt(i, jira[i].created) = Initial
    BY StatusesAreTold
  <1>2. CASE before = {}
    <2>1. jira[i].created \in Life(i) /\ jira[i].created <= n
      BY <1>1 DEF Life
    <2>2. \A r \in ChangesOf(tables, i) : ~(jira[i].created < r.at /\ r.at <= n)
      BY <1>2
    <2>3. StatusAt(i, jira[i].created) = StatusAt(i, n)
      BY <2>1, <2>2, SameUntilAChange
    <2> QED
      BY <1>1, <1>2, <2>3
  <1>3. CASE before # {}
    <2> DEFINE times == {c.at : c \in before}
    <2>1. times # {} /\ times \in SUBSET After(i)
      <3>1. \A r \in ChangesOf(tables, i) : r.at \in After(i)
        BY LogOfAnIssue
      <3> QED
        BY <1>3, <3>1
    <2>2. times \in SUBSET Int /\ IsFiniteSet(times)
      <3> HIDE DEF times
      <3> QED
        BY <2>1, TicksAreFinite
    <2>3. \E m \in times : \A k \in times : k <= m
      <3> HIDE DEF times
      <3> QED
        BY <2>1, <2>2, GreatestInteger
    <2>4. \E c \in before : \A d \in before : d.at <= c.at
      BY <2>3
    <2> DEFINE last == LastChange(before)
    <2>5. last \in before /\ \A d \in before : d.at <= last.at
      <3> HIDE DEF before
      <3> QED
        BY <2>4 DEF LastChange
    <2> HIDE DEF last
    <2>6. /\ last \in ChangesOf(tables, i) /\ last.at <= n
          /\ last.at \in After(i) /\ last.to = StatusAt(i, last.at) /\ last.to \in KnownTo(world, jira)
      BY <2>5, LogOfAnIssue
    <2>7. last.at \in Life(i) /\ last.at \in Nat /\ n \in Nat
      BY <1>1, <2>6 DEF After, Life
    <2>8. \A r \in ChangesOf(tables, i) : ~(last.at < r.at /\ r.at <= n)
      <3> TAKE r \in ChangesOf(tables, i)
      <3>1. r.at \in Nat
        BY <1>1, LogOfAnIssue DEF After
      <3> QED
        BY <2>5, <2>7, <3>1
    <2>9. StatusAt(i, last.at) = StatusAt(i, n)
      BY <2>6, <2>7, <2>8, SameUntilAChange
    <2> QED
      BY <1>3, <2>5, <2>6, <2>9 DEF last
  <1> QED
    BY <1>2, <1>3

\* Days and ticks.
LEMMA ClosingTicks ==
    ASSUME now \in Nat, NEW d \in Nat
    PROVE  /\ Close(d) \in 0 .. now
           /\ \A k \in 0 .. now : Day(k) \in Nat /\ (Day(k) <= d <=> k <= Close(d))
  <1>1. PerDay \in Nat \ {0}
    BY CalendarAssumption
  <1> DEFINE last == d * PerDay + PerDay - 1
  <1>2. last \in Nat
    BY <1>1
  <1>3. \A k \in Nat : Day(k) \in Nat /\ (Day(k) <= d <=> k <= last)
    BY <1>1 DEF Day
  <1> HIDE DEF last
  <1>4. Close(d) = Min({now, last})
    BY DEF Close, last
  <1>5. Close(d) \in {now, last} /\ \A k \in {now, last} : Close(d) <= k
    BY <1>2, <1>4, MinIsLeast
  <1> QED
    BY <1>2, <1>3, <1>5

-----------------------------------------------------------------------------
\* The cumulative flow diagram.

\* Issues begin in the initial status, which is not done: a done one came there.
LEMMA DoneIsReached ==
    ASSUME TypeInv, HistoryInv, NEW i \in DOMAIN jira, NEW n \in Life(i), StatusAt(i, n) \in Done
    PROVE  \E k \in Came(i, Done) : k <= n
  <1>1. /\ jira[i].created \in 0 .. now /\ now \in Nat
        /\ StatusAt(i, jira[i].created) = Initial
    BY StatusesAreTold
  <1>2. Initial \notin Done
    BY ReportsAssumption DEF Done, IsDone
  <1> DEFINE before == {c \in ChangesOf(tables, i) : c.at <= n}
  <1>3. before # {} /\ LastChange(before) \in before /\ LastChange(before).to = StatusAt(i, n)
    BY <1>1, <1>2, LastChangeTells
  <1> DEFINE last == LastChange(before)
  <1> HIDE DEF last
  <1>4. last.at \in After(i) /\ last.at <= n /\ last.to = StatusAt(i, last.at)
        /\ StatusAt(i, last.at) # StatusAt(i, last.at - 1)
    BY <1>3, LogOfAnIssue DEF last
  <1> QED
    BY <1>3, <1>4 DEF Came, last

\* What the clean layer knows of the statuses and the board.
LEMMA KnownStatuses ==
    ASSUME TypeInv, HistoryInv
    PROVE  /\ DOMAIN tables.category = KnownTo(world, jira)
           /\ KnownTo(world, jira) \subseteq Statuses
           /\ \A s \in KnownTo(world, jira) : tables.category[s] = Categories[s]
           /\ tables.daysBack = DaysBack
           /\ BoardDone(tables) = KnownTo(world, jira) \cap Done
           /\ \A i \in DOMAIN jira : jira[i].status \in KnownTo(world, jira)
  <1> DEFINE K == KnownTo(world, jira)
             X == Cleaned(world, jira).issue_statuses
  <1>1. DOMAIN X = K
    <2>1. X = Clean!CleanIssueStatuses(Known0(world), Raw(jira)).issue_statuses
      BY DEF Cleaned, Clean!CleanSprintIssuesChangelog, Clean!CleanSprintIssues,
             Clean!CleanStatusChangelog, Raw, Known0
    <2> QED
      BY <2>1, StatusesAreKnown, JiraIsLoadable DEF Loadable
  <1>2. tables.category = [s \in DOMAIN X |-> Categories[s]] /\ tables.daysBack = DaysBack
    BY DEF TypeInv, TablesOf
  <1>3. K \subseteq Statuses
    <2>1. world.known \subseteq Statuses
      BY ReportsAssumption DEF TypeInv
    <2>2. \A i \in DOMAIN jira : jira[i].status \in Statuses /\ \A c \in jira[i].changes : c.to \in Statuses
      BY WorldTypes DEF IssueType
    <2> QED
      BY <2>1, <2>2 DEF KnownTo
  <1>4. \A i \in DOMAIN jira : jira[i].status \in K
    BY DEF KnownTo
  <1> HIDE DEF K, X
  <1>5. DOMAIN tables.category = K /\ \A s \in K : tables.category[s] = Categories[s]
    BY <1>1, <1>2
  <1>6. {c.status : c \in Board} \ {Nothing} = Statuses
    BY ReportsAssumption DEF StatusesOf
  <1>7. BoardDone(tables) = K \cap Done
    <2>1. \A s : s \in BoardDone(tables) <=>
            s \in K /\ Categories[s] = "done" /\ \E c \in Board : c.status = s
      BY <1>5, TablesAreThoseOfJira DEF BoardDone
    <2> QED
      BY <1>3, <1>6, <2>1 DEF Done, IsDone
  <1> QED
    BY <1>2, <1>3, <1>4, <1>5, <1>7 DEF K

\* The status of an issue on a day: what it was when the day closed, but nothing before its
\* first change.
LEMMA StatusOnDate ==
    ASSUME TypeInv, HistoryInv, NEW i \in DOMAIN jira, NEW d \in Nat, jira[i].created <= Close(d)
    PROVE  LET shown == Came(i, Statuses) # {} => Day(Min(Came(i, Statuses))) <= d
           IN  /\ Close(d) \in Life(i)
               /\ shown => /\ status_on_date(tables, i, d) = StatusAt(i, Close(d))
                           /\ StatusAt(i, Close(d)) \in KnownTo(world, jira)
               /\ ~shown => status_on_date(tables, i, d) = Nothing
  <1> DEFINE all == ChangesOf(tables, i)
             before == {c \in all : c.at <= Close(d)}
             came == Came(i, Statuses)
  <1>1. /\ jira[i].created \in 0 .. now /\ now \in Nat
        /\ StatusAt(i, now) = jira[i].status
    BY StatusesAreTold
  <1>2. Close(d) \in Life(i) /\ Close(d) \in 0 .. now
    BY <1>1, ClosingTicks DEF Life
  <1>3. \A r \in all : r.at \in 0 .. now
    BY <1>1, LogOfAnIssue DEF After
  <1>4. {c \in all : Day(c.at) <= d} = before
    BY <1>1, <1>3, ClosingTicks
  <1>5. status_on_date(tables, i, d) =
            IF all = {} THEN jira[i].status
            ELSE IF before = {} THEN Nothing ELSE LastChange(before).to
    BY <1>4, TablesAreThoseOfJira DEF status_on_date
  <1>6. came = {c.at : c \in all}
    BY LogTellsTheMoves DEF Times
  <1>7. CASE all = {}
    <2>1. came = {}
      BY <1>6, <1>7
    <2>2. now \in Life(i) /\ Close(d) <= now
      BY <1>1, <1>2 DEF Life
    <2>3. StatusAt(i, Close(d)) = StatusAt(i, now)
      BY <1>2, <1>7, <2>2, SameUntilAChange
    <2> QED
      BY <1>1, <1>2, <1>5, <1>7, <2>1, <2>3, KnownStatuses
  <1>8. CASE all # {}
    <2>1. came # {} /\ came \in SUBSET Nat
      BY <1>1, <1>3, <1>6, <1>8
    <2>2. Min(came) \in came /\ \A k \in came : Min(came) <= k
      <3> HIDE DEF came
      <3> QED
        BY <2>1, MinIsLeast
    <2>3. Day(Min(came)) <= d <=> before # {}
      <3>1. \A k \in came : k \in 0 .. now
        BY <1>3, <1>6
      <3>2. Day(Min(came)) <= d <=> Min(came) <= Close(d)
        BY <1>1, <2>2, <3>1, ClosingTicks
      <3>3. before # {} <=> \E k \in came : k <= Close(d)
        BY <1>6
      <3> HIDE DEF came, before
      <3>4. Close(d) \in Nat
        BY <1>1, <1>2
      <3>5. Min(came) \in Nat
        BY <2>1, <2>2
      <3> QED
        BY <2>1, <2>2, <3>2, <3>3, <3>4, <3>5
    <2> QED
      BY <1>2, <1>5, <1>8, <2>1, <2>3, LastChangeTells
  <1> QED
    BY <1>7, <1>8

\* Each column of each day of the cumulative flow diagram shows just the issues that were in
\* it when the day ended, without those done before the diagram and, on the days before
\* their first change, without those that have moved (cumulative_flow.py).
THEOREM DiagramIsTrue == Spec => []CfdCountsAreTrue
  <1>1. ASSUME TypeInv, HistoryInv, NEW d \in Nat, NEW column
        PROVE  InColumn(tables, d, column) =
                {i \in DOMAIN jira :
                    /\ jira[i].created <= Close(d)
                    /\ Came(i, Statuses) # {} => Day(Min(Came(i, Statuses))) <= d
                    /\ IsDone(StatusAt(i, Close(d))) => Day(Min(Came(i, Done))) >= From(tables)
                    /\ \E c \in Board : c.id = column /\ c.status = StatusAt(i, Close(d))}
    <2> DEFINE K == KnownTo(world, jira)
               statuses == StatusesOf({c \in Board : c.id = column}) \cap K
               on(i) == status_on_date(tables, i, d)
               shown(i) == Came(i, Statuses) # {} => Day(Min(Came(i, Statuses))) <= d
               first(i) == FirstDone(tables, i)
    <2>1. \A i : i \in InColumn(tables, d, column) <=>
            /\ i \in DOMAIN jira /\ Day(jira[i].created) <= d
            /\ on(i) \in statuses
            /\ on(i) \in K \cap Done => first(i) # Nothing /\ first(i) >= From(tables)
      BY <1>1, TablesAreThoseOfJira, KnownStatuses DEF InColumn, Issues
    <2>2. now \in Nat
      BY <1>1, WorldTypes
    <2>3. Nothing \notin K
      BY <1>1, KnownStatuses, ReportsAssumption
    <2>4. ASSUME NEW i \in DOMAIN jira
          PROVE  i \in InColumn(tables, d, column) <=>
                    /\ jira[i].created <= Close(d) /\ shown(i)
                    /\ IsDone(StatusAt(i, Close(d))) => Day(Min(Came(i, Done))) >= From(tables)
                    /\ \E c \in Board : c.id = column /\ c.status = StatusAt(i, Close(d))
      <3>1. Day(jira[i].created) <= d <=> jira[i].created <= Close(d)
        BY <1>1, <2>2, StatusesAreTold, ClosingTicks
      <3>2. CASE ~(jira[i].created <= Close(d))
        <4> HIDE DEF shown, on, first
        <4> QED
          BY <2>1, <3>1, <3>2
      <3>3. CASE jira[i].created <= Close(d) /\ ~shown(i)
        <4>1. on(i) = Nothing
          BY <1>1, <3>3, StatusOnDate
        <4> HIDE DEF shown, on, first
        <4> QED
          BY <2>1, <2>3, <3>3, <4>1
      <3>4. CASE jira[i].created <= Close(d) /\ shown(i)
        <4> DEFINE s == StatusAt(i, Close(d))
        <4>1. on(i) = s /\ s \in K /\ Close(d) \in Life(i) /\ s \in Statuses
          BY <1>1, <3>4, StatusOnDate, KnownStatuses
        <4>2. s \in statuses <=> \E c \in Board : c.id = column /\ c.status = s
          <5> HIDE DEF K, s
          <5> QED
            BY <2>3, <4>1 DEF StatusesOf
        <4>3. IsDone(s) <=> s \in Done
          BY <4>1 DEF Done
        <4>4. ASSUME s \in Done
              PROVE  first(i) = Day(Min(Came(i, Done))) /\ first(i) # Nothing
          <5>1. Came(i, K \cap Done) = Came(i, Done)
            <6>1. \A k \in Came(i, Done) : StatusAt(i, k) \in K
              <7> TAKE k \in Came(i, Done)
              <7>1. k \in Times(ChangesOf(tables, i))
                <8>1. k \in Came(i, Statuses)
                  BY DEF Came, Done
                <8> QED
                  BY <1>1, <8>1, LogTellsTheMoves
              <7>2. PICK r \in ChangesOf(tables, i) : r.at = k
                BY <7>1 DEF Times
              <7> QED
                BY <1>1, <7>2, LogOfAnIssue
            <6> QED
              BY <6>1 DEF Came
          <5>2. Times(Entries(tables, i, BoardDone(tables))) = Came(i, Done)
            <6>1. K \cap Done \in SUBSET Statuses /\ BoardDone(tables) = K \cap Done
              BY <1>1, KnownStatuses
            <6> HIDE DEF K
            <6> QED
              BY <1>1, <5>1, <6>1, LogTellsTheMoves
          <5>3. Came(i, Done) # {} /\ Came(i, Done) \in SUBSET Nat
            BY <1>1, <4>1, <4>4, DoneIsReached, TicksAreFinite
          <5>4. Min(Came(i, Done)) \in Nat /\ Day(Min(Came(i, Done))) \in Nat
            <6>1. Min(Came(i, Done)) \in Came(i, Done)
              BY <5>3, MinIsLeast
            <6>2. \A k \in Came(i, Done) : k \in 0 .. now
              BY <1>1, <2>2, StatusesAreTold DEF Came, After
            <6> QED
              BY <2>2, <5>3, <6>1, <6>2, ClosingTicks
          <5> QED
            BY <5>2, <5>3, <5>4, ReportsAssumption DEF FirstDone, EarliestOf
        <4> HIDE DEF s, K, on, statuses, shown, first
        <4>5. i \in InColumn(tables, d, column) <=>
                s \in statuses /\ (s \in Done => first(i) # Nothing /\ first(i) >= From(tables))
          BY <2>1, <3>1, <3>4, <4>1
        <4>6. i \in InColumn(tables, d, column) <=>
                /\ s \in Done => Day(Min(Came(i, Done))) >= From(tables)
                /\ \E c \in Board : c.id = column /\ c.status = s
          BY <4>2, <4>4, <4>5
        <4> QED
          BY <3>4, <4>3, <4>6 DEF s
      <3> QED
        BY <3>2, <3>3, <3>4
    <2> QED
      BY <2>1, <2>4
  <1>2. ASSUME TypeInv, HistoryInv, NEW d \in Max({0, From(tables)}) .. Day(now)
        PROVE  d \in Nat
    <2>1. now \in Nat
      BY <1>2, WorldTypes
    <2>2. now \in 0 .. now /\ 0 \in Nat
      BY <2>1
    <2>3. Day(now) \in Nat
      BY <2>1, <2>2, ClosingTicks
    <2>4. From(tables) \in Int
      BY <1>2, <2>3, TablesAreThoseOfJira, KnownStatuses, ReportsAssumption DEF From
    <2>5. {0, From(tables)} \in SUBSET Int /\ IsFiniteSet({0, From(tables)})
      <3>1. IsFiniteSet({0} \cup {From(tables)})
        BY FS_Singleton, FS_Union
      <3>2. {0} \cup {From(tables)} = {0, From(tables)}
        OBVIOUS
      <3> QED
        BY <2>4, <3>1, <3>2
    <2>6. 0 <= Max({0, From(tables)}) /\ Max({0, From(tables)}) \in Int
      BY <2>5, MaxIsGreatest
    <2> QED
      BY <2>3, <2>6
  <1>3. ASSUME TypeInv, HistoryInv
        PROVE  CfdCountsAreTrue
    <2> SUFFICES ASSUME NEW d \in Max({0, From(tables)}) .. Day(now),
                        NEW column \in {c.id : c \in Board}
                 PROVE  LET shown(i, e) ==
                              /\ jira[i].created <= Close(e)
                              /\ Came(i, Statuses) # {} => Day(Min(Came(i, Statuses))) <= e
                            counted(i, e) ==
                              IsDone(StatusAt(i, Close(e))) => Day(Min(Came(i, Done))) >= From(tables)
                            there == {i \in DOMAIN jira : shown(i, d) /\ counted(i, d)}
                        IN  calculate_cumulative_flow_diagram(tables, d, column) = Cardinality(
                                {i \in there : \E c \in Board :
                                    c.id = column /\ c.status = StatusAt(i, Close(d))})
      BY DEF CfdCountsAreTrue
    <2>1. d \in Nat
      BY <1>2, <1>3
    <2>2. InColumn(tables, d, column) =
                {i \in {i \in DOMAIN jira :
                        /\ /\ jira[i].created <= Close(d)
                           /\ Came(i, Statuses) # {} => Day(Min(Came(i, Statuses))) <= d
                        /\ IsDone(StatusAt(i, Close(d))) => Day(Min(Came(i, Done))) >= From(tables)} :
                    \E c \in Board : c.id = column /\ c.status = StatusAt(i, Close(d))}
      BY <1>1, <1>3, <2>1
    <2> QED
      BY <2>2 DEF calculate_cumulative_flow_diagram
  <1> QED
    BY <1>3, ReportsCorrect, PTL

-----------------------------------------------------------------------------
\* Membership of the sprint.

\* No change after tick i, up to tick j.
Quiet(changes, i, j) == \A c \in changes : ~(i < c.at /\ c.at <= j)

\* While there is no change the value stays.
LEMMA TellsConstant ==
    ASSUME NEW changes, NEW b \in Nat, NEW n \in Nat, NEW v, Tells(changes, v, b, n),
           NEW i \in b .. n, NEW j \in b .. n, i <= j,
           Quiet(changes, i, j)
    PROVE  v[i] = v[j]
  <1> DEFINE S == {k \in i .. j : v[k] # v[i]}
  <1> SUFFICES ASSUME v[j] # v[i]
               PROVE  FALSE
    OBVIOUS
  <1>1. S \in SUBSET Nat /\ j \in S
    OBVIOUS
  <1>2. PICK k \in S : \A l \in S : k <= l
    BY <1>1, LeastNatural
  <1>3. i < k /\ k \in (b + 1) .. n /\ k - 1 \in i .. j /\ k - 1 < k /\ k <= j
    BY <1>2
  <1>4. v[k - 1] = v[i] /\ v[k] # v[i]
    BY <1>1, <1>2, <1>3
  <1>5. PICK c \in changes : c.at = k
    BY <1>3, <1>4 DEF Tells
  <1> QED
    BY <1>3, <1>5 DEF Quiet

\* The last change up to a tick, and the first after it.
IsLast(c, changes, k) ==
    c \in changes /\ c.at <= k /\ \A d \in changes : d.at <= k => d.at <= c.at
IsNext(c, changes, k) ==
    c \in changes /\ k < c.at /\ \A d \in changes : k < d.at => c.at <= d.at

\* The value at a tick is what the last change up to it says, or that of the beginning.
LEMMA TellsTheLast ==
    ASSUME NEW changes, NEW b \in Nat, NEW n \in Nat, NEW v, Tells(changes, v, b, n),
           NEW k \in b .. n
    PROVE  \/ (\A c \in changes : k < c.at) /\ v[k] = v[b]
           \/ \E c : IsLast(c, changes, k) /\ v[k] = c.to
  <1> DEFINE times == {c.at : c \in {c \in changes : c.at <= k}}
  <1>1. \A c \in changes : c.at \in Nat /\ c.at \in b .. n /\ b < c.at /\ c.to = v[c.at]
    BY DEF Tells
  <1>2. times \in SUBSET Nat /\ \A x \in times : x <= k
    BY <1>1
  <1>3. CASE times = {}
    <2>1. \A c \in changes : ~(c.at <= k)
      BY <1>3
    <2>2. \A c \in changes : k < c.at
      BY <1>1, <2>1
    <2>3. b \in b .. n /\ b <= k /\ Quiet(changes, b, k)
      BY <2>1 DEF Quiet
    <2>4. v[b] = v[k]
      BY <2>3, TellsConstant
    <2> QED
      BY <2>2, <2>4
  <1>4. CASE times # {}
    <2>1. PICK x \in times : \A y \in times : y <= x
      <3>1. times \in SUBSET Int /\ IsFiniteSet(times)
        <4> HIDE DEF times
        <4> QED
          BY <1>2, FS_BoundedSetOfNaturals
      <3> HIDE DEF times
      <3> QED
        BY <1>4, <3>1, GreatestInteger
    <2>2. PICK c \in changes : c.at <= k /\ c.at = x
      BY <2>1
    <2>3. \A d \in changes : d.at <= k => d.at <= c.at
      BY <2>1, <2>2
    <2>4. x \in b .. n /\ x <= k /\ Quiet(changes, x, k)
      BY <1>1, <2>2, <2>3 DEF Quiet
    <2>5. v[x] = v[k]
      <3> HIDE DEF times
      <3> QED
        BY <2>4, TellsConstant
    <2> QED
      BY <1>1, <2>2, <2>3, <2>5 DEF IsLast
  <1> QED
    BY <1>3, <1>4

\* The value at a tick is what the first change after it came from, or that of the end.
LEMMA TellsTheNext ==
    ASSUME NEW changes, NEW b \in Nat, NEW n \in Nat, NEW v, Tells(changes, v, b, n),
           NEW k \in b .. n
    PROVE  \/ (\A c \in changes : c.at <= k) /\ v[k] = v[n]
           \/ \E c : IsNext(c, changes, k) /\ c.from = v[k]
  <1>8. CASE \A c \in changes : c.at <= k
    <2>1. n \in b .. n /\ k <= n /\ Quiet(changes, k, n)
      BY <1>8 DEF Tells, Quiet
    <2>2. v[k] = v[n]
      BY <2>1, TellsConstant
    <2> QED
      BY <1>8, <2>2
  <1>9. SUFFICES ASSUME ~ \A c \in changes : c.at <= k
                 PROVE  \E c : IsNext(c, changes, k) /\ c.from = v[k]
    BY <1>8
  <1> DEFINE times == {c.at : c \in {c \in changes : k < c.at}}
  <1>1. \A c \in changes : c.at \in Nat /\ c.at \in b .. n /\ c.at - 1 \in Nat /\ c.from = v[c.at - 1]
    BY DEF Tells
  <1>2. times \in SUBSET Nat /\ times # {}
    <2>1. \E c \in changes : k < c.at
      BY <1>1, <1>9
    <2> QED
      BY <1>1, <2>1
  <1>3. PICK x \in times : \A y \in times : x <= y
    <2> HIDE DEF times
    <2> QED
      BY <1>2, LeastNatural
  <1>4. PICK c \in changes : k < c.at /\ c.at = x
    BY <1>3
  <1>5. \A d \in changes : k < d.at => c.at <= d.at
    BY <1>3, <1>4
  <1> DEFINE prior == c.at - 1
  <1>6. prior \in b .. n /\ k <= prior /\ Quiet(changes, k, prior)
    BY <1>1, <1>4, <1>5 DEF Quiet
  <1>7. v[k] = v[prior]
    <2> HIDE DEF prior
    <2> QED
      BY <1>6, TellsConstant
  <1> QED
    BY <1>1, <1>4, <1>5, <1>7 DEF IsNext

\* What the sprints of an issue were, tick by tick.
SprintsOf(i) == [k \in Life(i) |-> At(k)[i].sprints]

\* The moves between sprints tell the membership at each tick.
LEMMA MovesAreTold ==
    ASSUME TypeInv, HistoryInv, NEW i \in DOMAIN jira
    PROVE  /\ Tells(jira[i].moves, SprintsOf(i), jira[i].created, now)
           /\ SprintsOf(i)[now] = jira[i].sprints
           /\ \A k \in Life(i) : SprintsOf(i)[k] \in {{}, {"sprint"}}
           /\ \A k \in 0 .. now : PlannedAt(i, k) <=> k \in Life(i) /\ SprintsOf(i)[k] = {"sprint"}
           /\ \A m \in jira[i].moves : m.from \in {{}, {"sprint"}} /\ m.to \in {{}, {"sprint"}}
           /\ \A m \in jira[i].moves : m.from # m.to /\ m.at \in After(i)
  <1>1. HistoryOf(i, Film, now) /\ Film[now] = jira /\ \A k \in 0 .. now : Film[k] = At(k)
    BY FilmOfNow DEF HistoryInv, HistoryOk
  <1> DEFINE b == jira[i].created
             v == [k \in b .. now |-> Film[k][i].sprints]
  <1>2. /\ b \in 0 .. now /\ \A k \in 0 .. now : i \in DOMAIN Film[k] <=> b <= k
        /\ Tells(jira[i].moves, v, b, now)
    BY <1>1 DEF HistoryOf
  <1>3. now \in Nat
    BY WorldTypes
  <1>4. Life(i) = b .. now /\ b .. now \subseteq 0 .. now /\ now \in b .. now
        /\ \A k \in 0 .. now : k \in b .. now <=> b <= k
    BY <1>2, <1>3 DEF Life
  <1>5. v = SprintsOf(i)
    BY <1>1, <1>4 DEF SprintsOf
  <1>6. \A k \in Life(i) : SprintsOf(i)[k] \in {{}, {"sprint"}}
    <2> TAKE k \in Life(i)
    <2>1. At(k) \in Boards(world)
      <3>1. k + 1 \in 1 .. now \/ At(k) = jira
        BY <1>2, <1>3, <1>4 DEF At
      <3> QED
        BY <3>1, WorldTypes DEF At, TypeInv
    <2>2. At(k)[i] \in IssueType
      BY <1>1, <1>2, <1>4, <2>1 DEF Boards
    <2>3. At(k)[i].sprints \in SUBSET {"sprint"}
      BY <2>2 DEF IssueType
    <2> QED
      BY <2>3 DEF SprintsOf
  <1>7. \A k \in 0 .. now : PlannedAt(i, k) <=> k \in Life(i) /\ SprintsOf(i)[k] = {"sprint"}
    <2> TAKE k \in 0 .. now
    <2>1. i \in DOMAIN At(k) <=> k \in Life(i)
      BY <1>1, <1>2, <1>4
    <2>2. k \in Life(i) => SprintsOf(i)[k] = At(k)[i].sprints
      BY DEF SprintsOf
    <2> QED
      BY <1>6, <2>1, <2>2 DEF PlannedAt
  <1>8. \A m \in jira[i].moves : m.from \in SUBSET {"sprint"} /\ m.to \in SUBSET {"sprint"}
    BY WorldTypes DEF IssueType
  <1>9. \A m \in jira[i].moves : m.from # m.to /\ m.at \in After(i)
    BY <1>2 DEF Tells, After
  <1> HIDE DEF v
  <1>10. \A m \in jira[i].moves : m.from \in {{}, {"sprint"}} /\ m.to \in {{}, {"sprint"}}
    BY <1>8
  <1>11. SprintsOf(i)[now] = jira[i].sprints
    <2>1. now \in Life(i) /\ At(now) = jira
      BY <1>1, <1>2, <1>3, <1>4
    <2> QED
      BY <2>1 DEF SprintsOf
  <1>12. Tells(jira[i].moves, SprintsOf(i), b, now)
    BY <1>2, <1>5
  <1> QED
    BY <1>6, <1>7, <1>9, <1>10, <1>11, <1>12

-----------------------------------------------------------------------------
\* What the clean layer makes of the Sprint field.

\* What the clean layer makes of the Sprint field of an issue: its changes, or else, if it
\* has a sprint, an addition when it was created.
SprintEvents(i) ==
    {Clean!Event(i, "sprint", m.at, IF m.to = {"sprint"} THEN "added" ELSE "removed") :
        m \in jira[i].moves}
    \cup {Clean!Event(i, "sprint", jira[i].created, "added") :
            s \in IF jira[i].moves = {} THEN jira[i].sprints ELSE {}}

\* The log of the sprint has the events of the issues, and members are those with events.
LEMMA SprintLog ==
    ASSUME TypeInv, HistoryInv
    PROVE  /\ \A e : e \in tables.sprint_issues_changelog <=>
                        \E i \in DOMAIN jira : e \in SprintEvents(i)
           /\ tables.sprint_issues = {i \in DOMAIN jira : SprintEvents(i) # {}}
           /\ tables.sprint = world.sprint
  <1> DEFINE raw == Raw(jira)
             X == Clean!CleanIssueStatuses(Known0(world), raw).issue_statuses
             t0 == [issues |-> [i \in DOMAIN jira |-> jira[i].status],
                    issue_statuses |-> X, status_changelog |-> <<>>,
                    sprints |-> [s \in {"sprint"} |-> "active"], sprint_issues |-> <<>>,
                    sprint_issues_changelog |-> {}]
             t1 == Clean!CleanStatusChangelog(t0, raw)
             t2 == Clean!CleanSprintIssues(t1, raw)
             added(i, m) == Clean!Event(i, "sprint", m.at, "added")
             removed(i, m) == Clean!Event(i, "sprint", m.at, "removed")
             born(i) == Clean!Event(i, "sprint", jira[i].created, "added")
             planned(i) == jira[i].moves = {} /\ jira[i].sprints = {"sprint"}
             move(i, e) ==
                \E m \in jira[i].moves : \/ m.to = {"sprint"} /\ e = added(i, m)
                                         \/ m.to = {} /\ e = removed(i, m)
             snap(i, e) == planned(i) /\ e = born(i)
  <1>1. Cleaned(world, jira) = Clean!CleanSprintIssuesChangelog(t2, raw)
    BY DEF Cleaned, Raw, Known0
  <1>2. \A i \in DOMAIN jira : /\ \A m \in jira[i].moves :
                                    \/ m.from = {} /\ m.to = {"sprint"}
                                    \/ m.from = {"sprint"} /\ m.to = {}
                               /\ jira[i].sprints \in {{}, {"sprint"}}
    <2>1. \A i \in DOMAIN jira : jira[i].sprints \in {{}, {"sprint"}}
      BY WorldTypes DEF IssueType
    <2>2. ASSUME NEW i \in DOMAIN jira, NEW m \in jira[i].moves
          PROVE  (m.from = {} /\ m.to = {"sprint"}) \/ (m.from = {"sprint"} /\ m.to = {})
      <3>1. m.from \in {{}, {"sprint"}} /\ m.to \in {{}, {"sprint"}} /\ m.from # m.to
        BY MovesAreTold
      <3> QED
        BY <3>1
    <2> QED
      BY <2>1, <2>2
  <1>3. \A e : e \in Clean!DifferenceEvents(raw) <=>
            \E i \in DOMAIN jira : move(i, e)
    <2>1. \A e : e \in Clean!DifferenceEvents(raw) <=>
            \E i \in DOMAIN jira : \E m \in jira[i].moves :
                \/ \E s \in m.to \ m.from : e = Clean!Event(i, s, m.at, "added")
                \/ \E s \in m.from \ m.to : e = Clean!Event(i, s, m.at, "removed")
      BY DEF Clean!DifferenceEvents, Clean!Loaded, Raw
    <2>2. \A i \in DOMAIN jira : \A m \in jira[i].moves : \A e :
            /\ (\E s \in m.to \ m.from : e = Clean!Event(i, s, m.at, "added"))
                    <=> m.to = {"sprint"} /\ e = added(i, m)
            /\ (\E s \in m.from \ m.to : e = Clean!Event(i, s, m.at, "removed"))
                    <=> m.to = {} /\ e = removed(i, m)
      BY <1>2
    <2> DEFINE in(i, m, e) == \E s \in m.to \ m.from : e = Clean!Event(i, s, m.at, "added")
               out(i, m, e) == \E s \in m.from \ m.to : e = Clean!Event(i, s, m.at, "removed")
    <2>3. \A e : e \in Clean!DifferenceEvents(raw) <=>
            \E i \in DOMAIN jira : \E m \in jira[i].moves : in(i, m, e) \/ out(i, m, e)
      BY <2>1
    <2>4. \A i \in DOMAIN jira : \A m \in jira[i].moves : \A e :
            /\ in(i, m, e) <=> m.to = {"sprint"} /\ e = added(i, m)
            /\ out(i, m, e) <=> m.to = {} /\ e = removed(i, m)
      BY <2>2
    <2> HIDE DEF in, out, added, removed, raw
    <2>5. ASSUME NEW i \in DOMAIN jira, NEW e
          PROVE  move(i, e) <=> \E m \in jira[i].moves : in(i, m, e) \/ out(i, m, e)
      <3>1. \A m \in jira[i].moves : in(i, m, e) <=> m.to = {"sprint"} /\ e = added(i, m)
        BY <2>4
      <3>2. \A m \in jira[i].moves : out(i, m, e) <=> m.to = {} /\ e = removed(i, m)
        BY <2>4
      <3> QED
        BY <3>1, <3>2
    <2> HIDE DEF move
    <2> QED
      BY <2>3, <2>5
  <1>4. \A e : e \in Clean!WholeSetEvents(raw) <=>
            \E i \in DOMAIN jira : move(i, e)
    <2>1. \A e : e \in Clean!WholeSetEvents(raw) <=>
            \E i \in DOMAIN jira : \E m \in jira[i].moves :
                \/ \E s \in m.to : e = Clean!Event(i, s, m.at, "added")
                \/ \E s \in m.from : e = Clean!Event(i, s, m.at, "removed")
      BY DEF Clean!WholeSetEvents, Clean!Loaded, Raw
    <2>2. \A i \in DOMAIN jira : \A m \in jira[i].moves : \A e :
            /\ (\E s \in m.to : e = Clean!Event(i, s, m.at, "added"))
                    <=> m.to = {"sprint"} /\ e = added(i, m)
            /\ (\E s \in m.from : e = Clean!Event(i, s, m.at, "removed"))
                    <=> m.to = {} /\ e = removed(i, m)
      BY <1>2
    <2> DEFINE in(i, m, e) == \E s \in m.to : e = Clean!Event(i, s, m.at, "added")
               out(i, m, e) == \E s \in m.from : e = Clean!Event(i, s, m.at, "removed")
    <2>3. \A e : e \in Clean!WholeSetEvents(raw) <=>
            \E i \in DOMAIN jira : \E m \in jira[i].moves : in(i, m, e) \/ out(i, m, e)
      BY <2>1
    <2>4. \A i \in DOMAIN jira : \A m \in jira[i].moves : \A e :
            /\ in(i, m, e) <=> m.to = {"sprint"} /\ e = added(i, m)
            /\ out(i, m, e) <=> m.to = {} /\ e = removed(i, m)
      BY <2>2
    <2> HIDE DEF in, out, added, removed, raw
    <2>5. ASSUME NEW i \in DOMAIN jira, NEW e
          PROVE  move(i, e) <=> \E m \in jira[i].moves : in(i, m, e) \/ out(i, m, e)
      <3>1. \A m \in jira[i].moves : in(i, m, e) <=> m.to = {"sprint"} /\ e = added(i, m)
        BY <2>4
      <3>2. \A m \in jira[i].moves : out(i, m, e) <=> m.to = {} /\ e = removed(i, m)
        BY <2>4
      <3> QED
        BY <3>1, <3>2
    <2> HIDE DEF move
    <2> QED
      BY <2>3, <2>5
  <1>5. \A e : e \in Clean!SnapshotEvents(raw) <=> \E i \in DOMAIN jira : snap(i, e)
    <2>1. \A e : e \in Clean!SnapshotEvents(raw) <=>
            \E i \in DOMAIN jira : jira[i].moves = {} /\ \E s \in jira[i].sprints :
                e = Clean!Event(i, s, jira[i].created, "added")
      BY DEF Clean!SnapshotEvents, Clean!Loaded, Raw
    <2>2. \A i \in DOMAIN jira : \A e :
            (jira[i].moves = {} /\ \E s \in jira[i].sprints : e = Clean!Event(i, s, jira[i].created, "added"))
                <=> planned(i) /\ e = born(i)
      BY <1>2
    <2> DEFINE held(i, e) == jira[i].moves = {} /\ \E s \in jira[i].sprints :
                                e = Clean!Event(i, s, jira[i].created, "added")
    <2>3. \A e : e \in Clean!SnapshotEvents(raw) <=> \E i \in DOMAIN jira : held(i, e)
      BY <2>1
    <2>4. \A i \in DOMAIN jira : \A e : held(i, e) <=> snap(i, e)
      BY <2>2
    <2> HIDE DEF held, snap, raw
    <2> QED
      BY <2>3, <2>4
  <1>6. ASSUME NEW i \in DOMAIN jira, NEW e
        PROVE  e \in SprintEvents(i) <=> move(i, e) \/ snap(i, e)
    <2>1. \A m \in jira[i].moves : m.to \in {{}, {"sprint"}}
      BY <1>2
    <2>2. (\E m \in jira[i].moves : e = Clean!Event(i, "sprint", m.at,
                                        IF m.to = {"sprint"} THEN "added" ELSE "removed"))
            <=> move(i, e)
      BY <2>1
    <2>3. (\E s \in IF jira[i].moves = {} THEN jira[i].sprints ELSE {} : e = born(i)) <=> snap(i, e)
      BY <1>2
    <2> HIDE DEF move, snap
    <2> QED
      BY <2>2, <2>3 DEF SprintEvents
  <1>7. DOMAIN t0.issues = DOMAIN jira /\ DOMAIN t0.sprints = {"sprint"}
    OBVIOUS
  <1>8. /\ t1.issues = t0.issues /\ t1.sprints = t0.sprints /\ t1.sprint_issues = <<>>
        /\ t2.issues = t0.issues /\ t2.sprints = t0.sprints
    BY DEF Clean!CleanStatusChangelog, Clean!CleanSprintIssues
  <1>9. \A e : Clean!Event(e, "sprint", 0, 0).issue = e
    BY DEF Clean!Event
  <1> DEFINE all == UNION {SprintEvents(i) : i \in DOMAIN jira}
  <1>10. \A e \in all : e.issue \in DOMAIN jira /\ e.of = "sprint"
    BY DEF SprintEvents, Clean!Event
  <1>11. Clean!DifferenceEvents(raw) \cup Clean!SnapshotEvents(raw) = all
         /\ Clean!WholeSetEvents(raw) \cup Clean!SnapshotEvents(raw) = all
    <2>1. \A e : e \in all <=> \E i \in DOMAIN jira : e \in SprintEvents(i)
      OBVIOUS
    <2>2. /\ \A e : e \in Clean!DifferenceEvents(raw) <=> \E i \in DOMAIN jira : move(i, e)
          /\ \A e : e \in Clean!WholeSetEvents(raw) <=> \E i \in DOMAIN jira : move(i, e)
          /\ \A e : e \in Clean!SnapshotEvents(raw) <=> \E i \in DOMAIN jira : snap(i, e)
          /\ \A i \in DOMAIN jira : \A e : e \in SprintEvents(i) <=> move(i, e) \/ snap(i, e)
      <3>1. \A e : e \in Clean!DifferenceEvents(raw) <=> \E i \in DOMAIN jira : move(i, e)
        BY <1>3
      <3>2. \A e : e \in Clean!WholeSetEvents(raw) <=> \E i \in DOMAIN jira : move(i, e)
        BY <1>4
      <3>3. \A e : e \in Clean!SnapshotEvents(raw) <=> \E i \in DOMAIN jira : snap(i, e)
        BY <1>5
      <3>4. \A i \in DOMAIN jira : \A e : e \in SprintEvents(i) <=> move(i, e) \/ snap(i, e)
        BY <1>6
      <3> HIDE DEF move, snap, raw
      <3> QED
        BY <3>1, <3>2, <3>3, <3>4
    <2> HIDE DEF all, raw, move, snap
    <2>3. \A e : e \in all <=> (\E i \in DOMAIN jira : move(i, e)) \/ (\E i \in DOMAIN jira : snap(i, e))
      BY <2>1, <2>2
    <2> QED
      BY <2>2, <2>3
  <1>12. \A t : DOMAIN t.issues = DOMAIN jira => Clean!KnownEvents(all, t, t0.sprints) = all
    <2> HIDE DEF all, t0
    <2> QED
      BY <1>7, <1>10 DEF Clean!KnownEvents
  <1>13. tables.sprint_issues_changelog = all
    <2>1. Clean!CleanSprintIssuesChangelog(t2, raw).sprint_issues_changelog
            = Clean!KnownEvents(Clean!DifferenceEvents(raw) \cup Clean!SnapshotEvents(raw), t2, t2.sprints)
      <3>1. "sprint_issues_changelog" \in DOMAIN t2
        BY DEF Clean!CleanStatusChangelog, Clean!CleanSprintIssues
      <3> HIDE DEF t2, raw
      <3> QED
        BY <3>1 DEF Clean!CleanSprintIssuesChangelog
    <2>2. tables.sprint_issues_changelog = Cleaned(world, jira).sprint_issues_changelog
      BY DEF TypeInv, TablesOf
    <2> HIDE DEF t2, raw, all, t0
    <2> QED
      BY <1>1, <1>7, <1>8, <1>11, <1>12, <2>1, <2>2
  <1>14. tables.sprint_issues = {k[2] : k \in DOMAIN t2.sprint_issues}
    <2>1. Cleaned(world, jira).sprint_issues = t2.sprint_issues
      <3> HIDE DEF t2
      <3>1. Clean!CleanSprintIssuesChangelog(t2, raw).sprint_issues = t2.sprint_issues
        BY DEF Clean!CleanSprintIssuesChangelog
      <3> QED
        BY <1>1, <3>1
    <2> HIDE DEF t2
    <2> QED
      BY <2>1 DEF TypeInv, TablesOf
  <1>15. DOMAIN t2.sprint_issues = {<<e.of, e.issue>> : e \in all}
    <2> DEFINE found == Clean!KnownEvents(Clean!WholeSetEvents(raw) \cup Clean!SnapshotEvents(raw), t1, t1.sprints)
               rows == Clean!Upserted(t1.sprint_issues, Clean!Members(found))
    <2>1. t2.sprint_issues = [p \in DOMAIN rows |-> rows[p] /\ t1.sprints[p[1]] # "closed"]
      <3>1. "items" \in raw.tables
        BY DEF Raw
      <3>2. "sprint_issues" \in DOMAIN t1
        BY DEF Clean!CleanStatusChangelog
      <3> HIDE DEF t1, raw
      <3> QED
        BY <3>1, <3>2 DEF Clean!CleanSprintIssues
    <2>2. found = all
      <3> HIDE DEF t1, raw, all, t0
      <3> QED
        BY <1>7, <1>8, <1>11, <1>12
    <2>3. DOMAIN Clean!Members(all) = {<<e.of, e.issue>> : e \in all}
      <3> HIDE DEF all
      <3> QED
        BY DEF Clean!Members
    <2>4. DOMAIN <<>> = {}
      OBVIOUS
    <2>5. DOMAIN rows = DOMAIN Clean!Members(all)
      <3> HIDE DEF found, all, t1
      <3> QED
        BY <1>8, <2>2, <2>4 DEF Clean!Upserted
    <2>6. DOMAIN t2.sprint_issues = DOMAIN rows
      <3> HIDE DEF t2, t1, rows
      <3> QED
        BY <2>1
    <2> HIDE DEF t2, rows, all, found
    <2> QED
      BY <2>3, <2>5, <2>6
  <1>16. \A i \in DOMAIN jira : \A e \in SprintEvents(i) : e.issue = i /\ e.of = "sprint"
    BY DEF SprintEvents, Clean!Event
  <1>17. tables.sprint_issues = {i \in DOMAIN jira : SprintEvents(i) # {}}
    <2>1. \A j : j \in tables.sprint_issues <=> \E e \in all : e.issue = j
      <3>1. \A j : j \in tables.sprint_issues <=> \E k \in {<<e.of, e.issue>> : e \in all} : k[2] = j
        <4> HIDE DEF t2, all
        <4> QED
          BY <1>14, <1>15
      <3> HIDE DEF all
      <3>2. ASSUME NEW e \in all
            PROVE  e.issue \in tables.sprint_issues
        <4>1. <<e.of, e.issue>> \in {<<f.of, f.issue>> : f \in all} /\ <<e.of, e.issue>>[2] = e.issue
          OBVIOUS
        <4> QED
          BY <3>1, <4>1
      <3>3. ASSUME NEW j \in tables.sprint_issues
            PROVE  \E e \in all : e.issue = j
        <4>1. PICK k \in {<<e.of, e.issue>> : e \in all} : k[2] = j
          BY <3>1
        <4>2. PICK e \in all : k = <<e.of, e.issue>>
          BY <4>1
        <4> QED
          BY <4>1, <4>2
      <3> QED
        BY <3>2, <3>3
    <2>2. \A e : e \in all <=> \E i \in DOMAIN jira : e \in SprintEvents(i)
      OBVIOUS
    <2> HIDE DEF all
    <2> QED
      BY <1>16, <2>1, <2>2
  <1>18. tables.sprint = world.sprint
    BY DEF TypeInv, TablesOf
  <1>19. \A e : e \in all <=> \E i \in DOMAIN jira : e \in SprintEvents(i)
    OBVIOUS
  <1> QED
    BY <1>13, <1>17, <1>18, <1>19

\* The event that a move leaves.
Records(e, m) == /\ e.at = m.at
                 /\ e.action = "added" <=> m.to = {"sprint"}
                 /\ e.action = "removed" <=> m.to = {}

\* The events of an issue are its moves, or its creation in the sprint.
LEMMA EventsAreOfTheirIssue ==
    ASSUME TypeInv, HistoryInv, NEW i \in DOMAIN jira
    PROVE  /\ \A e \in SprintEvents(i) :
                /\ e.issue = i /\ e \in tables.sprint_issues_changelog /\ e.at \in Life(i)
                /\ \/ e.at = jira[i].created /\ e.action = "added"
                        /\ jira[i].moves = {} /\ jira[i].sprints = {"sprint"}
                   \/ \E m \in jira[i].moves : Records(e, m)
           /\ \A e \in tables.sprint_issues_changelog : e.issue = i => e \in SprintEvents(i)
           /\ \A m \in jira[i].moves : \E e \in SprintEvents(i) : Records(e, m)
           /\ jira[i].moves = {} /\ jira[i].sprints = {"sprint"} =>
                \E e \in SprintEvents(i) : e.at = jira[i].created /\ e.action = "added"
  <1>1. \A m \in jira[i].moves : m.to \in {{}, {"sprint"}} /\ m.at \in After(i)
    BY MovesAreTold
  <1>2. jira[i].created \in 0 .. now /\ now \in Nat
    BY StatusesAreTold
  <1>3. \A j \in DOMAIN jira : \A e \in SprintEvents(j) : e.issue = j
    BY DEF SprintEvents, Clean!Event
  <1>4. \A e \in SprintEvents(i) : e \in tables.sprint_issues_changelog
    BY SprintLog
  <1>5. \A e \in tables.sprint_issues_changelog : e.issue = i => e \in SprintEvents(i)
    BY <1>3, SprintLog
  <1>6. jira[i].sprints \in {{}, {"sprint"}}
    BY WorldTypes DEF IssueType
  <1>7. ASSUME NEW e \in SprintEvents(i)
        PROVE  /\ e.at \in Life(i)
               /\ \/ e.at = jira[i].created /\ e.action = "added"
                        /\ jira[i].moves = {} /\ jira[i].sprints = {"sprint"}
                  \/ \E m \in jira[i].moves : Records(e, m)
    <2>1. CASE \E m \in jira[i].moves : e = Clean!Event(i, "sprint", m.at,
                                        IF m.to = {"sprint"} THEN "added" ELSE "removed")
      <3>1. PICK m \in jira[i].moves : e = Clean!Event(i, "sprint", m.at,
                                        IF m.to = {"sprint"} THEN "added" ELSE "removed")
        BY <2>1
      <3>2. e.at = m.at /\ e.action = IF m.to = {"sprint"} THEN "added" ELSE "removed"
        BY <3>1 DEF Clean!Event
      <3>3. (e.action = "added" <=> m.to = {"sprint"}) /\ (e.action = "removed" <=> m.to = {})
        BY <1>1, <3>2
      <3>4. m.at \in Life(i)
        BY <1>1, <1>2 DEF After, Life
      <3> QED
        BY <3>2, <3>3, <3>4 DEF Records
    <2>2. CASE \E s \in IF jira[i].moves = {} THEN jira[i].sprints ELSE {} :
                    e = Clean!Event(i, "sprint", jira[i].created, "added")
      <3>1. e.at = jira[i].created /\ e.action = "added" /\ jira[i].moves = {}
            /\ jira[i].sprints # {}
        BY <2>2 DEF Clean!Event
      <3>2. e.at \in Life(i)
        BY <1>2, <3>1 DEF Life
      <3> QED
        BY <1>6, <3>1, <3>2
    <2> QED
      BY <2>1, <2>2 DEF SprintEvents
  <1>8. ASSUME NEW m \in jira[i].moves
        PROVE  \E e \in SprintEvents(i) : Records(e, m)
    <2> DEFINE e == Clean!Event(i, "sprint", m.at, IF m.to = {"sprint"} THEN "added" ELSE "removed")
    <2>1. e \in SprintEvents(i)
      BY DEF SprintEvents
    <2>2. e.at = m.at /\ e.action = IF m.to = {"sprint"} THEN "added" ELSE "removed"
      BY DEF Clean!Event
    <2> HIDE DEF e
    <2>3. (e.action = "added" <=> m.to = {"sprint"}) /\ (e.action = "removed" <=> m.to = {})
      BY <1>1, <2>2
    <2> QED
      BY <2>1, <2>2, <2>3 DEF Records
  <1>9. ASSUME jira[i].moves = {}, jira[i].sprints = {"sprint"}
        PROVE  \E e \in SprintEvents(i) : e.at = jira[i].created /\ e.action = "added"
    <2> DEFINE e == Clean!Event(i, "sprint", jira[i].created, "added")
    <2>1. e \in SprintEvents(i)
      BY <1>9 DEF SprintEvents
    <2>2. e.at = jira[i].created /\ e.action = "added"
      BY DEF Clean!Event
    <2> QED
      BY <2>1, <2>2
  <1> QED
    BY <1>3, <1>4, <1>5, <1>7, <1>8, <1>9

\* The commitment as the calculation finds it, by issue.
LEMMA CommitmentByIssue ==
    ASSUME TypeInv, HistoryInv, NEW i \in DOMAIN jira,
           NEW log \in SUBSET tables.sprint_issues_changelog
    PROVE  LET E == {e \in SprintEvents(i) : e \in log}
           IN  i \in identify_sprint_commitment(tables, log) <=>
                IF log = {} THEN SprintEvents(i) # {}
                ELSE \/ InScopeAfter({e \in E : e.at <= Start0})
                     \/ SprintEvents(i) # {} /\ E = {} /\ jira[i].created < Start0
                     \/ jira[i].created < Start0 /\ \E e \in E : e.action = "removed" /\ e.at >= Start0
  <1> DEFINE E == {e \in SprintEvents(i) : e \in log}
  <1>1. Start(tables) = Start0
    BY SprintLog DEF Start, Start0
  <1>2. EventsOf(log, i) = E
    BY EventsAreOfTheirIssue DEF EventsOf
  <1>3. DOMAIN tables.issues = DOMAIN jira /\ tables.issues[i].created = jira[i].created
    BY TablesAreThoseOfJira
  <1>4. i \in Members(tables) <=> SprintEvents(i) # {}
    BY <1>3, SprintLog DEF Members
  <1>5. i \in Unlogged(tables, log) <=> SprintEvents(i) # {} /\ E = {}
    BY <1>2, <1>4 DEF Unlogged
  <1>6. \A e \in E : e \in Known(tables, log) /\ e.issue = i
    BY <1>3, EventsAreOfTheirIssue DEF Known
  <1>7. \A e \in Known(tables, log) : e.issue = i => e \in E
    BY <1>2 DEF Known, EventsOf
  <1> HIDE DEF E
  <1>8. i \in AtCutoff(tables, log) <=> InScopeAfter({e \in E : e.at <= Start0})
    <2>1. i \in AtCutoff(tables, log) <=>
            \E e \in Known(tables, log) : e.issue = i /\
                InScopeAfter({f \in EventsOf(log, e.issue) : f.at <= Start0})
      BY <1>1 DEF AtCutoff
    <2>2. i \in AtCutoff(tables, log) <=>
            (\E e \in Known(tables, log) : e.issue = i) /\ InScopeAfter({f \in E : f.at <= Start0})
      BY <1>2, <2>1
    <2>3. InScopeAfter({f \in E : f.at <= Start0}) => E # {}
      BY DEF InScopeAfter
    <2> QED
      BY <1>6, <2>2, <2>3
  <1>9. \A ids : i \in OlderThanSprint(tables, ids) <=> i \in ids /\ jira[i].created < Start0
    BY <1>1, <1>3 DEF OlderThanSprint
  <1>10. i \in Ghosts(tables, log) <=>
            jira[i].created < Start0 /\ \E e \in E : e.action = "removed" /\ e.at >= Start0
    <2> DEFINE gone == {e.issue : e \in
                {e \in Known(tables, log) : e.action = "removed" /\ e.at >= Start0}}
    <2>1. Ghosts(tables, log) = OlderThanSprint(tables, gone)
      BY <1>1 DEF Ghosts
    <2>2. i \in gone <=> \E e \in E : e.action = "removed" /\ e.at >= Start0
      BY <1>6, <1>7
    <2> HIDE DEF gone
    <2> QED
      BY <1>9, <2>1, <2>2
  <1>11. i \in identify_sprint_commitment(tables, log) <=>
            IF log = {} THEN i \in Members(tables)
            ELSE \/ i \in AtCutoff(tables, log)
                 \/ i \in OlderThanSprint(tables, Unlogged(tables, log))
                 \/ i \in Ghosts(tables, log)
    BY DEF identify_sprint_commitment
  <1> QED
    BY <1>4, <1>5, <1>8, <1>9, <1>10, <1>11 DEF E

-----------------------------------------------------------------------------
\* The commitment of the sprint.

\* The log up to a tick: an issue that has moved by then is in scope if it was planned.
LEMMA ScopeIsThePlan ==
    ASSUME TypeInv, HistoryInv, NEW i \in DOMAIN jira, NEW k \in Life(i), NEW E,
           \A e \in SprintEvents(i) : e.at <= k => e \in E,
           E \subseteq SprintEvents(i)
    PROVE  LET before == {e \in E : e.at <= k}
           IN  /\ (\E m \in jira[i].moves : m.at <= k) \/ jira[i].moves = {} =>
                        (InScopeAfter(before) <=> PlannedAt(i, k))
               /\ (\A m \in jira[i].moves : k < m.at) /\ jira[i].moves # {} =>
                        ~InScopeAfter(before)
  <1> DEFINE before == {e \in E : e.at <= k}
             v == SprintsOf(i)
             b == jira[i].created
  <1>1. b \in Nat /\ now \in Nat /\ b <= now /\ Life(i) = b .. now
    BY StatusesAreTold DEF Life
  <1>2. k \in 0 .. now /\ k \in b .. now
    BY <1>1
  <1>3. /\ Tells(jira[i].moves, v, b, now) /\ v[now] = jira[i].sprints
        /\ PlannedAt(i, k) <=> v[k] = {"sprint"}
        /\ \A m \in jira[i].moves : m.to \in {{}, {"sprint"}} /\ m.at \in Nat
    BY <1>1, <1>2, MovesAreTold DEF After
  <1>4. before = {e \in SprintEvents(i) : e.at <= k}
    OBVIOUS
  <1> HIDE DEF before, v, b
  <1>5. CASE \E m \in jira[i].moves : m.at <= k
    <2>1. PICK m : IsLast(m, jira[i].moves, k) /\ v[k] = m.to
      <3>1. ~ \A m \in jira[i].moves : k < m.at
        BY <1>2, <1>3, <1>5
      <3> QED
        BY <1>1, <1>2, <1>3, <3>1, TellsTheLast
    <2>9. m \in jira[i].moves /\ m.at <= k /\ \A d \in jira[i].moves : d.at <= k => d.at <= m.at
      BY <2>1 DEF IsLast
    <2>2. PICK e \in SprintEvents(i) : Records(e, m)
      BY <2>9, EventsAreOfTheirIssue
    <2>10. e.at = m.at /\ (e.action = "added" <=> m.to = {"sprint"})
      BY <2>2 DEF Records
    <2>3. e \in before
      BY <1>4, <2>2, <2>9, <2>10
    <2>4. \A f \in before : f.at <= e.at
      <3> TAKE f \in before
      <3>1. PICK d \in jira[i].moves : Records(f, d)
        BY <1>4, <1>5, EventsAreOfTheirIssue
      <3> QED
        BY <1>4, <2>9, <2>10, <3>1 DEF Records
    <2>5. ASSUME NEW f \in before, \A g \in before : g.at <= f.at
          PROVE  f.action = "added" <=> m.to = {"sprint"}
      <3>1. PICK d \in jira[i].moves : Records(f, d)
        BY <1>4, <1>5, EventsAreOfTheirIssue
      <3>5. f.at = d.at /\ (f.action = "added" <=> d.to = {"sprint"})
        BY <3>1 DEF Records
      <3>2. e.at <= f.at /\ f.at <= e.at
        BY <2>3, <2>4, <2>5
      <3>3. d.at = m.at
        BY <1>3, <2>9, <2>10, <3>2, <3>5
      <3>4. d = m
        BY <1>3, <2>9, <3>3 DEF Tells
      <3> QED
        BY <3>4, <3>5
    <2>6. InScopeAfter(before) <=> m.to = {"sprint"}
      BY <2>3, <2>4, <2>5 DEF InScopeAfter
    <2> QED
      BY <1>2, <1>3, <1>5, <2>1, <2>6 DEF before
  <1>6. CASE jira[i].moves = {}
    <2>1. v[k] = v[now]
      <3>1. k \in b .. now /\ now \in b .. now /\ k <= now
        BY <1>1, <1>2
      <3>2. Quiet(jira[i].moves, k, now)
        BY <1>6 DEF Quiet
      <3> HIDE DEF v, b
      <3> QED
        BY <1>1, <1>3, <3>1, <3>2, TellsConstant
    <2>2. PlannedAt(i, k) <=> jira[i].sprints = {"sprint"}
      BY <1>3, <2>1
    <2>3. \A e \in SprintEvents(i) : e.action = "added" /\ jira[i].sprints = {"sprint"}
      BY <1>6, EventsAreOfTheirIssue
    <2>4. jira[i].sprints = {"sprint"} => before # {}
      <3>1. ASSUME jira[i].sprints = {"sprint"}
            PROVE  before # {}
        <4>1. PICK e \in SprintEvents(i) : e.at = jira[i].created
          BY <1>6, <3>1, EventsAreOfTheirIssue
        <4>2. e.at <= k
          BY <1>2, <4>1 DEF b
        <4> QED
          BY <1>4, <4>1, <4>2
      <3> QED
        BY <3>1
    <2> QED
      BY <1>4, <1>6, <2>2, <2>3, <2>4 DEF InScopeAfter, before
  <1>7. CASE (\A m \in jira[i].moves : k < m.at) /\ jira[i].moves # {}
    <2>1. \A e \in SprintEvents(i) : ~(e.at <= k)
      <3> TAKE e \in SprintEvents(i)
      <3>1. PICK m \in jira[i].moves : e.at = m.at
        BY <1>7, EventsAreOfTheirIssue DEF Records
      <3> QED
        BY <1>2, <1>3, <1>7, <3>1
    <2>2. ~ \E m \in jira[i].moves : m.at <= k
      BY <1>2, <1>3, <1>7
    <2> QED
      BY <1>4, <1>7, <2>1, <2>2 DEF InScopeAfter, before
  <1>8. (\A m \in jira[i].moves : k < m.at) \/ \E m \in jira[i].moves : m.at <= k
    BY <1>2, <1>3
  <1> QED
    BY <1>5, <1>6, <1>7, <1>8 DEF before

\* The commitment is what was in the sprint when it started, whatever became of it later:
\* however often issues were planned, taken out and moved. An issue that was planned after
\* the start and taken out again is taken for committed (velocity.py).
THEOREM CommitmentIsTrue == Spec => []CommitmentIsTheSprintAtStart
  <1>1. ASSUME TypeInv, HistoryInv, now > Start0, NEW i \in DOMAIN jira,
               ~AtTheStart(i), ~PassedThrough(i), ~Retroactive(i)
        PROVE  i \in Commitment(tables) <=> i \in Committed
    <2> DEFINE b == jira[i].created
               log == VelocityEvents(tables)
               E == {e \in SprintEvents(i) : e \in log}
               v == SprintsOf(i)
    <2>1. Start0 \in Nat /\ End0 \in Nat /\ Start0 <= End0
      BY <1>1, ReportsAssumption DEF TypeInv, Start0, End0
    <2>2. b \in Nat /\ now \in Nat /\ b <= now /\ Life(i) = b .. now
      BY <1>1, StatusesAreTold DEF Life
    <2>3. \A m \in jira[i].moves : m.at \in Nat /\ m.at # Start0 /\ m.at <= End0 /\ b < m.at /\ m.at <= now
      BY <1>1, <2>1, <2>2, MovesAreTold DEF AtTheStart, Retroactive, After
    <2>4. b # Start0 /\ b <= End0
      BY <1>1, <2>1, <2>2 DEF AtTheStart, Retroactive
    <2>5. \A e \in SprintEvents(i) : e.at <= End0 /\ e.at \in Nat /\ e.at # Start0
      <3> TAKE e \in SprintEvents(i)
      <3>1. e.at = b \/ \E m \in jira[i].moves : e.at = m.at
        BY <1>1, EventsAreOfTheirIssue DEF Records
      <3> QED
        BY <2>2, <2>3, <2>4, <3>1
    <2>6. End(tables) = End0
      BY <1>1, SprintLog DEF End, End0
    <2>7. log \in SUBSET tables.sprint_issues_changelog /\ E = SprintEvents(i)
      BY <1>1, <2>5, <2>6, EventsAreOfTheirIssue DEF VelocityEvents
    <2> HIDE DEF E, log, b, v
    <2>8. i \in Commitment(tables) <=>
            IF log = {} THEN SprintEvents(i) # {}
            ELSE \/ InScopeAfter({e \in SprintEvents(i) : e.at <= Start0})
                 \/ SprintEvents(i) # {} /\ SprintEvents(i) = {} /\ b < Start0
                 \/ b < Start0 /\ \E e \in SprintEvents(i) : e.action = "removed" /\ e.at >= Start0
      <3>1. Commitment(tables) = identify_sprint_commitment(tables, log)
        BY DEF Commitment, log
      <3>2. i \in identify_sprint_commitment(tables, log) <=>
            IF log = {} THEN SprintEvents(i) # {}
            ELSE \/ InScopeAfter({e \in E : e.at <= Start0})
                 \/ SprintEvents(i) # {} /\ E = {} /\ b < Start0
                 \/ b < Start0 /\ \E e \in E : e.action = "removed" /\ e.at >= Start0
        BY <1>1, <2>7, CommitmentByIssue DEF E, b
      <3> QED
        BY <2>7, <3>1, <3>2
    <2>9. log = {} => SprintEvents(i) = {}
      BY <2>7 DEF E
    <2>10. i \in Commitment(tables) <=>
            \/ InScopeAfter({e \in SprintEvents(i) : e.at <= Start0})
            \/ b < Start0 /\ \E e \in SprintEvents(i) : e.action = "removed" /\ e.at >= Start0
      BY <2>8, <2>9 DEF InScopeAfter
    <2>11. i \in Committed <=> PlannedAt(i, Start0)
      BY DEF Committed
    <2>12. Start0 \in 0 .. now
      BY <1>1, <2>1, <2>2
    <2>13. CASE b > Start0
      <3>1. ~PlannedAt(i, Start0)
        BY <1>1, <2>2, <2>12, <2>13, MovesAreTold
      <3>2. \A e \in SprintEvents(i) : ~(e.at <= Start0)
        <4> TAKE e \in SprintEvents(i)
        <4>1. e.at \in Life(i)
          BY <1>1, EventsAreOfTheirIssue
        <4> QED
          BY <2>1, <2>2, <2>13, <4>1
      <3>3. ~InScopeAfter({e \in SprintEvents(i) : e.at <= Start0})
        BY <3>2 DEF InScopeAfter
      <3> QED
        BY <2>1, <2>2, <2>10, <2>11, <2>13, <3>1, <3>3
    <2>14. CASE b < Start0
      <3>1. Start0 \in Life(i)
        BY <2>2, <2>12, <2>14
      <3> DEFINE before == {e \in SprintEvents(i) : e.at <= Start0}
      <3>2. /\ (\E m \in jira[i].moves : m.at <= Start0) \/ jira[i].moves = {} =>
                        (InScopeAfter(before) <=> PlannedAt(i, Start0))
            /\ (\A m \in jira[i].moves : Start0 < m.at) /\ jira[i].moves # {} =>
                        ~InScopeAfter(before)
        BY <1>1, <3>1, ScopeIsThePlan
      <3>3. Tells(jira[i].moves, v, b, now)
        BY <1>1, MovesAreTold DEF v, b
      <3>4. \A k \in 0 .. now : PlannedAt(i, k) <=> k \in Life(i) /\ v[k] = {"sprint"}
        BY <1>1, MovesAreTold DEF v
      <3>5. ASSUME PlannedAt(i, Start0), ~InScopeAfter(before)
            PROVE  \E e \in SprintEvents(i) : e.action = "removed" /\ e.at >= Start0
        <4>1. jira[i].moves # {} /\ \A m \in jira[i].moves : ~(m.at <= Start0)
          BY <3>2, <3>5
        <4>2. ~ \A m \in jira[i].moves : m.at <= Start0
          BY <4>1
        <4>6. b \in Nat /\ now \in Nat /\ Start0 \in b .. now
          BY <2>2, <3>1
        <4>7. PICK m : IsNext(m, jira[i].moves, Start0) /\ m.from = v[Start0]
          <5>1. \/ (\A c \in jira[i].moves : c.at <= Start0) /\ v[Start0] = v[now]
                \/ \E c : IsNext(c, jira[i].moves, Start0) /\ c.from = v[Start0]
            BY <3>3, <4>6, TellsTheNext
          <5> QED
            BY <4>2, <5>1
        <4>3. m \in jira[i].moves /\ Start0 < m.at /\ m.from = v[Start0]
          BY <4>7 DEF IsNext
        <4>4. m.from = {"sprint"}
          BY <2>12, <3>4, <3>5, <4>3
        <4>5. m.to = {}
          BY <1>1, <4>3, <4>4, MovesAreTold
        <4>8. PICK e \in SprintEvents(i) : Records(e, m)
          BY <1>1, <4>3, EventsAreOfTheirIssue
        <4> QED
          BY <2>1, <2>3, <4>3, <4>5, <4>8 DEF Records
      <3>6. ASSUME ~PlannedAt(i, Start0), NEW e \in SprintEvents(i), e.action = "removed", e.at >= Start0
            PROVE  FALSE
        <4>1. PICK m \in jira[i].moves : e.at = m.at /\ (e.action = "removed" <=> m.to = {})
          BY <1>1, <3>6, EventsAreOfTheirIssue DEF Records
        <4>2. m.to = {} /\ m.from = {"sprint"} /\ m.at > Start0
          <5>1. m.to = {} /\ m.at >= Start0
            BY <3>6, <4>1
          <5>2. m.from \in {{}, {"sprint"}} /\ m.from # m.to
            BY <1>1, MovesAreTold
          <5>3. m.at > Start0
            BY <2>1, <2>3, <5>1
          <5> QED
            BY <5>1, <5>2, <5>3
        <4>3. m.from = v[m.at - 1] /\ m.to = v[m.at]
          BY <3>3 DEF Tells
        <4>4. m.at \in 0 .. now /\ m.at - 1 \in 0 .. now /\ m.at \in Life(i) /\ m.at - 1 \in Life(i)
          BY <2>1, <2>2, <2>3
        <4>5. PlannedAt(i, m.at - 1) /\ ~PlannedAt(i, m.at)
          BY <3>4, <4>2, <4>3, <4>4
        <4>6. m.at - 1 # Start0
          BY <3>6, <4>5
        <4>7. m.at - 1 \in Window /\ m.at \in Window /\ m.at - 1 < m.at
          BY <2>1, <2>3, <4>2, <4>6 DEF Window
        <4>8. PassedThrough(i)
          BY <2>11, <3>6, <4>5, <4>7 DEF PassedThrough
        <4> QED
          BY <1>1, <4>8
      <3>7. ASSUME ~PlannedAt(i, Start0)
            PROVE  ~InScopeAfter(before)
        <4>1. \/ (\E m \in jira[i].moves : m.at <= Start0) \/ jira[i].moves = {}
              \/ (\A m \in jira[i].moves : Start0 < m.at) /\ jira[i].moves # {}
          BY <2>1, <2>3
        <4> QED
          BY <3>2, <3>7, <4>1
      <3> HIDE DEF before
      <3>8. i \in Commitment(tables) <=>
              \/ InScopeAfter(before)
              \/ \E e \in SprintEvents(i) : e.action = "removed" /\ e.at >= Start0
        BY <2>10, <2>14 DEF before
      <3> QED
        BY <2>11, <3>5, <3>6, <3>7, <3>8
    <2> QED
      BY <2>1, <2>2, <2>4, <2>13, <2>14
  <1>2. TypeInv /\ HistoryInv => CommitmentIsTheSprintAtStart
    BY <1>1 DEF CommitmentIsTheSprintAtStart
  <1> QED
    BY <1>2, ReportsCorrect, PTL

-----------------------------------------------------------------------------
\* The estimates.

\* What the estimate of an issue was, tick by tick.
PointsOf(i) == [k \in Life(i) |-> At(k)[i].points]

\* The changes of an estimate tell it at each tick.
LEMMA EstimatesAreTold ==
    ASSUME TypeInv, HistoryInv, NEW i \in DOMAIN jira
    PROVE  /\ Tells(jira[i].pointChanges, PointsOf(i), jira[i].created, now)
           /\ PointsOf(i)[now] = jira[i].points
           /\ \A k \in Life(i) : PointsOf(i)[k] \in PointValues /\ PointsAt(i, k) = PointsOf(i)[k]
           /\ \A c \in jira[i].pointChanges : c.at \in After(i)
  <1>1. HistoryOf(i, Film, now) /\ Film[now] = jira /\ \A k \in 0 .. now : Film[k] = At(k)
    BY FilmOfNow DEF HistoryInv, HistoryOk
  <1> DEFINE b == jira[i].created
             v == [k \in b .. now |-> Film[k][i].points]
  <1>2. /\ b \in 0 .. now /\ \A k \in 0 .. now : i \in DOMAIN Film[k] <=> b <= k
        /\ Tells(jira[i].pointChanges, v, b, now)
    BY <1>1 DEF HistoryOf
  <1>3. now \in Nat
    BY WorldTypes
  <1>4. Life(i) = b .. now /\ b .. now \subseteq 0 .. now /\ now \in b .. now
        /\ \A k \in 0 .. now : k \in b .. now <=> b <= k
    BY <1>2, <1>3 DEF Life
  <1>5. v = PointsOf(i)
    BY <1>1, <1>4 DEF PointsOf
  <1>6. ASSUME NEW k \in Life(i)
        PROVE  PointsOf(i)[k] \in PointValues /\ PointsAt(i, k) = PointsOf(i)[k]
    <2>1. At(k) \in Boards(world)
      <3>1. k + 1 \in 1 .. now \/ At(k) = jira
        BY <1>2, <1>3, <1>4 DEF At
      <3> QED
        BY <3>1, WorldTypes DEF At, TypeInv
    <2>4. i \in DOMAIN At(k)
      BY <1>1, <1>2, <1>4
    <2>2. At(k)[i] \in IssueType
      BY <2>1, <2>4 DEF Boards
    <2>3. At(k)[i].points \in PointValues
      BY <2>2 DEF IssueType
    <2> QED
      BY <2>3, <2>4 DEF PointsOf, PointsAt
  <1>7. \A c \in jira[i].pointChanges : c.at \in After(i)
    BY <1>2 DEF Tells, After
  <1> QED
    BY <1>1, <1>2, <1>4, <1>5, <1>6, <1>7 DEF PointsOf

\* The row that a change of the estimate leaves.
Rates(r, c) == r.at = c.at /\ r.old = c.from /\ r.new = c.to

\* The rows about an estimate are its changes.
LEMMA RowsOfEstimates ==
    ASSUME TypeInv, HistoryInv, NEW i \in DOMAIN jira
    PROVE  /\ \A r \in PointChanges(tables, i) : \E c \in jira[i].pointChanges : Rates(r, c)
           /\ \A c \in jira[i].pointChanges : \E r \in PointChanges(tables, i) : Rates(r, c)
  <1> DEFINE row(j, c) == [issue |-> j, old |-> c.from, new |-> c.to, at |-> c.at]
             log == UNION {{row(j, c) : c \in jira[j].pointChanges} : j \in DOMAIN jira}
  <1>1. tables.points_changelog = log
    BY DEF TypeInv, TablesOf
  <1>2. \A j, c : row(j, c).issue = j /\ Rates(row(j, c), c)
    BY DEF Rates
  <1>3. \A r : r \in log <=> \E j \in DOMAIN jira : \E c \in jira[j].pointChanges : r = row(j, c)
    OBVIOUS
  <1> HIDE DEF row, log
  <1>4. \A r : r \in PointChanges(tables, i) <=> r \in log /\ r.issue = i
    BY <1>1 DEF PointChanges
  <1> QED
    BY <1>2, <1>3, <1>4

\* The estimate at a tick is what the next row tells, or the last one, or the value of now.
LEMMA NextRow ==
    ASSUME TypeInv, HistoryInv, NEW i \in DOMAIN jira, NEW k \in Life(i)
    PROVE  LET after == {r \in PointChanges(tables, i) : r.at > k}
           IN  IF after = {} THEN PointsAt(i, k) = jira[i].points
               ELSE FirstChange(after).old = PointsAt(i, k)
  <1> DEFINE after == {r \in PointChanges(tables, i) : r.at > k}
             v == PointsOf(i)
             b == jira[i].created
             changes == jira[i].pointChanges
  <1>1. /\ Tells(changes, v, b, now) /\ v[now] = jira[i].points /\ PointsAt(i, k) = v[k]
        /\ \A c \in changes : c.at \in After(i)
    BY EstimatesAreTold
  <1>2. b \in Nat /\ now \in Nat /\ k \in b .. now
    BY StatusesAreTold DEF Life
  <1>3. \A c \in changes : c.at \in Nat
    BY <1>1, <1>2 DEF After
  <1>4. /\ \A r \in PointChanges(tables, i) : \E c \in changes : Rates(r, c)
        /\ \A c \in changes : \E r \in PointChanges(tables, i) : Rates(r, c)
    BY RowsOfEstimates
  <1> HIDE DEF v, b, changes
  <1>5. Tells(changes, v, b, now)
    BY <1>1
  <1>6. \/ (\A c \in changes : c.at <= k) /\ v[k] = v[now]
        \/ \E c : IsNext(c, changes, k) /\ c.from = v[k]
    <2> HIDE DEF after
    <2> QED
      BY <1>2, <1>5, TellsTheNext
  <1>7. CASE after = {}
    <2>1. \A c \in changes : c.at <= k
      BY <1>2, <1>3, <1>4, <1>7 DEF Rates
    <2>2. ~ \E c : IsNext(c, changes, k)
      BY <1>2, <1>3, <2>1 DEF IsNext
    <2>3. v[k] = v[now]
      BY <1>6, <2>2
    <2> QED
      BY <1>1, <1>7, <2>3
  <1>8. CASE after # {}
    <2>1. ~ \A c \in changes : c.at <= k
      BY <1>2, <1>3, <1>4, <1>8 DEF Rates
    <2>2. PICK c : IsNext(c, changes, k) /\ c.from = v[k]
      BY <1>6, <2>1
    <2>3. c \in changes /\ k < c.at /\ \A d \in changes : k < d.at => c.at <= d.at
      BY <2>2 DEF IsNext
    <2>4. PICK r \in PointChanges(tables, i) : Rates(r, c)
      BY <1>4, <2>3
    <2>5. r \in after /\ \A q \in after : r.at <= q.at
      <3>1. \A q \in after : \E d \in changes : q.at = d.at /\ k < d.at
        BY <1>3, <1>2, <1>4 DEF Rates
      <3> QED
        BY <1>2, <1>3, <2>3, <2>4, <3>1 DEF Rates
    <2> DEFINE first == FirstChange(after)
    <2>6. first \in after /\ \A q \in after : first.at <= q.at
      <3> HIDE DEF after
      <3> QED
        BY <2>5 DEF FirstChange
    <2> HIDE DEF first
    <2>7. PICK d \in changes : Rates(first, d)
      BY <1>4, <2>6
    <2>8. d.at = c.at
      BY <1>3, <2>3, <2>4, <2>5, <2>6, <2>7 DEF Rates
    <2>9. d = c
      BY <1>1, <2>3, <2>8 DEF Tells
    <2> QED
      BY <1>1, <1>8, <2>2, <2>7, <2>9 DEF Rates, first
  <1> QED
    BY <1>7, <1>8

\* The last row up to a tick tells the estimate then.
LEMMA LastRow ==
    ASSUME TypeInv, HistoryInv, NEW i \in DOMAIN jira, NEW k \in Life(i)
    PROVE  LET before == {r \in PointChanges(tables, i) : r.at <= k}
           IN  IF before = {} THEN PointsAt(i, k) = PointsAt(i, jira[i].created)
               ELSE LastChange(before).new = PointsAt(i, k)
  <1> DEFINE before == {r \in PointChanges(tables, i) : r.at <= k}
             v == PointsOf(i)
             b == jira[i].created
             changes == jira[i].pointChanges
  <1>1. b \in Nat /\ now \in Nat /\ k \in b .. now /\ b \in Life(i)
    BY StatusesAreTold DEF Life
  <1>2. /\ Tells(changes, v, b, now) /\ PointsAt(i, b) = v[b] /\ PointsAt(i, k) = v[k]
        /\ \A c \in changes : c.at \in After(i)
    BY <1>1, EstimatesAreTold
  <1>3. \A c \in changes : c.at \in Nat
    BY <1>2, <1>1 DEF After
  <1>4. /\ \A r \in PointChanges(tables, i) : \E c \in changes : Rates(r, c)
        /\ \A c \in changes : \E r \in PointChanges(tables, i) : Rates(r, c)
    BY RowsOfEstimates
  <1> HIDE DEF v, b, changes
  <1>5. CASE before = {}
    <2>1. \A c \in changes : ~(c.at <= k)
      BY <1>4, <1>5 DEF Rates
    <2>2. ~ \E c : IsLast(c, changes, k)
      BY <2>1 DEF IsLast
    <2>3. v[k] = v[b]
      BY <1>2, <1>1, <2>2, TellsTheLast
    <2> QED
      BY <1>2, <1>5, <2>3 DEF b
  <1>6. CASE before # {}
    <2>1. ~ \A c \in changes : k < c.at
      BY <1>1, <1>3, <1>4, <1>6 DEF Rates
    <2>2. PICK c : IsLast(c, changes, k) /\ v[k] = c.to
      BY <1>2, <1>1, <2>1, TellsTheLast
    <2>3. c \in changes /\ c.at <= k /\ \A d \in changes : d.at <= k => d.at <= c.at
      BY <2>2 DEF IsLast
    <2>4. PICK r \in PointChanges(tables, i) : Rates(r, c)
      BY <1>4, <2>3
    <2>5. r \in before /\ \A q \in before : q.at <= r.at
      <3>1. \A q \in before : \E d \in changes : q.at = d.at /\ d.at <= k
        BY <1>4 DEF Rates
      <3> QED
        BY <2>3, <2>4, <3>1 DEF Rates
    <2> DEFINE last == LastChange(before)
    <2>6. last \in before /\ \A q \in before : q.at <= last.at
      <3> HIDE DEF before
      <3> QED
        BY <2>5 DEF LastChange
    <2> HIDE DEF last
    <2>7. PICK d \in changes : Rates(last, d)
      BY <1>4, <2>6
    <2>8. d.at = c.at
      BY <1>3, <2>3, <2>4, <2>5, <2>6, <2>7 DEF Rates
    <2>9. d = c
      BY <1>2, <2>3, <2>8 DEF Tells
    <2> QED
      BY <1>2, <1>6, <2>2, <2>7, <2>9 DEF Rates, last
  <1> QED
    BY <1>5, <1>6

\* The ticks at which an issue had an estimate.
Estimated(i) == {k \in Life(i) : PointsAt(i, k) # Nothing}

\* The clean layer keeps the last estimate that was one.
LEMMA LastEstimateIsKept ==
    ASSUME TypeInv, HistoryInv, NEW i \in DOMAIN jira
    PROVE  /\ tables.issues[i].points = KeptPoints(jira[i])
           /\ IF Estimated(i) = {} THEN KeptPoints(jira[i]) = Nothing
              ELSE /\ Max(Estimated(i)) \in Estimated(i)
                   /\ KeptPoints(jira[i]) = PointsAt(i, Max(Estimated(i)))
  <1> DEFINE v == PointsOf(i)
             b == jira[i].created
             changes == jira[i].pointChanges
             E == Estimated(i)
             cleared == {c \in changes : c.to = Nothing}
  <1>1. /\ Tells(changes, v, b, now) /\ v[now] = jira[i].points
        /\ \A k \in Life(i) : PointsAt(i, k) = v[k]
    BY EstimatesAreTold
  <1>2. b \in Nat /\ now \in Nat /\ Life(i) = b .. now /\ now \in b .. now
    BY StatusesAreTold DEF Life
  <1>3. tables.issues[i].points = KeptPoints(jira[i])
    BY DEF TypeInv, TablesOf
  <1>4. E = {k \in b .. now : v[k] # Nothing} /\ E \in SUBSET Int /\ IsFiniteSet(E)
    <2>1. E = {k \in b .. now : v[k] # Nothing}
      BY <1>1, <1>2 DEF Estimated
    <2>2. b \in Int /\ now \in Int /\ E \in SUBSET (b .. now)
      BY <1>2, <2>1
    <2>3. IsFiniteSet(E)
      BY <2>2, FS_Interval, FS_Subset
    <2> QED
      BY <1>2, <2>1, <2>3
  <1>5. E # {} => Max(E) \in E /\ \A k \in E : k <= Max(E)
    BY <1>4, MaxIsGreatest
  <1>6. KeptPoints(jira[i]) = IF v[now] = Nothing /\ cleared # {} THEN LastChange(cleared).from
                              ELSE v[now]
    BY <1>1 DEF KeptPoints
  <1>7. \A c \in changes : /\ c.at \in (b + 1) .. now /\ c.at - 1 \in b .. now
                           /\ c.from # c.to /\ c.from = v[c.at - 1] /\ c.to = v[c.at]
    BY <1>1, <1>2 DEF Tells
  <1> DEFINE m == Max(E)
  <1> HIDE DEF v, b, changes, E, m
  <1>8. CASE v[now] # Nothing
    <2>1. now \in E
      BY <1>2, <1>4, <1>8
    <2>2. m \in E /\ now <= m
      BY <1>5, <2>1 DEF m
    <2>3. m = now
      BY <1>2, <1>4, <2>2
    <2> QED
      BY <1>1, <1>2, <1>3, <1>6, <1>8, <2>1, <2>2, <2>3 DEF E, m
  <1>9. CASE v[now] = Nothing /\ E = {}
    <2>1. cleared = {}
      BY <1>4, <1>7, <1>9
    <2> QED
      BY <1>3, <1>6, <1>9, <2>1 DEF E
  <1>10. CASE v[now] = Nothing /\ E # {}
    <2>1. m \in E /\ \A k \in E : k <= m
      BY <1>5, <1>10 DEF m
    <2> DEFINE n == m + 1
    <2>2. m \in b .. now /\ m # now /\ v[m] # Nothing /\ n \in (b + 1) .. now /\ n - 1 = m
      BY <1>2, <1>4, <1>10, <2>1
    <2>3. v[n] = Nothing
      BY <1>2, <1>4, <2>1, <2>2
    <2> HIDE DEF n
    <2>4. PICK c \in changes : c.at = n
      BY <1>1, <2>2, <2>3 DEF Tells
    <2>5. c \in cleared /\ c.from = v[m]
      BY <1>7, <2>2, <2>3, <2>4
    <2>6. \A d \in cleared : d.at <= c.at
      <3> TAKE d \in cleared
      <3>1. d.at - 1 \in E
        BY <1>4, <1>7
      <3>2. d.at - 1 <= m /\ d.at \in Int /\ m \in Int
        BY <1>4, <1>7, <2>1, <3>1
      <3> QED
        BY <2>4, <3>2 DEF n
    <2> DEFINE last == LastChange(cleared)
    <2>7. last \in cleared /\ \A d \in cleared : d.at <= last.at
      <3> HIDE DEF cleared
      <3> QED
        BY <2>5, <2>6 DEF LastChange
    <2> HIDE DEF last
    <2>8. last.at = c.at
      BY <1>2, <1>7, <2>5, <2>6, <2>7
    <2>9. last = c
      BY <1>1, <2>5, <2>7, <2>8 DEF Tells
    <2>10. KeptPoints(jira[i]) = v[m]
      BY <1>6, <1>10, <2>5, <2>9 DEF last
    <2> QED
      BY <1>1, <1>2, <1>3, <1>10, <2>1, <2>2, <2>10 DEF m, E
  <1> QED
    BY <1>8, <1>9, <1>10

\* The planned points of a committed issue are those it had when the sprint started, however
\* it was estimated later (velocity.py), and the volatility is the distance between the
\* first and the last estimate, also when that one was cleared (estimation.py).
THEOREM PlannedPointsAreTrue == Spec => []PlannedPointsAreThoseAtStart
  <1>1. ASSUME TypeInv, HistoryInv, now > Start0, NEW i \in Committed,
               PointsAt(i, Start0) # Nothing
        PROVE  PlannedPoints(tables, i) = PointsAt(i, Start0)
    <2> DEFINE p == PointsAt(i, Start0)
               after == {c \in PointChanges(tables, i) : c.at > Start0}
               before == {c \in PointChanges(tables, i) : c.at <= Start0}
               b == jira[i].created
    <2>1. Start0 \in Nat /\ now \in Nat /\ b \in Nat /\ i \in DOMAIN jira
      BY <1>1, ReportsAssumption, StatusesAreTold DEF TypeInv, Start0, Committed
    <2>2. Start0 \in Life(i) /\ now \in Life(i) /\ b \in Life(i)
      <3>1. Start0 \in 0 .. now /\ PlannedAt(i, Start0)
        BY <1>1, <2>1 DEF Committed
      <3>2. Start0 \in Life(i)
        BY <1>1, <2>1, <3>1, MovesAreTold
      <3> QED
        BY <2>1, <3>2 DEF Life
    <2>3. p \in Estimates
      BY <1>1, <2>1, <2>2, EstimatesAreTold DEF PointValues
    <2>4. p \in Nat /\ p > 0
      <3>1. p \in Nat \ {0}
        BY <2>3, ReportsAssumption
      <3> HIDE DEF p
      <3> QED
        BY <3>1
    <2>5. after # {} => FirstChange(after).old = p
      BY <1>1, <2>1, <2>2, NextRow
    <2>6. before # {} => LastChange(before).new = p
      BY <1>1, <2>1, <2>2, LastRow
    <2>7. after = {} => tables.issues[i].points = p
      <3> SUFFICES ASSUME after = {}
                   PROVE  tables.issues[i].points = p
        OBVIOUS
      <3>1. p = jira[i].points
        BY <1>1, <2>1, <2>2, NextRow
      <3>2. tables.issues[i].points = KeptPoints(jira[i])
        BY <1>1, <2>1, LastEstimateIsKept
      <3> QED
        BY <1>1, <3>1, <3>2 DEF KeptPoints
    <2>8. Start(tables) = Start0
      BY <1>1, SprintLog DEF Start, Start0
    <2> HIDE DEF p, after, before
    <2>9. determine_story_points_at_date(tables, i, Start0) =
            Coalesce(IF after = {} THEN Nothing ELSE FirstChange(after).old,
                     Coalesce(IF before = {} THEN Nothing ELSE LastChange(before).new,
                              Coalesce(tables.issues[i].points, 0)))
      BY DEF determine_story_points_at_date, after, before
    <2>10. p # Nothing
      BY <1>1 DEF p
    <2>11. determine_story_points_at_date(tables, i, Start0) = p
      BY <2>5, <2>6, <2>7, <2>9, <2>10 DEF Coalesce
    <2> QED
      BY <2>4, <2>8, <2>11 DEF PlannedPoints, PositiveOr, p
  <1>2. ASSUME TypeInv, HistoryInv, NEW i \in DOMAIN jira,
               PointsAt(i, jira[i].created) # Nothing
        PROVE  LET first == PointsAt(i, jira[i].created)
                   last == PointsAt(i, Max({k \in Life(i) : PointsAt(i, k) # Nothing}))
               IN  calculate_estimate_volatility(tables, i) \in {last - first, first - last} \cap Nat
    <2> DEFINE b == jira[i].created
               first == PointsAt(i, b)
               last == PointsAt(i, Max(Estimated(i)))
               changes == {c \in tables.points_changelog : c.issue = i}
    <2>1. b \in Nat /\ now \in Nat /\ b \in Life(i) /\ Life(i) = b .. now
      BY <1>2, StatusesAreTold DEF Life
    <2>2. Estimated(i) # {}
      BY <1>2, <2>1 DEF Estimated
    <2>3. Max(Estimated(i)) \in Estimated(i) /\ tables.issues[i].points = last
      BY <1>2, <2>2, LastEstimateIsKept
    <2>4. Max(Estimated(i)) \in Life(i) /\ last # Nothing
      BY <2>3 DEF Estimated
    <2>5. first \in Estimates /\ last \in Estimates
      BY <1>2, <2>1, <2>4, EstimatesAreTold DEF PointValues
    <2>6. first \in Nat /\ last \in Nat /\ first # Nothing
      BY <1>2, <2>5, ReportsAssumption
    <2> DEFINE after == {r \in PointChanges(tables, i) : r.at > b}
    <2>7. changes = after
      <3>1. \A r \in PointChanges(tables, i) : r.at > b
        <4> TAKE r \in PointChanges(tables, i)
        <4>1. PICK c \in jira[i].pointChanges : Rates(r, c)
          BY <1>2, RowsOfEstimates
        <4>2. c.at \in After(i)
          BY <1>2, EstimatesAreTold
        <4> QED
          BY <2>1, <4>1, <4>2 DEF Rates, After
      <3> QED
        BY <3>1 DEF PointChanges
    <2>8. IF after = {} THEN first = jira[i].points ELSE FirstChange(after).old = first
      BY <1>2, <2>1, NextRow
    <2>9. after = {} => first = last
      <3> SUFFICES ASSUME after = {}
                   PROVE  first = last
        OBVIOUS
      <3>1. first = jira[i].points /\ jira[i].points # Nothing
        BY <1>2, <2>8
      <3>2. tables.issues[i].points = KeptPoints(jira[i])
        BY <1>2, LastEstimateIsKept
      <3> QED
        BY <2>3, <3>1, <3>2 DEF KeptPoints
    <2> HIDE DEF first, last, changes, after
    <2> DEFINE initial == Coalesce(IF changes = {} THEN Nothing ELSE FirstChange(changes).old, last)
    <2>10. initial = first
      BY <2>6, <2>7, <2>8, <2>9 DEF Coalesce
    <2> HIDE DEF initial
    <2>11. calculate_estimate_volatility(tables, i) =
            LET distance == Coalesce(last, 0) - Coalesce(initial, 0)
            IN  IF distance < 0 THEN -distance ELSE distance
      BY <2>3 DEF calculate_estimate_volatility, initial, changes
    <2>12. Coalesce(last, 0) = last /\ Coalesce(initial, 0) = first
      BY <2>4, <2>6, <2>10 DEF Coalesce, last
    <2>13. calculate_estimate_volatility(tables, i) \in {last - first, first - last} \cap Nat
      BY <2>6, <2>11, <2>12
    <2> QED
      BY <2>13 DEF first, last, Estimated
  <1>3. TypeInv /\ HistoryInv => PlannedPointsAreThoseAtStart
    BY <1>1, <1>2 DEF PlannedPointsAreThoseAtStart
  <1> QED
    BY <1>3, ReportsCorrect, PTL

-----------------------------------------------------------------------------
\* What the sprint completed.

\* Issues that are resolved are done, and were resolved by the change that made them so.
ResolvedByAChange(issue) ==
    issue.resolved # Nothing =>
        /\ IsDone(issue.status)
        /\ \E c \in issue.changes : c.at = issue.resolved /\ IsDone(c.to) /\ ~IsDone(c.from)

\* Where workflows resolve issues, those that are done have been.
ResolvedIfDone(issue) == world.resolves /\ IsDone(issue.status) => issue.resolved # Nothing

ResolvedInv == \A i \in DOMAIN jira : ResolvedByAChange(jira[i]) /\ ResolvedIfDone(jira[i])

\* Every edit keeps this.
LEMMA EditsResolve ==
    ASSUME TypeInv, ResolvedInv, NEW i \in DOMAIN jira,
           (\E s \in Statuses : MoveIssue(i, s)) \/ PlanIssue(i)
              \/ \E p \in PointValues : EstimateIssue(i, p)
    PROVE  ResolvedInv'
  <1>1. jira[i] \in IssueType /\ ResolvedByAChange(jira[i]) /\ ResolvedIfDone(jira[i])
    BY WorldTypes DEF ResolvedInv
  <1>2. ASSUME NEW x, ResolvedByAChange(x), ResolvedIfDone(x), world' = world,
               jira' = [jira EXCEPT ![i] = x]
        PROVE  ResolvedInv'
    BY <1>2 DEF ResolvedInv, ResolvedByAChange, ResolvedIfDone, IsDone
  <1>3. ASSUME NEW s \in Statuses, MoveIssue(i, s)
        PROVE  ResolvedInv'
    <2> DEFINE old == jira[i]
               c == [at |-> now, from |-> old.status, to |-> s, name |-> s]
               x == [old EXCEPT !.status = s, !.statusName = s, !.resolved = Resolution(old, s),
                                !.changes = @ \cup {c}]
    <2>1. jira' = [jira EXCEPT ![i] = x] /\ world' = world
      BY <1>3 DEF MoveIssue, Change, Event
    <2>2. x.resolved = Resolution(old, s) /\ x.changes = old.changes \cup {c} /\ x.status = s
      BY <1>1 DEF IssueType
    <2>3. c.at = now /\ c.to = s /\ c.from = old.status
      OBVIOUS
    <2> HIDE DEF x, c
    <2>4. CASE ~world.resolves \/ ~IsDone(s)
      BY <1>2, <2>1, <2>2, <2>4 DEF Resolution, ResolvedByAChange, ResolvedIfDone
    <2>5. CASE world.resolves /\ IsDone(s) /\ IsDone(old.status)
      <3>1. x.resolved = old.resolved /\ x.resolved # Nothing
        BY <1>1, <2>2, <2>5 DEF Resolution, ResolvedIfDone
      <3>2. PICK d \in old.changes : d.at = old.resolved /\ IsDone(d.to) /\ ~IsDone(d.from)
        BY <1>1, <3>1 DEF ResolvedByAChange
      <3> QED
        BY <1>2, <2>1, <2>2, <2>5, <3>1, <3>2 DEF ResolvedByAChange, ResolvedIfDone
    <2>6. CASE world.resolves /\ IsDone(s) /\ ~IsDone(old.status)
      <3>1. x.resolved = now /\ now # Nothing
        BY <2>2, <2>6, WorldTypes, ReportsAssumption DEF Resolution
      <3> QED
        BY <1>2, <2>1, <2>2, <2>3, <2>6, <3>1 DEF ResolvedByAChange, ResolvedIfDone
    <2> QED
      BY <2>4, <2>5, <2>6
  <1>4. ASSUME PlanIssue(i)
        PROVE  ResolvedInv'
    <2> DEFINE old == jira[i]
               new == {"sprint"} \ old.sprints
               x == [old EXCEPT !.sprints = new,
                                !.moves = @ \cup {[at |-> now, from |-> old.sprints, to |-> new]}]
    <2>1. jira' = [jira EXCEPT ![i] = x] /\ world' = world
      BY <1>4 DEF PlanIssue, Change, Event
    <2>2. x.resolved = old.resolved /\ x.changes = old.changes /\ x.status = old.status
      BY <1>1 DEF IssueType
    <2> HIDE DEF x
    <2> QED
      BY <1>1, <1>2, <2>1, <2>2 DEF ResolvedByAChange, ResolvedIfDone
  <1>5. ASSUME NEW p \in PointValues, EstimateIssue(i, p)
        PROVE  ResolvedInv'
    <2> DEFINE old == jira[i]
               x == [old EXCEPT !.points = p,
                        !.pointChanges = @ \cup {[at |-> now, from |-> old.points, to |-> p]}]
    <2>1. jira' = [jira EXCEPT ![i] = x] /\ world' = world
      BY <1>5 DEF EstimateIssue, Change, Event
    <2>2. x.resolved = old.resolved /\ x.changes = old.changes /\ x.status = old.status
      BY <1>1 DEF IssueType
    <2> HIDE DEF x
    <2> QED
      BY <1>1, <1>2, <2>1, <2>2 DEF ResolvedByAChange, ResolvedIfDone
  <1> QED
    BY <1>3, <1>4, <1>5

\* It always holds.
LEMMA ResolvedCorrect == Spec => []ResolvedInv
  <1>1. Init => ResolvedInv
    BY DEF Init, ResolvedInv
  <1>2. ASSUME TypeInv, ResolvedInv, [Next]_vars
        PROVE  ResolvedInv'
    <2>1. CASE jira' = jira /\ world' = world
      BY <1>2, <2>1 DEF ResolvedInv, ResolvedByAChange, ResolvedIfDone, IsDone
    <2>2. CASE \E i \in world.issues, planned \in BOOLEAN, points \in PointValues :
                    CreateIssue(i, planned, points)
      <3>1. PICK i \in world.issues, planned \in BOOLEAN, points \in PointValues :
                    CreateIssue(i, planned, points)
        BY <2>2
      <3> DEFINE x == [created |-> now, status |-> Initial, statusName |-> Initial, changes |-> {},
                       sprints |-> IF planned THEN {"sprint"} ELSE {}, moves |-> {},
                       points |-> points, pointChanges |-> {}, resolved |-> Nothing]
      <3>2. jira' = [j \in DOMAIN jira \cup {i} |-> IF j # i THEN jira[j] ELSE x]
            /\ world' = world
        BY <3>1 DEF CreateIssue, Event
      <3>3. x.resolved = Nothing /\ ~IsDone(x.status)
        BY ReportsAssumption DEF IsDone
      <3> HIDE DEF x
      <3> QED
        BY <1>2, <3>2, <3>3 DEF ResolvedInv, ResolvedByAChange, ResolvedIfDone, IsDone
    <2>3. CASE \E i \in DOMAIN jira : \/ \E s \in Statuses : MoveIssue(i, s)
                                      \/ PlanIssue(i)
                                      \/ \E p \in PointValues : EstimateIssue(i, p)
      BY <1>2, <2>3, EditsResolve
    <2>4. Tick \/ (\E r \in Rules : SaveRule([project |-> r.project, board |-> r.board,
                        start |-> r.span[1], end |-> r.span[2]])) \/ UNCHANGED vars => jira' = jira /\ world' = world
      BY DEF Tick, SaveRule, Event, vars
    <2> QED
      BY <1>2, <2>1, <2>2, <2>3, <2>4 DEF Next, PointValues
  <1>3. TypeInv /\ ResolvedInv /\ [Next]_vars => ResolvedInv'
    BY <1>2
  <1> QED
    BY <1>1, <1>3, ReportsCorrect, PTL DEF Spec

\* An issue was resolved at a tick at which it came into done.
LEMMA ResolvedTicks ==
    ASSUME TypeInv, HistoryInv, ResolvedInv, NEW i \in DOMAIN jira, jira[i].resolved # Nothing
    PROVE  /\ jira[i].resolved \in Came(i, Done) /\ IsDone(jira[i].status)
           /\ StatusAt(i, jira[i].resolved - 1) \notin Done
  <1>1. /\ IsDone(jira[i].status)
        /\ \E c \in jira[i].changes : c.at = jira[i].resolved /\ IsDone(c.to) /\ ~IsDone(c.from)
    BY DEF ResolvedInv, ResolvedByAChange
  <1> PICK c \in jira[i].changes : c.at = jira[i].resolved /\ IsDone(c.to) /\ ~IsDone(c.from)
    BY DEF ResolvedInv, ResolvedByAChange
  <1>2. c.at \in After(i) /\ c.from # c.to /\ c.from = StatusAt(i, c.at - 1) /\ c.to = StatusAt(i, c.at)
    BY StatusesAreTold
  <1>3. c.to \in Statuses
    BY WorldTypes DEF IssueType
  <1> QED
    BY <1>1, <1>2, <1>3 DEF Came, Done

\* What was in the sprint when it ended, as the calculations find it.
LEMMA FinalScopeIsThePlan ==
    ASSUME TypeInv, HistoryInv, Closed, NEW i \in DOMAIN jira, ~Retroactive(i)
    PROVE  i \in identify_sprint_final_scope(tables, tables.sprint_issues_changelog) <=> PlannedAt(i, End0)
  <1> DEFINE log == tables.sprint_issues_changelog
             E == SprintEvents(i)
  <1>1. End0 \in Nat /\ now \in Nat /\ jira[i].created \in Nat /\ End0 \in Life(i)
    <2>1. End0 \in Nat /\ now \in Nat /\ jira[i].created \in Nat
      BY ReportsAssumption, StatusesAreTold DEF TypeInv, End0
    <2> QED
      BY <2>1 DEF Life, Closed, Retroactive
  <1>2. \A m \in jira[i].moves : m.at \in Nat /\ m.at <= End0
    BY <1>1, MovesAreTold DEF After, Retroactive
  <1>3. \A e \in E : e.at <= End0 /\ e.issue = i /\ e \in log
    <2> TAKE e \in E
    <2>1. e.at = jira[i].created \/ \E m \in jira[i].moves : e.at = m.at
      BY EventsAreOfTheirIssue DEF Records
    <2>2. jira[i].created <= End0
      BY <1>1 DEF Retroactive
    <2>3. e.issue = i /\ e \in log
      BY EventsAreOfTheirIssue
    <2> QED
      BY <1>2, <2>1, <2>2, <2>3
  <1>4. EventsOf(log, i) = E
    BY <1>3, EventsAreOfTheirIssue DEF EventsOf
  <1>5. DOMAIN tables.issues = DOMAIN jira /\ tables.sprint_issues = {j \in DOMAIN jira : SprintEvents(j) # {}}
    BY TablesAreThoseOfJira, SprintLog
  <1> HIDE DEF E, log
  <1>6. i \notin Unlogged(tables, log)
    BY <1>4, <1>5 DEF Unlogged, Members, E
  <1>7. i \in identify_sprint_final_scope(tables, log) <=> InScopeAfter(E)
    <2>1. InScopeAfter(E) => \E e \in E : TRUE
      BY DEF InScopeAfter
    <2>2. \A e \in E : e \in Known(tables, log) /\ e.issue = i
      BY <1>3, <1>5 DEF Known
    <2>3. i \in identify_sprint_final_scope(tables, log) <=>
            \E e \in Known(tables, log) : e.issue = i /\ InScopeAfter(EventsOf(log, e.issue))
      BY <1>6 DEF identify_sprint_final_scope
    <2> QED
      BY <1>4, <2>1, <2>2, <2>3
  <1>8. (\E m \in jira[i].moves : m.at <= End0) \/ jira[i].moves = {}
    BY <1>2
  <1> DEFINE before == {e \in E : e.at <= End0}
  <1>9. before = E
    BY <1>3
  <1>10. (\E m \in jira[i].moves : m.at <= End0) \/ jira[i].moves = {} =>
            (InScopeAfter(before) <=> PlannedAt(i, End0))
    BY <1>1, ScopeIsThePlan DEF E
  <1> QED
    BY <1>7, <1>8, <1>9, <1>10 DEF log

\* An issue counts as completed if it came into done in the sprint and is done at its end.
LEMMA CompletedByIssue ==
    ASSUME TypeInv, HistoryInv, ResolvedInv, Closed, NEW i \in DOMAIN jira, ~Retroactive(i),
           NEW scope, i \in scope <=> PlannedAt(i, End0)
    PROVE  i \in identify_completed_issues(tables, scope, Done) <=>
                /\ PlannedAt(i, End0) /\ IsDone(StatusAt(i, End0))
                /\ Came(i, Done) \cap Window # {}
  <1> DEFINE changes == ChangesOf(tables, i)
             before == {c \in changes : c.at <= End0}
  <1>1. /\ Start0 \in Nat /\ End0 \in Nat /\ now \in Nat /\ jira[i].created \in Nat /\ End0 \in Life(i)
        /\ StatusAt(i, now) = jira[i].status
    <2>1. /\ Start0 \in Nat /\ End0 \in Nat /\ now \in Nat /\ jira[i].created \in Nat
          /\ StatusAt(i, now) = jira[i].status
      BY ReportsAssumption, StatusesAreTold DEF TypeInv, End0, Start0
    <2> QED
      BY <2>1 DEF Life, Closed, Retroactive
  <1>2. StatusAt(i, End0) \in Statuses /\ (StatusAt(i, End0) \in Done <=> IsDone(StatusAt(i, End0)))
    BY <1>1, StatusesAreTold DEF Done
  <1>3. Initial \notin Done
    BY ReportsAssumption DEF Done, IsDone
  <1>4. /\ Start(tables) = Start0 /\ End(tables) = End0
        /\ tables.issues[i].resolved = jira[i].resolved /\ tables.issues[i].status = jira[i].status
    BY SprintLog, TablesAreThoseOfJira DEF Start, Start0, End, End0
  <1>5. \A k \in Nat : InSprint(tables, k) <=> k \in Window
    BY <1>1, <1>4 DEF InSprint, Window
  <1>6. Came(i, Done) \subseteq Nat /\ Times(Entries(tables, i, Done)) = Came(i, Done)
    <2>1. Done \in SUBSET Statuses
      BY DEF Done
    <2> QED
      BY <2>1, TicksAreFinite, LogTellsTheMoves
  <1>7. DoneInSprint(tables, i, Done) <=> Came(i, Done) \cap Window # {}
    BY <1>4, <1>5, <1>6, ResolvedTicks DEF DoneInSprint
  <1>8. IF before = {} THEN StatusAt(i, End0) = Initial
        ELSE LastChange(before).to = StatusAt(i, End0)
    BY <1>1, LastChangeTells
  <1>9. Came(i, Done) \cap Window # {} => before # {}
    <2> SUFFICES ASSUME NEW k \in Came(i, Done), k \in Window
                 PROVE  before # {}
      OBVIOUS
    <2>1. PICK c \in Entries(tables, i, Done) : c.at = k
      BY <1>6 DEF Times
    <2>2. c \in changes /\ c.at <= End0
      BY <1>1, <2>1 DEF Window, Entries
    <2> QED
      BY <2>2
  <1>10. before # {} => (DoneAtEnd(tables, i, Done) <=> IsDone(StatusAt(i, End0)))
    <2> HIDE DEF before
    <2> SUFFICES ASSUME before # {}
                 PROVE  DoneAtEnd(tables, i, Done) <=> IsDone(StatusAt(i, End0))
      OBVIOUS
    <2>1. DoneAtEnd(tables, i, Done) <=> LastChange(before).to \in Done
      BY <1>4 DEF DoneAtEnd, before
    <2> QED
      BY <1>2, <1>8, <2>1
  <1> HIDE DEF before, changes
  <1>11. CASE tables.status_changelog = {} \/ Done = {}
    <2>1. Came(i, Done) = {}
      BY <1>6, <1>11 DEF Times, Entries, ChangesOf
    <2>2. jira[i].resolved = Nothing
      BY <2>1, ResolvedTicks
    <2> QED
      BY <1>4, <1>11, <2>1, <2>2 DEF identify_completed_issues
  <1>12. CASE ~(tables.status_changelog = {} \/ Done = {})
    <2>1. i \in identify_completed_issues(tables, scope, Done) <=>
            i \in scope /\ DoneAtEnd(tables, i, Done) /\ DoneInSprint(tables, i, Done)
      BY <1>12 DEF identify_completed_issues
    <2> QED
      BY <1>7, <1>9, <1>10, <2>1
  <1> QED
    BY <1>11, <1>12

\* What a sprint completed are the issues that were in it and done when it ended and came to
\* done during it, whatever became of them later; those without an estimate are those that
\* never had one (velocity.py). The rightmost column of the board is that of the done
\* statuses, which velocity.py takes for granted.
THEOREM CompletedIsTrue ==
    ASSUME get_done_column_ids(Board) = Done
    PROVE  Spec => []CompletedIsWhatTheSprintFinished
  <1>1. ASSUME TypeInv, HistoryInv, ResolvedInv, Closed, \A i \in DOMAIN jira : ~Retroactive(i)
        PROVE  LET completed == {i \in DOMAIN jira :
                      /\ PlannedAt(i, End0) /\ IsDone(StatusAt(i, End0))
                      /\ Came(i, Done) \cap Window # {}}
               IN  /\ Completed(tables) = completed
                   /\ calculate_velocity_facts(tables).completed_issues = Cardinality(completed)
                   /\ calculate_unestimated_closed(tables, Done) =
                        {i \in completed : \A k \in Life(i) : PointsAt(i, k) = Nothing}
    <2> DEFINE completed == {i \in DOMAIN jira :
                      /\ PlannedAt(i, End0) /\ IsDone(StatusAt(i, End0))
                      /\ Came(i, Done) \cap Window # {}}
               log == tables.sprint_issues_changelog
               scope == identify_sprint_final_scope(tables, log)
    <2>1. \A i \in DOMAIN jira : i \in scope <=> PlannedAt(i, End0)
      BY <1>1, FinalScopeIsThePlan
    <2>2. scope \subseteq DOMAIN jira
      <3>1. DOMAIN tables.issues = DOMAIN jira
        BY <1>1, TablesAreThoseOfJira
      <3> QED
        BY <3>1 DEF identify_sprint_final_scope, Known, Unlogged, Members
    <2>3. \A i \in DOMAIN jira : i \in identify_completed_issues(tables, scope, Done) <=>
                /\ PlannedAt(i, End0) /\ IsDone(StatusAt(i, End0))
                /\ Came(i, Done) \cap Window # {}
      <3> HIDE DEF scope
      <3> QED
        BY <1>1, <2>1, CompletedByIssue
    <2>4. identify_completed_issues(tables, scope, Done) = completed
      <3>1. identify_completed_issues(tables, scope, Done) \subseteq scope
        BY DEF identify_completed_issues
      <3> HIDE DEF scope
      <3> QED
        BY <2>2, <2>3, <3>1
    <2>5. VelocityEvents(tables) = log
      <3>1. ASSUME NEW e \in log
            PROVE  e.at <= End0
        <4>1. PICK i \in DOMAIN jira : e \in SprintEvents(i)
          BY <1>1, SprintLog
        <4>2. e.at = jira[i].created \/ \E m \in jira[i].moves : e.at = m.at
          BY <1>1, <4>1, EventsAreOfTheirIssue DEF Records
        <4>3. End0 \in Nat /\ jira[i].created \in Nat /\ \A m \in jira[i].moves : m.at \in Nat
          BY <1>1, ReportsAssumption, StatusesAreTold, WorldTypes DEF TypeInv, End0, IssueType
        <4> QED
          BY <1>1, <4>2, <4>3 DEF Retroactive
      <3>2. End(tables) = End0
        BY <1>1, SprintLog DEF End, End0
      <3> QED
        BY <3>1, <3>2 DEF VelocityEvents
    <2>6. get_done_status_ids(tables) = Done
      <3>1. tables.columns = Board
        BY <1>1, TablesAreThoseOfJira
      <3>2. \A s \in DOMAIN tables.category : s \in Statuses /\ tables.category[s] = Categories[s]
        BY <1>1, KnownStatuses
      <3> QED
        BY <3>1, <3>2 DEF get_done_status_ids, Done, IsDone
    <2>7. Completed(tables) = completed
      BY <2>4, <2>5, <2>6 DEF Completed, FinalScope
    <2>8. calculate_velocity_facts(tables).completed_issues = Cardinality(completed)
      <3> HIDE DEF completed
      <3> QED
        BY <2>7 DEF calculate_velocity_facts
    <2>9. calculate_unestimated_closed(tables, Done) =
            {i \in completed : Coalesce(tables.issues[i].points, 0) = 0}
      <3> HIDE DEF completed
      <3> QED
        BY <2>4 DEF calculate_unestimated_closed
    <2>10. ASSUME NEW i \in DOMAIN jira
           PROVE  Coalesce(tables.issues[i].points, 0) = 0 <=>
                    \A k \in Life(i) : PointsAt(i, k) = Nothing
      <3>1. /\ tables.issues[i].points = KeptPoints(jira[i])
            /\ IF Estimated(i) = {} THEN KeptPoints(jira[i]) = Nothing
               ELSE /\ Max(Estimated(i)) \in Estimated(i)
                    /\ KeptPoints(jira[i]) = PointsAt(i, Max(Estimated(i)))
        BY <1>1, LastEstimateIsKept
      <3>2. \A k \in Estimated(i) : PointsAt(i, k) \in Nat \ {0}
        <4> TAKE k \in Estimated(i)
        <4>1. k \in Life(i) /\ PointsAt(i, k) # Nothing
          BY DEF Estimated
        <4>2. PointsAt(i, k) \in PointValues
          BY <1>1, <4>1, EstimatesAreTold
        <4> QED
          BY <4>1, <4>2, ReportsAssumption DEF PointValues
      <3>3. Estimated(i) = {} <=> \A k \in Life(i) : PointsAt(i, k) = Nothing
        BY DEF Estimated
      <3>4. Nothing \notin Nat
        BY ReportsAssumption
      <3> QED
        BY <3>1, <3>2, <3>3, <3>4 DEF Coalesce
    <2>11. calculate_unestimated_closed(tables, Done) =
            {i \in completed : \A k \in Life(i) : PointsAt(i, k) = Nothing}
      BY <2>9, <2>10
    <2> QED
      BY <2>7, <2>8, <2>11
  <1>2. TypeInv /\ HistoryInv /\ ResolvedInv => CompletedIsWhatTheSprintFinished
    BY <1>1 DEF CompletedIsWhatTheSprintFinished
  <1> QED
    BY <1>2, ReportsCorrect, ResolvedCorrect, PTL

-----------------------------------------------------------------------------
\* The past, as the clean layer saw it then: ages.

\* The past is part of the present: what an issue had gone through at a tick is what of its
\* changes is no later.
UpTo(changes, k) == {c \in changes : c.at <= k}

PastOk(film, n) ==
    \A k \in 0 .. n : \A i \in DOMAIN film[k] :
        /\ i \in DOMAIN film[n] /\ Named(film[k][i])
        /\ film[k][i].changes = UpTo(film[n][i].changes, k)

PastInv == PastOk(Film, now)

\* All changes are over: they are those up to now.
LEMMA ChangesAreOver ==
    ASSUME TypeInv, HistoryInv, NEW i \in DOMAIN jira
    PROVE  /\ \A c \in jira[i].changes : c.at \in Nat /\ c.at <= now
           /\ \A k \in Nat : k >= now => UpTo(jira[i].changes, k) = jira[i].changes
  <1>1. \A c \in jira[i].changes : c.at \in Nat /\ c.at <= now /\ now \in Nat
    BY StatusesAreTold DEF After
  <1> QED
    BY <1>1 DEF UpTo

\* An edit leaves what was told of the past.
LEMMA PastIsKept ==
    ASSUME TypeInv, HistoryInv, PastInv, NEW i \in DOMAIN jira, NEW x \in IssueType, Named(x),
           Edited(i, x), UNCHANGED <<now, past>>
    PROVE  PastInv'
  <1>1. now \in Nat /\ Film[now] = jira
    BY WorldTypes, FilmOfNow
  <1>2. Film' = [k \in 0 .. now |-> IF k < now THEN Film[k] ELSE jira']
    BY FilmOfEdit
  <1>3. jira' = [jira EXCEPT ![i] = x]
    BY DEF Edited
  <1>4. ASSUME NEW k \in 0 .. now, NEW j \in DOMAIN Film'[k]
        PROVE  /\ j \in DOMAIN jira' /\ Named(Film'[k][j])
               /\ Film'[k][j].changes = UpTo(jira'[j].changes, k)
    <2>1. CASE k < now
      <3>1. Film'[k] = Film[k]
        BY <1>2, <2>1
      <3>2. j \in DOMAIN jira /\ Named(Film[k][j]) /\ Film[k][j].changes = UpTo(jira[j].changes, k)
        BY <1>1, <1>4, <3>1 DEF PastInv, PastOk
      <3>3. CASE j # i
        BY <1>3, <3>1, <3>2, <3>3
      <3>4. CASE j = i
        <4>1. x.changes = jira[i].changes \/ \E c : x.changes = jira[i].changes \cup {c} /\ c.at = now
          BY DEF Edited, Edit
        <4>2. UpTo(x.changes, k) = UpTo(jira[i].changes, k)
          BY <1>1, <2>1, <4>1 DEF UpTo
        <4> QED
          BY <1>3, <3>1, <3>2, <3>4, <4>2
      <3> QED
        BY <3>3, <3>4
    <2>2. CASE k = now
      <3>1. Film'[k] = jira' /\ j \in DOMAIN jira
        BY <1>1, <1>2, <1>3, <2>2
      <3>2. CASE j # i
        BY <1>3, <2>2, <3>1, <3>2, ChangesAreOver, <1>1 DEF TypeInv
      <3>3. CASE j = i
        <4>1. \A c \in x.changes : c.at <= now
          <5>1. x.changes = jira[i].changes \/ \E c : x.changes = jira[i].changes \cup {c} /\ c.at = now
            BY DEF Edited, Edit
          <5> QED
            BY <1>1, <5>1, ChangesAreOver
        <4> QED
          BY <1>3, <2>2, <3>1, <3>3, <4>1 DEF UpTo
      <3> QED
        BY <3>2, <3>3
    <2> QED
      BY <1>1, <2>1, <2>2
  <1>5. Film'[now] = jira' /\ now' = now
    BY <1>1, <1>2
  <1> QED
    BY <1>4, <1>5 DEF PastInv, PastOk

\* The past tells of an issue what its changes up to then tell.
LEMMA PastCorrect == Spec => []PastInv
  <1>1. Init => PastInv
    <2> SUFFICES ASSUME Init
                 PROVE  PastInv
      OBVIOUS
    <2>1. now = 0 /\ jira = <<>> /\ Film = [k \in 0 .. 0 |-> At(k)]
      BY DEF Init, Film
    <2>2. \A k \in 0 .. 0 : Film[k] = <<>>
      BY <2>1 DEF At
    <2> QED
      BY <2>1, <2>2 DEF PastInv, PastOk
  <1>2. ASSUME TypeInv, HistoryInv, PastInv, [Next]_vars
        PROVE  PastInv'
    <2>0. now \in Nat /\ Film[now] = jira
      BY <1>2, WorldTypes, FilmOfNow
    <2>1. CASE Tick
      <3>1. now' = now + 1 /\ jira' = jira /\ past' = Append(past, jira)
        BY <2>1 DEF Tick
      <3>2. Film' = [k \in 0 .. (now + 1) |-> IF k <= now THEN Film[k] ELSE Film[now]]
        BY <1>2, <3>1, FilmOfTick
      <3>3. Film'[now'] = jira
        BY <2>0, <3>1, <3>2
      <3>4. ASSUME NEW k \in 0 .. now', NEW i \in DOMAIN Film'[k]
            PROVE  /\ i \in DOMAIN jira /\ Named(Film'[k][i])
                   /\ Film'[k][i].changes = UpTo(jira[i].changes, k)
        <4>1. CASE k <= now
          <5>1. Film'[k] = Film[k] /\ k \in 0 .. now
            BY <2>0, <3>1, <3>2, <4>1
          <5> QED
            BY <1>2, <2>0, <3>4, <5>1 DEF PastInv, PastOk
        <4>2. CASE k = now + 1
          <5>1. Film'[k] = jira /\ k >= now
            BY <2>0, <3>2, <4>2
          <5> QED
            BY <1>2, <3>4, <5>1, ChangesAreOver DEF TypeInv
        <4> QED
          BY <2>0, <3>1, <4>1, <4>2
      <3> QED
        BY <3>3, <3>4 DEF PastInv, PastOk
    <2>2. CASE \E i \in world.issues, planned \in BOOLEAN, points \in PointValues :
                    CreateIssue(i, planned, points)
      <3>1. PICK i \in world.issues, planned \in BOOLEAN, points \in PointValues :
                    CreateIssue(i, planned, points)
        BY <2>2
      <3> DEFINE x == [created |-> now, status |-> Initial, statusName |-> Initial, changes |-> {},
                       sprints |-> IF planned THEN {"sprint"} ELSE {}, moves |-> {},
                       points |-> points, pointChanges |-> {}, resolved |-> Nothing]
      <3>2. jira' = [j \in DOMAIN jira \cup {i} |-> IF j # i THEN jira[j] ELSE x]
            /\ i \notin DOMAIN jira /\ UNCHANGED <<now, past>>
        BY <3>1 DEF CreateIssue, Event
      <3>3. x.changes = {} /\ Named(x)
        BY DEF Named
      <3> HIDE DEF x
      <3>4. Film' = [k \in 0 .. now |-> IF k < now THEN Film[k] ELSE jira']
        BY <1>2, <3>2, FilmOfEdit
      <3>5. Film'[now] = jira' /\ now' = now
        BY <2>0, <3>2, <3>4
      <3>6. ASSUME NEW k \in 0 .. now, NEW j \in DOMAIN Film'[k]
            PROVE  /\ j \in DOMAIN jira' /\ Named(Film'[k][j])
                   /\ Film'[k][j].changes = UpTo(jira'[j].changes, k)
        <4>1. CASE k < now
          <5>1. Film'[k] = Film[k]
            BY <3>4, <4>1
          <5>2. j \in DOMAIN jira /\ Named(Film[k][j]) /\ Film[k][j].changes = UpTo(jira[j].changes, k)
            BY <1>2, <2>0, <3>6, <5>1 DEF PastInv, PastOk
          <5> QED
            BY <3>2, <5>1, <5>2
        <4>2. CASE k = now
          <5>1. Film'[k] = jira'
            BY <3>5, <4>2
          <5>2. CASE j = i
            BY <3>2, <3>3, <5>1, <5>2 DEF UpTo
          <5>3. CASE j # i
            <6>1. j \in DOMAIN jira /\ jira'[j] = jira[j]
              BY <3>2, <3>6, <5>1, <5>3
            <6>2. UpTo(jira[j].changes, k) = jira[j].changes
              BY <1>2, <2>0, <4>2, <6>1, ChangesAreOver
            <6> QED
              BY <1>2, <3>2, <5>1, <6>1, <6>2 DEF TypeInv
          <5> QED
            BY <5>2, <5>3
        <4> QED
          BY <2>0, <4>1, <4>2
      <3> QED
        BY <3>5, <3>6 DEF PastInv, PastOk
    <2>3. CASE \E i \in DOMAIN jira : \/ \E s \in Statuses : MoveIssue(i, s)
                                      \/ PlanIssue(i)
                                      \/ \E p \in PointValues : EstimateIssue(i, p)
      <3>1. PICK i \in DOMAIN jira : \/ \E s \in Statuses : MoveIssue(i, s)
                                     \/ PlanIssue(i)
                                     \/ \E p \in PointValues : EstimateIssue(i, p)
        BY <2>3
      <3>2. /\ \E x \in IssueType : Named(x) /\ Edited(i, x)
            /\ UNCHANGED <<now, past>>
        BY <1>2, <3>1, IssueEdits
      <3> QED
        BY <1>2, <3>2, PastIsKept
    <2>4. CASE (\E r \in Rules : SaveRule([project |-> r.project, board |-> r.board,
                        start |-> r.span[1], end |-> r.span[2]])) \/ UNCHANGED vars
      <3>1. UNCHANGED <<now, past, jira>>
        BY <2>4 DEF SaveRule, Event, vars
      <3>2. Film' = Film /\ now' = now
        BY <3>1 DEF Film, At
      <3> QED
        BY <1>2, <3>2 DEF PastInv
    <2> QED
      BY <1>2, <2>1, <2>2, <2>3, <2>4 DEF Next, PointValues
  <1>3. TypeInv /\ HistoryInv /\ PastInv /\ [Next]_vars => PastInv'
    BY <1>2
  <1> QED
    BY <1>1, <1>3, ReportsCorrect, PTL DEF Spec

\* What the clean layer made of Jira at an earlier tick.
Then(k) == TablesOf(world, At(k), k)

\* What Jira held at a tick satisfies what the clean layer assumes, too.
LEMMA PastIsLoadable ==
    ASSUME TypeInv, HistoryInv, PastInv, NEW k \in 0 .. now
    PROVE  /\ Loadable(At(k))
           /\ \A i \in DOMAIN At(k) : i \in DOMAIN jira /\ At(k)[i].changes = UpTo(jira[i].changes, k)
  <1>1. \A i \in DOMAIN At(k) : /\ i \in DOMAIN jira /\ Named(At(k)[i])
                                /\ At(k)[i].changes = UpTo(jira[i].changes, k)
    BY FilmOfNow DEF PastInv, PastOk
  <1>2. \A i \in DOMAIN jira : /\ \A c \in jira[i].changes : c.to \in Nat
                               /\ \A c, d \in jira[i].changes : c.at = d.at => c = d
    BY JiraIsLoadable DEF Loadable
  <1> QED
    BY <1>1, <1>2 DEF Loadable, UpTo

\* The log at a tick has the changes up to it.
LEMMA LogOfThen ==
    ASSUME TypeInv, HistoryInv, PastInv, NEW i \in DOMAIN jira, NEW k \in Life(i)
    PROVE  /\ k \in 0 .. now /\ i \in DOMAIN At(k)
           /\ \A r : r \in ChangesOf(Then(k), i) <=>
                    \E c \in jira[i].changes : c.at <= k /\ r = Logged(world, At(k), i, c)
  <1>1. k \in 0 .. now /\ i \in DOMAIN At(k)
    BY StatusesAreTold DEF Life
  <1>2. Loadable(At(k)) /\ \A j \in DOMAIN At(k) : At(k)[j].changes = UpTo(jira[j].changes, k)
    BY <1>1, PastIsLoadable
  <1>3. \A r : r \in Then(k).status_changelog <=>
                \E j \in DOMAIN At(k) : \E c \in At(k)[j].changes : r = Logged(world, At(k), j, c)
    BY <1>2, ChangelogIsTheHistory DEF Then
  <1>4. \A j, c : Logged(world, At(k), j, c).issue = j
    BY DEF Logged
  <1>5. \A r : r \in ChangesOf(Then(k), i) <=>
                \E c \in At(k)[i].changes : r = Logged(world, At(k), i, c)
    BY <1>1, <1>3, <1>4 DEF ChangesOf
  <1>6. At(k)[i].changes = UpTo(jira[i].changes, k)
    BY <1>1, <1>2
  <1> QED
    BY <1>1, <1>5, <1>6 DEF UpTo

\* The ticks up to k at which the log of that time has the issue leave S.
NotedThen(i, S, k) ==
    {m \in Left(i, S) : m <= k /\ StatusAt(i, m - 1) \in KnownTo(world, At(k))}

\* So the entries and exits then are those up to the tick.
LEMMA TicksOfThen ==
    ASSUME TypeInv, HistoryInv, PastInv, NEW i \in DOMAIN jira, NEW k \in Life(i),
           NEW S \in SUBSET Statuses
    PROVE  /\ Times(Entries(Then(k), i, S)) = {m \in Came(i, S) : m <= k}
           /\ Times(Exits(Then(k), i, S)) = NotedThen(i, S, k)
  <1> DEFINE K == KnownTo(world, At(k))
             old(c) == IF c.from \in K THEN c.from ELSE Nothing
  <1>1. \A r : r \in ChangesOf(Then(k), i) <=>
            \E c \in jira[i].changes : c.at <= k /\ r = Logged(world, At(k), i, c)
    BY LogOfThen
  <1>2. \A c : LET r == Logged(world, At(k), i, c)
               IN  r.at = c.at /\ r.to = c.to /\ r.from = old(c)
    BY DEF Logged
  <1>3. /\ \A c \in jira[i].changes :
                /\ c.at \in After(i) /\ c.from # c.to
                /\ c.from = StatusAt(i, c.at - 1) /\ c.to = StatusAt(i, c.at)
        /\ \A m \in After(i) : StatusAt(i, m) # StatusAt(i, m - 1) =>
                \E c \in jira[i].changes : c.at = m
    BY StatusesAreTold
  <1>4. Nothing \notin S
    BY ReportsAssumption
  <1>5. \A m : m \in Times(Entries(Then(k), i, S)) <=>
                \E c \in jira[i].changes : c.at = m /\ m <= k /\ c.to \in S
    BY <1>1, <1>2 DEF Times, Entries
  <1>6. \A m : m \in Times(Exits(Then(k), i, S)) <=>
                \E c \in jira[i].changes : c.at = m /\ m <= k /\ c.from \in K \cap S /\ c.to \notin S
    <2>1. \A m : m \in Times(Exits(Then(k), i, S)) <=>
                \E c \in jira[i].changes : c.at = m /\ m <= k /\ old(c) \in S /\ c.to \notin S
      BY <1>1, <1>2 DEF Times, Exits
    <2>2. \A c : old(c) \in S <=> c.from \in K \cap S
      BY <1>4
    <2> HIDE DEF old
    <2> QED
      BY <2>1, <2>2
  <1> HIDE DEF K
  <1>7. Times(Entries(Then(k), i, S)) = {m \in Came(i, S) : m <= k}
    BY <1>3, <1>5 DEF Came
  <1>8. Times(Exits(Then(k), i, S)) = NotedThen(i, S, k)
    <2>1. \A m \in Times(Exits(Then(k), i, S)) : m \in NotedThen(i, S, k)
      BY <1>3, <1>6 DEF NotedThen, Left, K
    <2>2. \A m \in NotedThen(i, S, k) : m \in Times(Exits(Then(k), i, S))
      <3> TAKE m \in NotedThen(i, S, k)
      <3>1. /\ m \in After(i) /\ StatusAt(i, m) \notin S /\ StatusAt(i, m - 1) \in S
            /\ m <= k /\ StatusAt(i, m - 1) \in K
        BY DEF NotedThen, Left, K
      <3>2. PICK c \in jira[i].changes : c.at = m
        BY <1>3, <3>1
      <3>3. c.from = StatusAt(i, m - 1) /\ c.to = StatusAt(i, m)
        BY <1>3, <3>2
      <3> QED
        BY <1>6, <3>1, <3>2, <3>3
    <2> QED
      BY <2>1, <2>2
  <1> QED
    BY <1>7, <1>8

\* An exit that the log of that time does not have is the first change.
LEMMA UnknownThenIsFirst ==
    ASSUME TypeInv, HistoryInv, PastInv, NEW i \in DOMAIN jira, NEW k \in Life(i), NEW S,
           NEW m \in Left(i, S), m <= k, m \notin NotedThen(i, S, k),
           NEW c \in jira[i].changes
    PROVE  m <= c.at
  <1>1. /\ jira[i].created \in Nat /\ now \in Nat /\ m \in After(i) /\ c.at \in After(i)
        /\ \A n \in Life(i) : i \in DOMAIN At(n)
    BY StatusesAreTold DEF Left
  <1> DEFINE prior == m - 1
  <1>2. SUFFICES ASSUME c.at < m
                 PROVE  FALSE
    BY <1>1 DEF After
  <1>3. prior \in Life(i) /\ c.at <= prior /\ prior <= k /\ prior \in Nat
    BY <1>1, <1>2 DEF After, Life
  <1>4. StatusAt(i, prior) \notin KnownTo(world, At(k))
    BY DEF NotedThen
  <1> HIDE DEF prior
  <1> DEFINE before == {r \in ChangesOf(tables, i) : r.at <= prior}
  <1>5. before # {}
    <2>1. \E r \in ChangesOf(tables, i) : r.at = c.at
      BY LogOfAnIssue
    <2> QED
      BY <1>3, <2>1
  <1>6. LastChange(before) \in before /\ LastChange(before).to = StatusAt(i, prior)
    BY <1>3, <1>5, LastChangeTells
  <1>7. PICK d \in jira[i].changes : LastChange(before) = Logged(world, jira, i, d)
    <2>1. LastChange(before) \in ChangesOf(tables, i)
      BY <1>6
    <2> HIDE DEF before
    <2> QED
      BY <2>1, LogOfAnIssue
  <1>8. d.at <= prior /\ d.to = StatusAt(i, prior) /\ d.at \in Nat
    <2>1. d.at = LastChange(before).at /\ d.to = LastChange(before).to
      BY <1>7, LogOfAnIssue
    <2>2. d.at \in Nat
      BY <1>1, StatusesAreTold DEF After
    <2> QED
      BY <1>6, <2>1, <2>2
  <1>9. d.at <= k /\ k \in Nat
    BY <1>1, <1>3, <1>8 DEF Life
  <1>10. d \in At(k)[i].changes /\ i \in DOMAIN At(k)
    <2>1. k \in 0 .. now /\ i \in DOMAIN At(k)
      BY LogOfThen
    <2>2. At(k)[i].changes = UpTo(jira[i].changes, k)
      BY <2>1, PastIsLoadable
    <2> QED
      BY <1>9, <2>1, <2>2 DEF UpTo
  <1>11. d.to \in KnownTo(world, At(k))
    BY <1>10 DEF KnownTo
  <1> QED
    BY <1>4, <1>8, <1>11

\* Since when an issue was in progress then, if no change both leaves the end statuses and
\* enters a middle one: the first entry after the last time it left them.
AgeBegins(i, middle, end, k) ==
    EarliestOf({a \in Came(i, middle) : a <= k /\ \A m \in Left(i, end) : m <= k => m < a})

\* In progress since: the log and the history give the same tick.
LEMMA AgeFromTheLog ==
    ASSUME TypeInv, HistoryInv, PastInv, NEW i \in DOMAIN jira, NEW k \in Life(i),
           NEW p, p.middle \in SUBSET Statuses, p.end \in SUBSET Statuses,
           Left(i, p.end) \cap Came(i, p.middle) = {}
    PROVE  InProgressSince(Then(k), i, p) = AgeBegins(i, p.middle, p.end, k)
  <1> DEFINE noted == NotedThen(i, p.end, k)
             left == LastLeft(Then(k), i, p.end)
  <1>1. left = IF noted = {} THEN Nothing ELSE Max(noted)
    BY TicksOfThen DEF LastLeft, LatestOf
  <1>2. noted \in SUBSET Left(i, p.end) /\ noted \in SUBSET After(i) /\ After(i) \in SUBSET Nat
    <2>1. After(i) \in SUBSET Nat
      BY StatusesAreTold DEF After
    <2>2. noted \in SUBSET Left(i, p.end)
      BY DEF NotedThen
    <2>3. Left(i, p.end) \in SUBSET After(i)
      BY TicksAreFinite
    <2> QED
      BY <2>1, <2>2, <2>3
  <1>3. noted # {} => Max(noted) \in noted /\ \A m \in noted : m <= Max(noted)
    <2>1. noted \in SUBSET Int /\ IsFiniteSet(noted)
      BY <1>2, TicksAreFinite
    <2> HIDE DEF noted
    <2> QED
      BY <2>1, MaxIsGreatest
  <1>4. left # Nothing <=> noted # {}
    BY <1>1, <1>2, <1>3, ReportsAssumption
  <1> HIDE DEF noted, left
  <1>5. ASSUME NEW a \in Came(i, p.middle), a <= k
        PROVE  (left # Nothing => a > left) <=> \A m \in Left(i, p.end) : m <= k => m < a
    <2>1. a \in Nat /\ k \in Nat /\ Left(i, p.end) \in SUBSET Nat
      <3>1. Came(i, p.middle) \in SUBSET After(i) /\ Left(i, p.end) \in SUBSET After(i)
        BY TicksAreFinite
      <3>2. k \in Nat
        BY StatusesAreTold DEF Life
      <3> QED
        BY <1>2, <3>1, <3>2
    <2>2. (left # Nothing => a > left) <=> \A m \in noted : m < a
      BY <1>1, <1>2, <1>3, <1>4, <2>1
    <2>3. \A m \in noted : m \in Left(i, p.end) /\ m <= k
      BY DEF noted, NotedThen
    <2>4. ASSUME NEW m \in Left(i, p.end), m <= k, m \notin noted
          PROVE  m < a
      <3>1. PICK c \in jira[i].changes : c.at = a
        BY StatusesAreTold DEF Came
      <3>2. m <= c.at
        BY <2>4, UnknownThenIsFirst DEF noted
      <3>3. m # a
        OBVIOUS
      <3> QED
        BY <2>1, <3>1, <3>2, <3>3
    <2> QED
      BY <2>2, <2>3, <2>4
  <1>6. {a \in {m \in Came(i, p.middle) : m <= k} : left # Nothing => a > left}
          = {a \in Came(i, p.middle) : a <= k /\ \A m \in Left(i, p.end) : m <= k => m < a}
    BY <1>5
  <1>7. InProgressSince(Then(k), i, p) =
            EarliestOf({a \in {m \in Came(i, p.middle) : m <= k} : left # Nothing => a > left})
    BY TicksOfThen DEF InProgressSince, left
  <1> QED
    BY <1>6, <1>7 DEF AgeBegins

\* What the clean layer knew of the statuses then.
LEMMA StatusesOfThen ==
    ASSUME TypeInv, HistoryInv, PastInv, NEW k \in 0 .. now
    PROVE  /\ DOMAIN Then(k).issues = DOMAIN At(k) /\ Then(k).columns = Board
           /\ \A i \in DOMAIN At(k) : /\ Then(k).issues[i].status = StatusAt(i, k)
                                      /\ Then(k).category[StatusAt(i, k)] = Categories[StatusAt(i, k)]
  <1> DEFINE X == Cleaned(world, At(k)).issue_statuses
  <1>1. /\ DOMAIN Then(k).issues = DOMAIN At(k) /\ Then(k).columns = Board
        /\ Then(k).category = [s \in DOMAIN X |-> Categories[s]]
        /\ \A i \in DOMAIN At(k) : Then(k).issues[i].status = StatusAt(i, k)
    BY DEF Then, TablesOf, StatusAt
  <1>2. X = Clean!CleanIssueStatuses(Known0(world), Raw(At(k))).issue_statuses
    BY DEF Cleaned, Clean!CleanSprintIssuesChangelog, Clean!CleanSprintIssues,
           Clean!CleanStatusChangelog, Raw, Known0
  <1>3. Loadable(At(k))
    BY PastIsLoadable
  <1>4. DOMAIN X = KnownTo(world, At(k))
    BY <1>2, <1>3, StatusesAreKnown DEF Loadable
  <1>5. \A i \in DOMAIN At(k) : StatusAt(i, k) \in KnownTo(world, At(k))
    BY DEF KnownTo, StatusAt
  <1> HIDE DEF X
  <1> QED
    BY <1>1, <1>4, <1>5

\* The lead time of an issue that became done begins where its age did until then, if no
\* change took it from the end statuses straight into a middle one (aging.py, lead_time.py).
\* The end statuses by the names of the columns are the done ones.
THEOREM AgesBecomeLeadTimes ==
    ASSUME ByName.end = Done
    PROVE  Spec => []AgeBecomesLeadTime
  <1>1. ByName.middle \in SUBSET Statuses /\ ByName.middle \cap ByName.end = {}
        /\ ByName.end \in SUBSET Statuses
    BY PointsAreApart
  <1>2. ASSUME TypeInv, HistoryInv, PastInv, NEW i \in DOMAIN jira,
               jira[i].status \in ByName.end,
               NEW before, before = Max(Came(i, ByName.end)) - 1,
               StatusAt(i, before) \notin Done, Left(i, Done) \cap Came(i, ByName.middle) = {}
        PROVE  LET facts == calculate_lead_time_per_issue(tables, ByName)
                   t == TablesOf(world, At(before), before)
                   since == InProgressSince(t, i, ByName)
               IN  IF since = Nothing THEN i \notin DOMAIN facts
                   ELSE /\ i \in DOMAIN facts
                        /\ facts[i].start = calculate_work_item_aging_facts(t)[i].start
    <2> DEFINE facts == calculate_lead_time_per_issue(tables, ByName)
               t == Then(before)
               since == InProgressSince(t, i, ByName)
               last == Max(Came(i, Done))
               left == Left(i, Done)
               stay == Min({k \in Life(i) : \A j \in k .. now : StatusAt(i, j) \in ByName.end})
               started == {k \in Came(i, ByName.middle) :
                                k <= stay /\ (left # {} => k >= Max(left))}
               begun == {a \in Came(i, ByName.middle) :
                            a <= before /\ \A m \in left : m <= before => m < a}
    <2>1. /\ jira[i].created \in Nat /\ now \in Nat /\ now \in Life(i)
          /\ StatusAt(i, now) = jira[i].status
          /\ Life(i) = jira[i].created .. now /\ After(i) = (jira[i].created + 1) .. now
      BY <1>2, StatusesAreTold DEF Life, After
    <2>2. Came(i, Done) # {}
      BY <1>2, <2>1, DoneIsReached
    <2>3. last \in Came(i, Done) /\ \A k \in Came(i, Done) : k <= last
      <3>1. Came(i, Done) \in SUBSET Int /\ IsFiniteSet(Came(i, Done))
        <4>1. Came(i, Done) \in SUBSET After(i)
          BY <1>2, TicksAreFinite
        <4> QED
          BY <1>2, <4>1, TicksAreFinite
      <3> QED
        BY <2>2, <3>1, MaxIsGreatest
    <2>4. last \in After(i) /\ last \in Life(i) /\ last \in Nat /\ StatusAt(i, last) \in Done
          /\ before = last - 1 /\ before \in Life(i) /\ before \in Nat /\ before < last
      <3>1. last \in After(i) /\ StatusAt(i, last) \in Done
        BY <2>3 DEF Came
      <3>2. before = last - 1
        BY <1>2
      <3> HIDE DEF last
      <3> QED
        BY <2>1, <3>1, <3>2
    <2> HIDE DEF last
    <2>5. \A j \in last .. now : StatusAt(i, j) \in Done
      <3> SUFFICES ASSUME NEW j \in last .. now, StatusAt(i, j) \notin Done
                   PROVE  FALSE
        OBVIOUS
      <3>1. j \in Life(i) /\ j <= now /\ j \in Nat
        BY <2>1, <2>4
      <3>2. StatusAt(i, now) \in Done
        BY <1>2, <2>1
      <3>3. StatusAt(i, now) \notin Statuses \ Done /\ StatusAt(i, j) \in Statuses \ Done
        BY <1>2, <3>1, <3>2, StatusesAreTold
      <3>4. PICK m \in Left(i, Statuses \ Done) : j < m /\ m <= now
        BY <1>2, <2>1, <3>1, <3>3, LeavesBetween
      <3>5. m \in After(i) /\ StatusAt(i, m) \notin Statuses \ Done
            /\ StatusAt(i, m - 1) \in Statuses \ Done
        BY <3>4 DEF Left
      <3>6. m \in Life(i) /\ m \in Nat
        BY <2>1, <3>5
      <3>7. StatusAt(i, m) \in Done
        BY <1>2, <3>5, <3>6, StatusesAreTold
      <3>8. m \in Came(i, Done)
        BY <3>5, <3>7 DEF Came
      <3> QED
        BY <2>3, <2>4, <3>1, <3>4, <3>6, <3>8
    <2>6. stay = last
      <3> DEFINE stays == {k \in Life(i) : \A j \in k .. now : StatusAt(i, j) \in ByName.end}
      <3>1. last \in stays
        BY <2>4, <2>5
      <3>2. \A k \in stays : last <= k
        <4> SUFFICES ASSUME NEW k \in stays, k < last
                     PROVE  FALSE
          BY <2>1, <2>4
        <4>1. before \in k .. now
          BY <2>1, <2>4
        <4> QED
          BY <1>2, <4>1
      <3>3. stays \in SUBSET Nat
        BY <2>1
      <3> HIDE DEF stays
      <3>4. Min(stays) \in stays /\ \A k \in stays : Min(stays) <= k
        BY <3>1, <3>3, MinIsLeast
      <3>5. Min(stays) = last
        <4> DEFINE least == Min(stays)
        <4>1. least \in stays /\ least <= last
          BY <3>1, <3>4
        <4> HIDE DEF least
        <4>2. least \in Nat /\ last <= least
          BY <3>2, <3>3, <4>1
        <4>3. least = last
          BY <2>4, <4>1, <4>2
        <4> QED
          BY <4>3 DEF least
      <3> QED
        BY <3>5 DEF stays
    <2>7. left \in SUBSET Nat /\ \A m \in left : m <= before
      <3>1. left \in SUBSET After(i)
        BY <1>2, TicksAreFinite
      <3>2. \A m \in left : m \notin last .. now
        BY <2>5 DEF Left
      <3> HIDE DEF left
      <3> QED
        BY <2>1, <2>4, <3>1, <3>2
    <2>8. left # {} => Max(left) \in left /\ \A m \in left : m <= Max(left)
      <3>1. left \in SUBSET Int /\ IsFiniteSet(left)
        <4>1. left \in SUBSET After(i)
          BY <1>2, TicksAreFinite
        <4> QED
          BY <1>2, <4>1, TicksAreFinite
      <3> HIDE DEF left
      <3> QED
        BY <3>1, MaxIsGreatest
    <2> HIDE DEF stay
    <2>9. started = begun
      <3>1. ASSUME NEW k \in Came(i, ByName.middle)
            PROVE  k <= stay /\ (left # {} => k >= Max(left)) <=>
                   k <= before /\ \A m \in left : m <= before => m < k
        <4>1. k \in After(i) /\ StatusAt(i, k) \in ByName.middle
          BY DEF Came
        <4>2. k \in Nat /\ k # last
          BY <1>1, <1>2, <2>1, <2>4, <4>1
        <4>3. k <= stay <=> k <= before
          BY <2>4, <2>6, <4>2
        <4>4. \A m \in left : m # k
          BY <1>2
        <4>5. (left # {} => k >= Max(left)) <=> \A m \in left : m < k
          <5> DEFINE top == Max(left)
          <5> HIDE DEF left
          <5>1. CASE left = {}
            BY <5>1
          <5>2. CASE left # {}
            <6>1. top \in left /\ \A m \in left : m <= top
              BY <2>8, <5>2
            <6> HIDE DEF top
            <6>2. top \in Nat /\ top # k
              BY <2>7, <4>4, <6>1
            <6>3. k >= top <=> \A m \in left : m < k
              <7>1. ASSUME k >= top, NEW m \in left
                    PROVE  m < k
                BY <2>7, <4>2, <6>1, <6>2, <7>1
              <7>2. ASSUME \A m \in left : m < k
                    PROVE  k >= top
                BY <4>2, <6>1, <6>2, <7>2
              <7> QED
                BY <7>1, <7>2
            <6> QED
              BY <5>2, <6>3 DEF top
          <5> QED
            BY <5>1, <5>2
        <4> QED
          BY <2>7, <4>3, <4>5
      <3> QED
        BY <3>1
    <2>10. since = EarliestOf(begun)
      <3>1. Left(i, ByName.end) \cap Came(i, ByName.middle) = {}
        BY <1>2
      <3>2. since = AgeBegins(i, ByName.middle, ByName.end, before)
        BY <1>1, <1>2, <2>4, <3>1, AgeFromTheLog
      <3> QED
        BY <3>2 DEF AgeBegins
    <2>11. IF started = {} THEN i \notin DOMAIN facts
           ELSE i \in DOMAIN facts /\ facts[i] = Span(Min(started), stay)
      BY <1>1, <1>2, LeadTimeOfTheStay DEF stay
    <2>12. begun # {} => Min(begun) \in Nat
      <3>1. begun \in SUBSET Nat
        <4>1. Came(i, ByName.middle) \in SUBSET After(i)
          BY <1>2, TicksAreFinite
        <4> QED
          BY <2>1, <4>1
      <3> HIDE DEF begun
      <3> QED
        BY <3>1, MinIsLeast
    <2>13. since # Nothing => calculate_work_item_aging_facts(t)[i].start = since
      <3>1. before \in 0 .. now /\ i \in DOMAIN At(before)
        BY <1>2, <2>4, LogOfThen
      <3>2. /\ i \in DOMAIN t.issues /\ t.columns = Board
            /\ t.category[t.issues[i].status] = Categories[StatusAt(i, before)]
        BY <1>2, <3>1, StatusesOfThen
      <3>3. StatusAt(i, before) \in Statuses
        BY <1>2, <2>4, StatusesAreTold
      <3>4. t.category[t.issues[i].status] # "done"
        BY <1>2, <3>2, <3>3 DEF Done, IsDone
      <3>5. identify_commitment_points_heuristic(t.columns) = ByName
        BY <3>2 DEF ByName
      <3> HIDE DEF t
      <3>6. calculate_work_item_aging_facts(t)[i].start =
                Coalesce(InProgressSince(t, i, ByName), t.issues[i].created)
        BY <3>2, <3>4, <3>5 DEF calculate_work_item_aging_facts, Issues
      <3> QED
        BY <3>6 DEF Coalesce
    <2> HIDE DEF facts, t, since, started, begun
    <2>14. IF since = Nothing THEN i \notin DOMAIN facts
           ELSE /\ i \in DOMAIN facts
                /\ facts[i].start = calculate_work_item_aging_facts(t)[i].start
      <3>1. CASE begun = {}
        BY <2>9, <2>10, <2>11, <3>1 DEF EarliestOf
      <3>2. CASE begun # {}
        <4>1. since = Min(begun) /\ since # Nothing
          BY <2>10, <2>12, <3>2, ReportsAssumption DEF EarliestOf
        <4>2. facts[i].start = Min(begun) /\ i \in DOMAIN facts
          BY <2>9, <2>11, <3>2 DEF Span
        <4> QED
          BY <2>13, <4>1, <4>2
      <3> QED
        BY <3>1, <3>2
    <2> QED
      BY <2>14 DEF facts, t, since, Then
  <1>3. TypeInv /\ HistoryInv /\ PastInv => AgeBecomesLeadTime
    BY <1>2 DEF AgeBecomesLeadTime
  <1> QED
    BY <1>3, ReportsCorrect, PastCorrect, PTL

-----------------------------------------------------------------------------
\* The delivery of epics.

\* The issues are the children of the one epic, and what the log tells of them.
LEMMA ChildrenOfTheEpic ==
    ASSUME TypeInv, HistoryInv, ByName.end = Done
    PROVE  /\ "epic" # Nothing
           /\ Children(tables, "epic") = DOMAIN jira
           /\ Epics(tables) = IF DOMAIN jira = {} THEN {} ELSE {"epic"}
           /\ ByName.start \in SUBSET Statuses
           /\ \A i \in DOMAIN jira :
                /\ Started(tables, i, ByName) = EarliestOf(Came(i, ByName.start))
                /\ Finished(tables, i, ByName) = LatestOf(Came(i, Done))
  <1>1. DOMAIN tables.issues = DOMAIN jira /\ \A i \in DOMAIN jira : tables.issues[i].parent = "epic"
    BY DEF TypeInv, TablesOf
  <1>2. "epic" # Nothing
    BY ReportsAssumption
  <1>3. ByName.start \in SUBSET Statuses
    <2>1. \A S \in SUBSET Board : StatusesOf(S) \subseteq Statuses
      BY ReportsAssumption DEF StatusesOf
    <2> QED
      BY <2>1 DEF ByName, identify_commitment_points_heuristic
  <1>4. Done \in SUBSET Statuses
    BY DEF Done
  <1>5. \A i \in DOMAIN jira : /\ Times(Entries(tables, i, ByName.start)) = Came(i, ByName.start)
                               /\ Times(Entries(tables, i, Done)) = Came(i, Done)
    BY <1>3, <1>4, LogTellsTheMoves
  <1>6. \A i \in DOMAIN jira :
            /\ Started(tables, i, ByName) = EarliestOf(Came(i, ByName.start))
            /\ Finished(tables, i, ByName) = LatestOf(Came(i, Done))
    BY <1>5 DEF Started, Finished
  <1>7. Children(tables, "epic") = DOMAIN jira
    BY <1>1 DEF Children, Issues
  <1>8. Epics(tables) = IF DOMAIN jira = {} THEN {} ELSE {"epic"}
    BY <1>1, <1>2 DEF Epics, Issues
  <1> QED
    BY <1>2, <1>3, <1>6, <1>7, <1>8

\* All the ticks of a kind of the issues: finitely many.
LEMMA TicksOfAll ==
    ASSUME TypeInv, HistoryInv, NEW S
    PROVE  LET all == UNION {Came(i, S) : i \in DOMAIN jira}
           IN  all \in SUBSET Nat /\ all \in SUBSET Int /\ IsFiniteSet(all)
  <1> DEFINE all == UNION {Came(i, S) : i \in DOMAIN jira}
  <1>1. now \in Nat
    BY WorldTypes
  <1>2. all \subseteq 0 .. now
    <2>1. ASSUME NEW i \in DOMAIN jira
          PROVE  Came(i, S) \subseteq 0 .. now
      <3>1. jira[i].created \in Nat /\ now \in Nat
        BY StatusesAreTold
      <3> QED
        BY <3>1 DEF Came, After
    <2> QED
      BY <2>1
  <1>3. IsFiniteSet(0 .. now)
    BY <1>1, FS_Interval
  <1> HIDE DEF all
  <1>4. IsFiniteSet(all)
    BY <1>2, <1>3, FS_Subset
  <1>5. all \in SUBSET Nat /\ all \in SUBSET Int
    BY <1>1, <1>2
  <1> QED
    BY <1>4, <1>5 DEF all

\* The earliest of the earliest, and the latest of the latest.
LEMMA ExtremaOfAll ==
    ASSUME TypeInv, HistoryInv, NEW S, UNION {Came(i, S) : i \in DOMAIN jira} # {}
    PROVE  LET first == {EarliestOf(Came(i, S)) : i \in DOMAIN jira} \ {Nothing}
               last == {LatestOf(Came(i, S)) : i \in DOMAIN jira} \ {Nothing}
               all == UNION {Came(i, S) : i \in DOMAIN jira}
           IN  /\ Min(first) = Min(all) /\ Max(last) = Max(all)
               /\ Min(all) \in all /\ \A k \in all : Min(all) <= k
               /\ Max(all) \in all /\ \A k \in all : k <= Max(all)
  <1> DEFINE first == {EarliestOf(Came(i, S)) : i \in DOMAIN jira} \ {Nothing}
             last == {LatestOf(Came(i, S)) : i \in DOMAIN jira} \ {Nothing}
             all == UNION {Came(i, S) : i \in DOMAIN jira}
  <1>1. all \in SUBSET Nat /\ all \in SUBSET Int /\ IsFiniteSet(all)
    BY TicksOfAll
  <1>2. Nothing \notin Nat
    BY ReportsAssumption
  <1>3. ASSUME NEW i \in DOMAIN jira, Came(i, S) # {}
        PROVE  /\ Min(Came(i, S)) \in Came(i, S) /\ \A k \in Came(i, S) : Min(Came(i, S)) <= k
               /\ Max(Came(i, S)) \in Came(i, S) /\ \A k \in Came(i, S) : k <= Max(Came(i, S))
    <2>1. Came(i, S) \in SUBSET Nat /\ Came(i, S) \in SUBSET Int /\ IsFiniteSet(Came(i, S))
      BY <1>1, FS_Subset
    <2> QED
      BY <1>3, <2>1, MinIsLeast, MaxIsGreatest
  <1>4. first \subseteq all
    BY <1>3 DEF EarliestOf
  <1>5. last \subseteq all
    BY <1>3 DEF LatestOf
  <1>6. \A k \in all : \E f \in first : f <= k
    <2> TAKE k \in all
    <2>1. PICK i \in DOMAIN jira : k \in Came(i, S)
      OBVIOUS
    <2>2. EarliestOf(Came(i, S)) = Min(Came(i, S))
      BY <2>1 DEF EarliestOf
    <2>3. Min(Came(i, S)) \in all /\ Min(Came(i, S)) <= k
      BY <1>3, <2>1
    <2>4. Min(Came(i, S)) \in first
      BY <1>1, <1>2, <2>2, <2>3
    <2> QED
      BY <2>3, <2>4
  <1>7. \A k \in all : \E f \in last : k <= f
    <2> TAKE k \in all
    <2>1. PICK i \in DOMAIN jira : k \in Came(i, S)
      OBVIOUS
    <2>2. LatestOf(Came(i, S)) = Max(Came(i, S))
      BY <2>1 DEF LatestOf
    <2>3. Max(Came(i, S)) \in all /\ k <= Max(Came(i, S))
      BY <1>3, <2>1
    <2>4. Max(Came(i, S)) \in last
      BY <1>1, <1>2, <2>2, <2>3
    <2> QED
      BY <2>3, <2>4
  <1> HIDE DEF first, last, all
  <1>8. all # {}
    BY DEF all
  <1>9. first # {} /\ last # {} /\ first \in SUBSET Nat /\ last \in SUBSET Int /\ IsFiniteSet(last)
    <2>1. IsFiniteSet(last)
      BY <1>1, <1>5, FS_Subset
    <2> QED
      BY <1>8, <1>1, <1>4, <1>5, <1>6, <1>7, <2>1
  <1> DEFINE m == Min(all)
             n == Min(first)
             p == Max(all)
             q == Max(last)
  <1>10. m \in all /\ \A k \in all : m <= k
    BY <1>8, <1>1, MinIsLeast
  <1>11. n \in first /\ \A k \in first : n <= k
    BY <1>9, MinIsLeast
  <1>12. p \in all /\ \A k \in all : k <= p
    BY <1>8, <1>1, MaxIsGreatest
  <1>13. q \in last /\ \A k \in last : k <= q
    BY <1>9, MaxIsGreatest
  <1> HIDE DEF m, n, p, q
  <1>14. m = n
    <2>1. PICK f \in first : f <= m
      BY <1>6, <1>10
    <2>2. m <= n /\ n <= f
      BY <1>4, <1>10, <1>11
    <2>3. m \in Nat /\ n \in Nat /\ f \in Nat
      BY <1>1, <1>4, <1>10, <1>11
    <2> QED
      BY <2>1, <2>2, <2>3
  <1>15. p = q
    <2>1. PICK f \in last : p <= f
      BY <1>7, <1>12
    <2>2. q <= p /\ f <= q
      BY <1>5, <1>12, <1>13
    <2>3. p \in Nat /\ q \in Nat /\ f \in Nat
      BY <1>1, <1>5, <1>12, <1>13
    <2> QED
      BY <2>1, <2>2, <2>3
  <1> QED
    BY <1>10, <1>12, <1>14, <1>15 DEF m, n, p, q, first, last, all

\* Days are not negative when the times are in order.
LEMMA DaysInOrder ==
    ASSUME NEW from \in Nat, NEW to \in Nat, from <= to
    PROVE  DaysBetween(from, to) >= 0
  <1> DEFINE n == to - from + PerDay - 1
  <1>1. n \in Nat /\ PerDay \in Nat \ {0}
    BY CalendarAssumption
  <1> HIDE DEF n
  <1>2. n \div PerDay >= 0
    BY <1>1
  <1> QED
    BY <1>2 DEF DaysBetween, n

\* Where no issue was reopened an epic is delivered when all its issues are done, and took
\* from the first start of one to the last completion (cycle_time_ext.py). The end statuses
\* by the names of the columns are the done ones.
THEOREM EpicsAreDelivered ==
    ASSUME ByName.end = Done
    PROVE  Spec => []EpicIsDeliveredWhenAllAreDone
  <1> DEFINE started == UNION {Came(i, ByName.start) : i \in DOMAIN jira}
             finished == UNION {Came(i, ByName.end) : i \in DOMAIN jira}
             closed == {e \in Epics(tables) : \A i \in Children(tables, e) :
                            Finished(tables, i, ByName) # Nothing}
             begun == {e \in closed : \E i \in Children(tables, e) :
                            Started(tables, i, ByName) # Nothing}
             spans == EpicSpan(tables, ByName, closed)
             epics == calculate_epic_delivery_time(tables, ByName)
             done == \A i \in DOMAIN jira : IsDone(jira[i].status)
  <1>1. ASSUME TypeInv, HistoryInv, \A i \in DOMAIN jira : ~Reopened(i)
        PROVE  IF done /\ started # {}
               THEN epics = [e \in {"epic"} |-> Span(Min(started), Max(finished))]
               ELSE epics = <<>>
    <2>1. ASSUME NEW i \in DOMAIN jira
          PROVE  IsDone(jira[i].status) <=> Came(i, Done) # {}
      <3>1. /\ jira[i].created \in Nat /\ now \in Life(i) /\ now \in Nat
            /\ StatusAt(i, now) = jira[i].status /\ StatusAt(i, now) \in Statuses
            /\ Life(i) = jira[i].created .. now /\ After(i) = (jira[i].created + 1) .. now
        BY <1>1, StatusesAreTold DEF Life, After
      <3>2. ASSUME IsDone(jira[i].status)
            PROVE  Came(i, Done) # {}
        <4>1. StatusAt(i, now) \in Done
          BY <3>1, <3>2 DEF Done
        <4> QED
          BY <1>1, <3>1, <4>1, DoneIsReached
      <3>3. ASSUME NEW k \in Came(i, Done), ~IsDone(jira[i].status)
            PROVE  FALSE
        <4>1. k \in After(i) /\ StatusAt(i, k) \in Done
          BY DEF Came
        <4>2. StatusAt(i, now) \notin Done /\ k \in Life(i) /\ k <= now
          BY <3>1, <3>3, <4>1 DEF Done
        <4>3. Left(i, Done) # {}
          BY <1>1, <3>1, <4>1, <4>2, LeavesBetween
        <4> QED
          BY <1>1, <4>3 DEF Reopened
      <3> QED
        BY <3>2, <3>3
    <2>2. /\ "epic" # Nothing /\ Children(tables, "epic") = DOMAIN jira
          /\ Epics(tables) = IF DOMAIN jira = {} THEN {} ELSE {"epic"}
          /\ ByName.start \in SUBSET Statuses
          /\ \A i \in DOMAIN jira :
                /\ Started(tables, i, ByName) = EarliestOf(Came(i, ByName.start))
                /\ Finished(tables, i, ByName) = LatestOf(Came(i, Done))
      BY <1>1, ChildrenOfTheEpic
    <2>3. started \in SUBSET Nat /\ finished \in SUBSET Nat
      BY <1>1, TicksOfAll
    <2>4. ASSUME NEW i \in DOMAIN jira
          PROVE  /\ Started(tables, i, ByName) # Nothing <=> Came(i, ByName.start) # {}
                 /\ Finished(tables, i, ByName) # Nothing <=> Came(i, Done) # {}
      <3>1. Nothing \notin Nat
        BY ReportsAssumption
      <3>2. /\ Came(i, ByName.start) \in SUBSET Nat
            /\ Came(i, Done) \in SUBSET Int /\ Came(i, Done) \in SUBSET Nat /\ IsFiniteSet(Came(i, Done))
        <4>1. Came(i, ByName.start) \in SUBSET After(i) /\ Came(i, Done) \in SUBSET After(i)
          BY <1>1, TicksAreFinite
        <4> QED
          BY <1>1, <4>1, TicksAreFinite
      <3>3. Came(i, ByName.start) # {} => Min(Came(i, ByName.start)) \in Nat
        BY <3>2, MinIsLeast
      <3>4. Came(i, Done) # {} => Max(Came(i, Done)) \in Nat
        BY <3>2, MaxIsGreatest
      <3> QED
        BY <2>2, <3>1, <3>3, <3>4 DEF EarliestOf, LatestOf
    <2>5. begun = IF done /\ started # {} THEN {"epic"} ELSE {}
      <3>1. closed = IF done /\ DOMAIN jira # {} THEN {"epic"} ELSE {}
        BY <2>1, <2>2, <2>4
      <3> HIDE DEF closed
      <3> QED
        BY <2>2, <2>4, <3>1
    <2>6. DOMAIN spans = begun
      BY DEF EpicSpan
    <2>7. CASE ~(done /\ started # {})
      <3>1. DOMAIN spans = {}
        BY <2>5, <2>6, <2>7
      <3> HIDE DEF spans
      <3>2. epics = [e \in {e \in DOMAIN spans : spans[e].days >= 0} |-> spans[e]]
        BY DEF calculate_epic_delivery_time, spans
      <3>3. {e \in DOMAIN spans : spans[e].days >= 0} = {}
        BY <3>1
      <3>4. epics = <<>>
        BY <3>2, <3>3
      <3> QED
        BY <2>7, <3>4
    <2>8. CASE done /\ started # {}
      <3> DEFINE m == Min(started)
                 p == Max(finished)
      <3>1. started # {} /\ finished # {} /\ done
        <4>1. PICK i \in DOMAIN jira : Came(i, ByName.start) # {}
          BY <2>8
        <4>2. Came(i, ByName.end) # {}
          BY <2>1, <2>8
        <4> QED
          BY <2>8, <4>2
      <3>2. /\ Min({EarliestOf(Came(i, ByName.start)) : i \in DOMAIN jira} \ {Nothing}) = m
            /\ m \in started /\ \A k \in started : m <= k
        BY <1>1, <3>1, ExtremaOfAll
      <3>3. /\ Max({LatestOf(Came(i, ByName.end)) : i \in DOMAIN jira} \ {Nothing}) = p
            /\ p \in finished /\ \A k \in finished : k <= p
        BY <1>1, <3>1, ExtremaOfAll
      <3>4. {Started(tables, i, ByName) : i \in Children(tables, "epic")} =
                {EarliestOf(Came(i, ByName.start)) : i \in DOMAIN jira}
        BY <2>2
      <3>5. {Finished(tables, i, ByName) : i \in Children(tables, "epic")} =
                {LatestOf(Came(i, ByName.end)) : i \in DOMAIN jira}
        BY <2>2
      <3>6. spans = [e \in {"epic"} |-> Span(m, p)]
        <4>1. begun = {"epic"}
          BY <2>5, <2>8
        <4>2. spans = [e \in begun |-> Span(
                Min({Started(tables, i, ByName) : i \in Children(tables, e)} \ {Nothing}),
                Max({Finished(tables, i, ByName) : i \in Children(tables, e)} \ {Nothing}))]
          BY DEF EpicSpan
        <4>3. \A e \in begun :
                /\ Min({Started(tables, i, ByName) : i \in Children(tables, e)} \ {Nothing}) = m
                /\ Max({Finished(tables, i, ByName) : i \in Children(tables, e)} \ {Nothing}) = p
          BY <3>2, <3>3, <3>4, <3>5, <4>1
        <4> HIDE DEF spans, begun, m, p
        <4> QED
          BY <4>1, <4>2, <4>3
      <3>7. m <= p
        <4>1. PICK i \in DOMAIN jira : m \in Came(i, ByName.start)
          BY <3>2
        <4>2. \E k \in Came(i, Done) : m <= k
          <5> HIDE DEF m
          <5>1. m \in After(i) /\ StatusAt(i, m) \in ByName.start
                /\ StatusAt(i, m) # StatusAt(i, m - 1)
            BY <4>1 DEF Came
          <5>2. /\ jira[i].created \in Nat /\ now \in Life(i) /\ now \in Nat
                /\ StatusAt(i, now) = jira[i].status
                /\ Life(i) = jira[i].created .. now /\ After(i) = (jira[i].created + 1) .. now
            BY <1>1, StatusesAreTold DEF Life, After
          <5>3. m \in Life(i) /\ m <= now /\ m \in Nat
            BY <5>1, <5>2
          <5>4. CASE StatusAt(i, m) \in Done
            BY <5>1, <5>3, <5>4 DEF Came
          <5>5. CASE StatusAt(i, m) \notin Done
            <6>1. StatusAt(i, m) \in Statuses \ Done /\ StatusAt(i, now) \notin Statuses \ Done
              <7>1. StatusAt(i, now) \in Statuses
                BY <1>1, <5>2, StatusesAreTold
              <7> QED
                BY <2>2, <3>1, <5>1, <5>2, <5>5, <7>1 DEF Done
            <6>2. PICK n \in Left(i, Statuses \ Done) : m < n /\ n <= now
              BY <1>1, <5>2, <5>3, <6>1, LeavesBetween
            <6>3. n \in After(i) /\ StatusAt(i, n) \notin Statuses \ Done
                  /\ StatusAt(i, n - 1) \in Statuses \ Done
              BY <6>2 DEF Left
            <6>4. n \in Life(i) /\ n \in Nat
              BY <5>2, <6>3
            <6>5. StatusAt(i, n) \in Done
              BY <1>1, <6>3, <6>4, StatusesAreTold
            <6>6. n \in Came(i, Done)
              BY <6>3, <6>5 DEF Came
            <6> QED
              BY <5>3, <6>2, <6>4, <6>6
          <5> QED
            BY <5>4, <5>5
        <4>3. PICK k \in Came(i, Done) : m <= k
          BY <4>2
        <4>4. k \in finished /\ m \in Nat
          BY <2>3, <3>2
        <4>5. k <= p /\ p \in Nat /\ k \in Nat
          BY <2>3, <3>3, <4>4
        <4> HIDE DEF m, p
        <4> QED
          BY <4>3, <4>4, <4>5
      <3>8. Span(m, p).days >= 0
        <4>1. m \in Nat /\ p \in Nat
          BY <2>3, <3>2, <3>3
        <4> HIDE DEF m, p
        <4>2. DaysBetween(m, p) >= 0
          BY <3>7, <4>1, DaysInOrder
        <4> QED
          BY <4>2 DEF Span
      <3> HIDE DEF m, p, spans
      <3>9. epics = [e \in {e \in DOMAIN spans : spans[e].days >= 0} |-> spans[e]]
        BY DEF calculate_epic_delivery_time, spans
      <3>10. {e \in DOMAIN spans : spans[e].days >= 0} = {"epic"}
        BY <3>6, <3>8
      <3>11. epics = [e \in {"epic"} |-> Span(m, p)]
        <4> HIDE DEF epics
        <4> QED
          BY <3>6, <3>9, <3>10
      <3> QED
        BY <2>8, <3>11 DEF m, p
    <2> QED
      BY <2>7, <2>8
  <1>2. TypeInv /\ HistoryInv => EpicIsDeliveredWhenAllAreDone
    BY <1>1 DEF EpicIsDeliveredWhenAllAreDone
  <1> QED
    BY <1>2, ReportsCorrect, PTL

-----------------------------------------------------------------------------
\* The rules, in every state.

\* Every rule that is saved names columns of the board, and a scope has one: the cache and the
\* query resolve the same rule at any time (commitment_resolver.py).
THEOREM RulesResolveAlike ==
    ASSUME \A span \in RuleSpans : {span[1], span[2]} \subseteq {c.id : c \in Board}
    PROVE  Spec => [](resolve_rule_from_cache(rules, "project", "board")
                        = resolve_commitment_columns(rules, Board, "project", "board"))
  <1>1. ASSUME TypeInv
        PROVE  resolve_rule_from_cache(rules, "project", "board")
                 = resolve_commitment_columns(rules, Board, "project", "board")
    <2>1. "project" # Nothing /\ "board" # Nothing
      BY ReportsAssumption
    <2>2. OneRulePerScope(rules)
      BY <1>1 DEF TypeInv, OneRulePerScope
    <2>3. NamesColumns(rules, Board)
      <3>1. \A r \in rules : r \in RuleType
        BY <1>1 DEF TypeInv
      <3>2. \A r \in rules : {r.start, r.end} \subseteq {c.id : c \in Board}
        BY <3>1 DEF RuleType
      <3> QED
        BY <3>2 DEF NamesColumns
    <2> QED
      BY <2>1, <2>2, <2>3, ResolversAgree
  <1> QED
    BY <1>1, ReportsCorrect, PTL

-----------------------------------------------------------------------------
\* Counting rows.

\* There are finitely many issues: a step creates at most one.
LEMMA IssuesAreFinite == Spec => []IsFiniteSet(DOMAIN jira)
  <1>1. Init => IsFiniteSet(DOMAIN jira)
    <2> SUFFICES ASSUME Init PROVE IsFiniteSet(DOMAIN jira)
      OBVIOUS
    <2>1. DOMAIN jira = {}
      BY DEF Init
    <2> QED
      BY <2>1, FS_EmptySet
  <1>2. IsFiniteSet(DOMAIN jira) /\ [Next]_vars => IsFiniteSet(DOMAIN jira)'
    <2> SUFFICES ASSUME IsFiniteSet(DOMAIN jira), [Next]_vars
                 PROVE  IsFiniteSet(DOMAIN jira')
      OBVIOUS
    <2>1. ASSUME NEW i \in DOMAIN jira, NEW old, NEW issue, Change(i, old, issue)
          PROVE  DOMAIN jira' = DOMAIN jira
      BY <2>1 DEF Change
    <2>2. CASE Tick
      BY <2>2 DEF Tick
    <2>3. CASE \E i \in world.issues, planned \in BOOLEAN, points \in Estimates \cup {Nothing} :
                   CreateIssue(i, planned, points)
      <3>1. PICK i : DOMAIN jira' = DOMAIN jira \cup {i}
        BY <2>3 DEF CreateIssue
      <3> QED
        BY <3>1, FS_AddElement
    <2>4. CASE \E i \in DOMAIN jira : \/ \E s \in Statuses : MoveIssue(i, s)
                                      \/ PlanIssue(i)
                                      \/ \E p \in Estimates \cup {Nothing} : EstimateIssue(i, p)
      <3>1. DOMAIN jira' = DOMAIN jira
        BY <2>1, <2>4 DEF MoveIssue, PlanIssue, EstimateIssue
      <3> QED
        BY <3>1
    <2>5. CASE \E r \in Rules : SaveRule([project |-> r.project, board |-> r.board,
                                          start |-> r.span[1], end |-> r.span[2]])
      BY <2>5 DEF SaveRule
    <2>6. CASE UNCHANGED vars
      BY <2>6 DEF vars
    <2> QED
      BY <2>2, <2>3, <2>4, <2>5, <2>6 DEF Next
  <1> QED
    BY <1>1, <1>2, PTL DEF Spec

\* Rows that tell an issue and a time are as many as the pairs they tell.
LEMMA RowsArePairs ==
    ASSUME NEW S, NEW T, IsFiniteSet(T),
           \A r \in S : <<r.issue, r.at>> \in T,
           \A r, s \in S : r.issue = s.issue /\ r.at = s.at => r = s,
           \A p \in T : \E r \in S : p = <<r.issue, r.at>>
    PROVE  Cardinality(S) = Cardinality(T)
  <1> DEFINE f == [r \in S |-> <<r.issue, r.at>>]
  <1>1. f \in [S -> T]
    OBVIOUS
  <1>2. \A r, s \in S : f[r] = f[s] => r = s
    OBVIOUS
  <1>3. \A p \in T : \E r \in S : f[r] = p
    OBVIOUS
  <1> HIDE DEF f
  <1>4. f \in Bijection(S, T)
    BY <1>1, <1>2, <1>3, Fun_IsBij
  <1>5. ExistsBijection(S, T)
    BY <1>4 DEF ExistsBijection
  <1>6. ExistsBijection(T, S)
    BY <1>5, Fun_ExistsBijSymmetric
  <1> QED
    BY <1>6, FS_Bijection

\* Pairs of an issue and a tick are finitely many.
LEMMA PairsAreFinite ==
    ASSUME TypeInv, IsFiniteSet(DOMAIN jira), NEW T \in SUBSET ((DOMAIN jira) \X (0 .. now))
    PROVE  IsFiniteSet(T)
  <1>1. IsFiniteSet(0 .. now)
    BY WorldTypes, FS_Interval
  <1>2. IsFiniteSet((DOMAIN jira) \X (0 .. now))
    BY <1>1, FS_Product
  <1> QED
    BY <1>2, FS_Subset

\* The log as a whole: one row for each tick at which an issue moved.
LEMMA LogOfAll ==
    ASSUME TypeInv, HistoryInv
    PROVE  /\ \A r \in tables.status_changelog : r.issue \in DOMAIN jira
                    /\ r \in ChangesOf(tables, r.issue) /\ r.at \in Came(r.issue, Statuses)
           /\ \A r, s \in tables.status_changelog : r.issue = s.issue /\ r.at = s.at => r = s
           /\ \A i \in DOMAIN jira : \A k \in Came(i, Statuses) :
                    \E r \in tables.status_changelog : r.issue = i /\ r.at = k
  <1>1. \A r \in tables.status_changelog : \E i \in DOMAIN jira : r.issue = i
    <2>1. Loadable(jira) /\ tables = TablesOf(world, jira, now)
      BY JiraIsLoadable
    <2> SUFFICES ASSUME NEW r \in TablesOf(world, jira, now).status_changelog
                 PROVE  \E i \in DOMAIN jira : r.issue = i
      BY <2>1
    <2>2. \E i \in DOMAIN jira : \E c \in jira[i].changes : r = Logged(world, jira, i, c)
      BY <2>1, ChangelogIsTheHistory
    <2> QED
      BY <2>2 DEF Logged
  <1>2. \A r \in tables.status_changelog : r \in ChangesOf(tables, r.issue)
    BY DEF ChangesOf
  <1>3. ASSUME NEW i \in DOMAIN jira
        PROVE  Times(ChangesOf(tables, i)) = Came(i, Statuses)
    <2>1. Statuses \in SUBSET Statuses
      OBVIOUS
    <2> QED
      BY <2>1, LogTellsTheMoves
  <1>4. \A r \in tables.status_changelog : r.at \in Came(r.issue, Statuses)
    BY <1>1, <1>2, <1>3 DEF Times
  <1>5. ASSUME NEW r \in tables.status_changelog, NEW s \in tables.status_changelog,
               r.issue = s.issue, r.at = s.at
        PROVE  r = s
    <2>1. PICK i \in DOMAIN jira : r.issue = i
      BY <1>1
    <2>2. r \in ChangesOf(tables, i) /\ s \in ChangesOf(tables, i)
      BY <1>5, <2>1 DEF ChangesOf
    <2>3. PICK c \in jira[i].changes : r = Logged(world, jira, i, c)
      BY <2>2, LogOfAnIssue
    <2>4. PICK d \in jira[i].changes : s = Logged(world, jira, i, d)
      BY <2>2, LogOfAnIssue
    <2>5. c.at = d.at
      BY <1>5, <2>3, <2>4, LogOfAnIssue
    <2>6. c = d
      BY <2>5, StatusesAreTold
    <2> QED
      BY <2>3, <2>4, <2>6
  <1>6. ASSUME NEW i \in DOMAIN jira, NEW k \in Came(i, Statuses)
        PROVE  \E r \in tables.status_changelog : r.issue = i /\ r.at = k
    BY <1>3 DEF Times, ChangesOf
  <1> QED
    BY <1>1, <1>2, <1>4, <1>5, <1>6

\* An issue has a row for the sprint if it was ever planned.
LEMMA RowsOfTheSprint ==
    ASSUME TypeInv, HistoryInv
    PROVE  tables.sprint_issues = {i \in DOMAIN jira : \E k \in Life(i) : PlannedAt(i, k)}
  <1>1. ASSUME NEW i \in DOMAIN jira
        PROVE  SprintEvents(i) # {} <=> \E k \in Life(i) : PlannedAt(i, k)
    <2> DEFINE b == jira[i].created
               v == SprintsOf(i)
    <2>1. b \in Nat /\ now \in Nat /\ b \in Life(i) /\ now \in Life(i) /\ Life(i) = b .. now
          /\ After(i) = (b + 1) .. now /\ Life(i) \subseteq 0 .. now
      BY StatusesAreTold DEF Life, After
    <2>2. /\ Tells(jira[i].moves, v, b, now) /\ v[now] = jira[i].sprints
          /\ \A k \in Life(i) : v[k] \in {{}, {"sprint"}}
          /\ \A k \in 0 .. now : PlannedAt(i, k) <=> k \in Life(i) /\ v[k] = {"sprint"}
          /\ \A m \in jira[i].moves : m.from \in {{}, {"sprint"}} /\ m.to \in {{}, {"sprint"}}
          /\ \A m \in jira[i].moves : m.from # m.to /\ m.at \in After(i)
      BY MovesAreTold
    <2> HIDE DEF v
    <2>3. \A k \in Life(i) : PlannedAt(i, k) <=> v[k] = {"sprint"}
      BY <2>1, <2>2
    <2>4. CASE jira[i].moves # {}
      <3>1. PICK m \in jira[i].moves : TRUE
        BY <2>4
      <3>2. SprintEvents(i) # {}
        BY <3>1 DEF SprintEvents
      <3>3. m.at \in Life(i) /\ m.at - 1 \in Life(i)
        BY <2>1, <2>2
      <3>4. m.from = v[m.at - 1] /\ m.to = v[m.at]
        BY <2>2 DEF Tells
      <3>5. m.from = {"sprint"} \/ m.to = {"sprint"}
        BY <2>2
      <3> QED
        BY <2>3, <3>2, <3>3, <3>4, <3>5
    <2>5. CASE jira[i].moves = {}
      <3>1. SprintEvents(i) # {} <=> jira[i].sprints # {}
        BY <2>5 DEF SprintEvents
      <3>2. \A k \in Life(i) : v[k] = v[now]
        <4> SUFFICES ASSUME NEW k \in Life(i)
                     PROVE  v[k] = v[now]
          OBVIOUS
        <4>1. k \in b .. now /\ now \in b .. now /\ k <= now
          BY <2>1
        <4>2. Quiet(jira[i].moves, k, now)
          BY <2>5 DEF Quiet
        <4> QED
          BY <2>1, <2>2, <4>1, <4>2, TellsConstant
      <3>3. v[now] = {"sprint"} <=> jira[i].sprints # {}
        BY <2>1, <2>2
      <3> QED
        BY <2>1, <2>3, <3>1, <3>2, <3>3
    <2> QED
      BY <2>4, <2>5
  <1> QED
    BY <1>1, SprintLog

\* The issues that were ever planned, and their moves during the sprint.
Ever == {i \in DOMAIN jira : \E k \in Life(i) : PlannedAt(i, k)}
Moves == UNION {{<<i, k>> : k \in Came(i, Statuses) \cap Window} : i \in Ever}
Revisions == UNION {{<<i, k>> : k \in {k \in After(i) \cap Window :
                        PointsAt(i, k) # PointsAt(i, k - 1)}} : i \in Ever}

\* The changes in the sprint that the log has are those moves.
LEMMA ChangesAreMoves ==
    ASSUME TypeInv, HistoryInv
    PROVE  /\ \A r \in ChangesInSprint(tables) :
                /\ <<r.issue, r.at>> \in Moves /\ r.issue \in DOMAIN jira
                /\ r \in ChangesOf(tables, r.issue) /\ r.at \in Came(r.issue, Statuses)
           /\ \A p \in Moves : \E r \in ChangesInSprint(tables) : p = <<r.issue, r.at>>
           /\ \A r, s \in ChangesInSprint(tables) : r.issue = s.issue /\ r.at = s.at => r = s
           /\ Moves \in SUBSET ((DOMAIN jira) \X (0 .. now))
  <1>1. Start(tables) = Start0 /\ End(tables) = End0 /\ Start0 \in Nat /\ End0 \in Nat
    BY SprintLog, ReportsAssumption DEF Start, End, Start0, End0, TypeInv
  <1>2. tables.sprint_issues = Ever
    BY RowsOfTheSprint DEF Ever
  <1>3. ASSUME NEW i \in DOMAIN jira, NEW k \in After(i)
        PROVE  /\ k \in Nat /\ k \in 0 .. now
               /\ InSprint(tables, k) <=> k \in Window
    <2>1. jira[i].created \in Nat /\ now \in Nat
      BY StatusesAreTold
    <2>2. k \in Nat /\ k \in 0 .. now
      BY <2>1 DEF After
    <2> QED
      BY <1>1, <2>2 DEF InSprint, Window
  <1>4. \A i \in DOMAIN jira : Came(i, Statuses) \subseteq After(i)
    BY DEF Came
  <1>5. \A p : p \in Moves <=> \E i \in Ever : \E k \in Came(i, Statuses) \cap Window : p = <<i, k>>
    BY DEF Moves
  <1>6. \A r : r \in ChangesInSprint(tables) <=>
            r \in tables.status_changelog /\ InSprint(tables, r.at) /\ r.issue \in Ever
    BY <1>2 DEF ChangesInSprint
  <1>7. Ever \subseteq DOMAIN jira
    BY DEF Ever
  <1>8. ASSUME NEW r \in ChangesInSprint(tables)
        PROVE  /\ <<r.issue, r.at>> \in Moves /\ r.issue \in DOMAIN jira
               /\ r \in ChangesOf(tables, r.issue) /\ r.at \in Came(r.issue, Statuses)
    <2>1. r.issue \in DOMAIN jira /\ r \in ChangesOf(tables, r.issue) /\ r.at \in Came(r.issue, Statuses)
      BY <1>6, LogOfAll
    <2> QED
      BY <1>3, <1>4, <1>5, <1>6, <2>1
  <1>9. ASSUME NEW p \in Moves
        PROVE  \E r \in ChangesInSprint(tables) : p = <<r.issue, r.at>>
    <2>1. PICK i \in Ever : \E k \in Came(i, Statuses) \cap Window : p = <<i, k>>
      BY <1>5
    <2>2. PICK k \in Came(i, Statuses) \cap Window : p = <<i, k>>
      BY <2>1
    <2>3. PICK r \in tables.status_changelog : r.issue = i /\ r.at = k
      BY <1>7, LogOfAll
    <2> QED
      BY <1>3, <1>4, <1>6, <1>7, <2>2, <2>3
  <1>10. \A r, s \in ChangesInSprint(tables) : r.issue = s.issue /\ r.at = s.at => r = s
    BY <1>6, LogOfAll
  <1>11. Moves \in SUBSET ((DOMAIN jira) \X (0 .. now))
    BY <1>3, <1>4, <1>5, <1>7
  <1> QED
    BY <1>8, <1>9, <1>10, <1>11

\* The changes of estimates in the sprint are the ticks at which an estimate changed.
LEMMA EstimatesAreRevisions ==
    ASSUME TypeInv, HistoryInv, IsFiniteSet(DOMAIN jira)
    PROVE  calculate_field_change_count(tables) = Cardinality(Revisions)
  <1> DEFINE rows == {c \in tables.points_changelog :
                        InSprint(tables, c.at) /\ c.issue \in tables.sprint_issues}
             row(j, c) == [issue |-> j, old |-> c.from, new |-> c.to, at |-> c.at]
             log == UNION {{row(j, c) : c \in jira[j].pointChanges} : j \in DOMAIN jira}
  <1>1. Start(tables) = Start0 /\ End(tables) = End0 /\ Start0 \in Nat /\ End0 \in Nat
    BY SprintLog, ReportsAssumption DEF Start, End, Start0, End0, TypeInv
  <1>2. tables.sprint_issues = Ever
    BY RowsOfTheSprint DEF Ever
  <1>3. ASSUME NEW i \in DOMAIN jira, NEW k \in After(i)
        PROVE  /\ k \in 0 .. now /\ k \in Life(i) /\ k - 1 \in Life(i)
               /\ InSprint(tables, k) <=> k \in Window
    <2>1. jira[i].created \in Nat /\ now \in Nat
      BY StatusesAreTold
    <2>2. k \in Nat /\ k \in 0 .. now /\ k \in Life(i) /\ k - 1 \in Life(i)
      BY <2>1 DEF After, Life
    <2> QED
      BY <1>1, <2>2 DEF InSprint, Window
  <1>4. tables.points_changelog = log
    BY DEF TypeInv, TablesOf
  <1>5. \A j, c : row(j, c).issue = j /\ row(j, c).at = c.at
    OBVIOUS
  <1>6. \A r : r \in log <=> \E j \in DOMAIN jira : \E c \in jira[j].pointChanges : r = row(j, c)
    OBVIOUS
  <1>7. \A i \in DOMAIN jira : \A c, d \in jira[i].pointChanges : c.at = d.at => row(i, c) = row(i, d)
    BY EstimatesAreTold DEF Tells
  <1>8. ASSUME NEW i \in DOMAIN jira
        PROVE  /\ \A c \in jira[i].pointChanges :
                    c.at \in After(i) /\ PointsAt(i, c.at) # PointsAt(i, c.at - 1)
               /\ \A k \in After(i) : PointsAt(i, k) # PointsAt(i, k - 1) =>
                    \E c \in jira[i].pointChanges : c.at = k
    <2>1. /\ Tells(jira[i].pointChanges, PointsOf(i), jira[i].created, now)
          /\ \A k \in Life(i) : PointsAt(i, k) = PointsOf(i)[k]
          /\ \A c \in jira[i].pointChanges : c.at \in After(i)
      BY EstimatesAreTold
    <2>2. \A k \in After(i) : PointsAt(i, k) = PointsOf(i)[k] /\ PointsAt(i, k - 1) = PointsOf(i)[k - 1]
      BY <1>3, <2>1
    <2> QED
      BY <2>1, <2>2 DEF Tells, After
  <1> HIDE DEF row, log
  <1>9. \A p : p \in Revisions <=> \E i \in Ever : \E k \in After(i) \cap Window :
                    p = <<i, k>> /\ PointsAt(i, k) # PointsAt(i, k - 1)
    BY DEF Revisions
  <1>10. Ever \subseteq DOMAIN jira
    BY DEF Ever
  <1>11. \A r : r \in rows <=> r \in log /\ InSprint(tables, r.at) /\ r.issue \in Ever
    BY <1>2, <1>4
  <1> HIDE DEF rows
  <1>12. ASSUME NEW r \in rows
         PROVE  <<r.issue, r.at>> \in Revisions
    <2>1. PICK j \in DOMAIN jira : \E c \in jira[j].pointChanges : r = row(j, c)
      BY <1>6, <1>11
    <2>2. PICK c \in jira[j].pointChanges : r = row(j, c)
      BY <2>1
    <2>3. r.issue = j /\ r.at = c.at
      BY <1>5, <2>2
    <2>4. r.at \in After(j) /\ PointsAt(j, r.at) # PointsAt(j, r.at - 1)
      BY <1>8, <2>3
    <2>5. j \in Ever /\ r.at \in Window
      BY <1>3, <1>11, <2>3, <2>4
    <2> QED
      BY <1>9, <2>3, <2>4, <2>5
  <1>13. ASSUME NEW p \in Revisions
         PROVE  \E r \in rows : p = <<r.issue, r.at>>
    <2>1. PICK i \in Ever : \E k \in After(i) \cap Window :
                    p = <<i, k>> /\ PointsAt(i, k) # PointsAt(i, k - 1)
      BY <1>9
    <2>2. PICK k \in After(i) \cap Window : p = <<i, k>> /\ PointsAt(i, k) # PointsAt(i, k - 1)
      BY <2>1
    <2>3. PICK c \in jira[i].pointChanges : c.at = k
      BY <1>8, <1>10, <2>2
    <2>4. row(i, c).issue = i /\ row(i, c).at = k /\ row(i, c) \in log
      BY <1>5, <1>6, <1>10, <2>3
    <2>5. row(i, c) \in rows
      BY <1>3, <1>10, <1>11, <2>2, <2>4
    <2> QED
      BY <2>2, <2>4, <2>5
  <1>14. ASSUME NEW r \in rows, NEW s \in rows, r.issue = s.issue, r.at = s.at
         PROVE  r = s
    <2>1. PICK j \in DOMAIN jira : \E c \in jira[j].pointChanges : r = row(j, c)
      BY <1>6, <1>11
    <2>2. PICK c \in jira[j].pointChanges : r = row(j, c)
      BY <2>1
    <2>3. PICK m \in DOMAIN jira : \E d \in jira[m].pointChanges : s = row(m, d)
      BY <1>6, <1>11
    <2>4. PICK d \in jira[m].pointChanges : s = row(m, d)
      BY <2>3
    <2>5. j = m /\ c.at = d.at
      BY <1>5, <1>14, <2>2, <2>4
    <2> QED
      BY <1>7, <2>2, <2>4, <2>5
  <1>15. Revisions \in SUBSET ((DOMAIN jira) \X (0 .. now))
    BY <1>3, <1>9, <1>10
  <1>16. IsFiniteSet(Revisions)
    BY <1>15, PairsAreFinite
  <1>17. Cardinality(rows) = Cardinality(Revisions)
    BY <1>12, <1>13, <1>14, <1>16, RowsArePairs
  <1> QED
    BY <1>17 DEF calculate_field_change_count, rows

\* The backward moves, the entries into a status and the changes of a field that are counted
\* for the sprint are those during it, of issues that were ever in it (quality.py,
\* flow_dynamics.py, sprint_health.py). No column of the board is left of that of the initial
\* status: the log may not know from where an issue moved first, and such a move is not
\* counted as a backward one.
THEOREM SprintIsCounted ==
    ASSUME \A c, d \in Board : c.status = Initial => c.position <= d.position
    PROVE  Spec => []SprintCountsAreTrue
  <1> DEFINE back(m) == Position(tables, StatusAt(m[1], m[2]))
                            < Position(tables, StatusAt(m[1], m[2] - 1))
  <1>1. ASSUME TypeInv, HistoryInv, IsFiniteSet(DOMAIN jira)
        PROVE  /\ calculate_backflow_rate(tables).backward = Cardinality({m \in Moves : back(m)})
               /\ \A s \in Statuses : \A d \in 0 .. Day(now) :
                    calculate_daily_status_entry(tables, s, d) = Cardinality(
                        {m \in Moves : StatusAt(m[1], m[2]) = s /\ Day(m[2]) = d})
               /\ calculate_field_change_count(tables) = Cardinality(Revisions)
               /\ \A v \in Estimates : calculate_field_value_sprint_pct(tables, v) =
                    [match |-> Cardinality({i \in Ever : KeptPoints(jira[i]) = v}),
                     total |-> Cardinality(Ever)]
    <2> DEFINE C == ChangesInSprint(tables)
    <2>1. /\ \A r \in C :
                /\ <<r.issue, r.at>> \in Moves /\ r.issue \in DOMAIN jira
                /\ r \in ChangesOf(tables, r.issue) /\ r.at \in Came(r.issue, Statuses)
          /\ \A p \in Moves : \E r \in C : p = <<r.issue, r.at>>
          /\ \A r, s \in C : r.issue = s.issue /\ r.at = s.at => r = s
          /\ Moves \in SUBSET ((DOMAIN jira) \X (0 .. now))
      BY <1>1, ChangesAreMoves
    <2>2. \A T \in SUBSET Moves : IsFiniteSet(T)
      <3> TAKE T \in SUBSET Moves
      <3>1. T \in SUBSET ((DOMAIN jira) \X (0 .. now))
        BY <2>1
      <3> QED
        BY <1>1, <3>1, PairsAreFinite
    <2>3. ASSUME NEW r \in C
          PROVE  /\ r.to = StatusAt(r.issue, r.at) /\ r.to \in Statuses
                 /\ IF StatusAt(r.issue, r.at - 1) \in KnownTo(world, jira)
                    THEN r.from = StatusAt(r.issue, r.at - 1) /\ r.from \in Statuses
                    ELSE r.from = Nothing /\ StatusAt(r.issue, r.at - 1) = Initial
      <3>1. PICK i \in DOMAIN jira : i = r.issue
        BY <2>1
      <3>2. r \in ChangesOf(tables, i)
        BY <2>1, <3>1
      <3>3. /\ r.at \in After(i) /\ r.to = StatusAt(i, r.at) /\ r.to \in Statuses
            /\ r.from = IF StatusAt(i, r.at - 1) \in KnownTo(world, jira)
                        THEN StatusAt(i, r.at - 1) ELSE Nothing
        BY <1>1, <3>2, LogOfAnIssue
      <3>4. r.at - 1 \in Life(i)
        <4>1. jira[i].created \in Nat /\ now \in Nat
          BY <1>1, StatusesAreTold
        <4> QED
          BY <3>3, <4>1 DEF After, Life
      <3>5. StatusAt(i, r.at - 1) \in KnownTo(world, jira) \/ StatusAt(i, r.at - 1) = Initial
        BY <1>1, <3>4, LastChangeTells
      <3>6. StatusAt(i, r.at - 1) \in Statuses
        BY <1>1, <3>4, StatusesAreTold
      <3> QED
        BY <3>1, <3>3, <3>5, <3>6
    <2> HIDE DEF C
    <2>4. Statuses = StatusesOf(tables.columns) /\ Nothing \notin Statuses /\ tables.columns = Board
      BY <1>1, ReportsAssumption, TablesAreThoseOfJira
    <2>5. ASSUME NEW s \in Statuses
          PROVE  Position(tables, s) \in Nat /\ ~(Position(tables, s) < Position(tables, Initial))
      <3>1. \A x \in Statuses : \E c \in Board : c.status = x
        BY <2>4 DEF StatusesOf
      <3>2. Initial \in Statuses
        BY <1>1, WorldTypes
      <3> DEFINE at(x) == CHOOSE c \in Board : c.status = x
      <3>3. \A x \in Statuses : at(x) \in Board /\ at(x).status = x
        BY <3>1
      <3>4. \A x : Position(tables, x) = at(x).position
        BY <2>4 DEF Position
      <3> HIDE DEF at
      <3>5. at(Initial).position <= at(s).position
        BY <3>2, <3>3
      <3>6. at(Initial).position \in Nat /\ at(s).position \in Nat
        BY <3>2, <3>3, BoardAssumption
      <3> QED
        BY <3>4, <3>5, <3>6
    <2>6. calculate_backflow_rate(tables).backward = Cardinality({m \in Moves : back(m)})
      <3> DEFINE S == {c \in OnBoard(tables) : Position(tables, c.to) < Position(tables, c.from)}
                 T == {m \in Moves : back(m)}
      <3>1. \A r : r \in S <=> r \in C /\ r.from \in Statuses /\ r.to \in Statuses
                               /\ Position(tables, r.to) < Position(tables, r.from)
        BY <2>4 DEF OnBoard, C
      <3>2. \A p : p \in T <=> p \in Moves /\ back(p)
        OBVIOUS
      <3>3. ASSUME NEW r \in C
            PROVE  r \in S <=> <<r.issue, r.at>> \in T
        <4>1. <<r.issue, r.at>> \in Moves
          BY <2>1
        <4>2. <<r.issue, r.at>> \in T <=> Position(tables, StatusAt(r.issue, r.at))
                                            < Position(tables, StatusAt(r.issue, r.at - 1))
          BY <4>1
        <4>3. CASE StatusAt(r.issue, r.at - 1) \in KnownTo(world, jira)
          BY <2>3, <3>1, <4>2, <4>3
        <4>4. CASE StatusAt(r.issue, r.at - 1) \notin KnownTo(world, jira)
          <5>1. r \notin S
            BY <2>3, <2>4, <3>1, <4>4
          <5>2. <<r.issue, r.at>> \notin T
            BY <2>3, <2>5, <4>2, <4>4
          <5> QED
            BY <5>1, <5>2
        <4> QED
          BY <4>3, <4>4
      <3>4. T \in SUBSET Moves
        OBVIOUS
      <3> HIDE DEF S, T
      <3>5. Cardinality(S) = Cardinality(T)
        <4>1. \A r \in S : <<r.issue, r.at>> \in T
          BY <3>1, <3>3
        <4>2. \A r, s \in S : r.issue = s.issue /\ r.at = s.at => r = s
          BY <2>1, <3>1
        <4>3. \A p \in T : \E r \in S : p = <<r.issue, r.at>>
          BY <2>1, <3>3, <3>4
        <4>4. IsFiniteSet(T)
          BY <2>2, <3>4
        <4> QED
          BY <4>1, <4>2, <4>3, <4>4, RowsArePairs
      <3> QED
        BY <3>5 DEF calculate_backflow_rate, S, T
    <2>7. ASSUME NEW s \in Statuses, NEW d \in 0 .. Day(now)
          PROVE  calculate_daily_status_entry(tables, s, d) = Cardinality(
                     {m \in Moves : StatusAt(m[1], m[2]) = s /\ Day(m[2]) = d})
      <3> DEFINE S == {c \in C : c.to = s /\ Day(c.at) = d}
                 T == {m \in Moves : StatusAt(m[1], m[2]) = s /\ Day(m[2]) = d}
      <3>1. \A r \in C : r \in S <=> <<r.issue, r.at>> \in T
        BY <2>1, <2>3
      <3>2. T \in SUBSET Moves /\ S \in SUBSET C
        OBVIOUS
      <3> HIDE DEF S, T
      <3>3. Cardinality(S) = Cardinality(T)
        <4>1. \A r \in S : <<r.issue, r.at>> \in T
          BY <3>1, <3>2
        <4>2. \A r, q \in S : r.issue = q.issue /\ r.at = q.at => r = q
          BY <2>1, <3>2
        <4>3. \A p \in T : \E r \in S : p = <<r.issue, r.at>>
          BY <2>1, <3>1, <3>2
        <4>4. IsFiniteSet(T)
          BY <2>2, <3>2
        <4> QED
          BY <4>1, <4>2, <4>3, <4>4, RowsArePairs
      <3> QED
        BY <3>3 DEF calculate_daily_status_entry, S, T, C
    <2>8. calculate_field_change_count(tables) = Cardinality(Revisions)
      BY <1>1, EstimatesAreRevisions
    <2>9. ASSUME NEW v \in Estimates
          PROVE  calculate_field_value_sprint_pct(tables, v) =
                    [match |-> Cardinality({i \in Ever : KeptPoints(jira[i]) = v}),
                     total |-> Cardinality(Ever)]
      <3>1. tables.sprint_issues = Ever
        BY <1>1, RowsOfTheSprint DEF Ever
      <3>2. \A i \in Ever : tables.issues[i].points = KeptPoints(jira[i])
        BY <1>1, LastEstimateIsKept DEF Ever
      <3>3. {i \in tables.sprint_issues : tables.issues[i].points = v} =
                {i \in Ever : KeptPoints(jira[i]) = v}
        BY <3>1, <3>2
      <3> QED
        BY <3>1, <3>3 DEF calculate_field_value_sprint_pct
    <2> QED
      BY <2>6, <2>7, <2>8, <2>9
  <1>2. TypeInv /\ HistoryInv /\ IsFiniteSet(DOMAIN jira) => SprintCountsAreTrue
    BY <1>1 DEF SprintCountsAreTrue, Moves, Ever, Revisions
  <1> QED
    BY <1>2, ReportsCorrect, IssuesAreFinite, PTL

-----------------------------------------------------------------------------
\* An issue was there from its creation on.
LEMMA IssuesOfThen ==
    ASSUME TypeInv, HistoryInv, NEW k \in 0 .. now
    PROVE  \A i : i \in DOMAIN At(k) <=> i \in DOMAIN jira /\ k \in Life(i)
  <1>1. Film[now] = jira /\ Film[k] = At(k)
    BY FilmOfNow
  <1>2. \A i \in DOMAIN At(k) : i \in DOMAIN jira
    BY <1>1 DEF HistoryInv, HistoryOk
  <1>3. ASSUME NEW i \in DOMAIN jira
        PROVE  i \in DOMAIN At(k) <=> k \in Life(i)
    <2>1. HistoryOf(i, Film, now)
      BY <1>1 DEF HistoryInv, HistoryOk
    <2>2. jira[i].created \in 0 .. now /\ (i \in DOMAIN At(k) <=> jira[i].created <= k)
      BY <1>1, <2>1 DEF HistoryOf
    <2>3. now \in Nat
      BY WorldTypes
    <2> QED
      BY <2>2, <2>3 DEF Life
  <1> QED
    BY <1>2, <1>3

\* The points in the tables are numbers, or there are none.
LEMMA PointsAreNumbers ==
    ASSUME TypeInv, HistoryInv, NEW i \in DOMAIN jira
    PROVE  /\ tables.issues[i].points \in Estimates \cup {Nothing}
           /\ Coalesce(tables.issues[i].points, 0) \in Nat
           /\ tables.issues[i].points # Nothing => tables.issues[i].points \in Nat \ {0}
  <1>1. /\ tables.issues[i].points = KeptPoints(jira[i])
        /\ IF Estimated(i) = {} THEN KeptPoints(jira[i]) = Nothing
           ELSE /\ Max(Estimated(i)) \in Estimated(i)
                /\ KeptPoints(jira[i]) = PointsAt(i, Max(Estimated(i)))
    BY LastEstimateIsKept
  <1>2. \A k \in Estimated(i) : PointsAt(i, k) \in Estimates \cup {Nothing}
    BY EstimatesAreTold DEF Estimated, PointValues
  <1>3. tables.issues[i].points \in Estimates \cup {Nothing}
    BY <1>1, <1>2
  <1> QED
    BY <1>3, ReportsAssumption DEF Coalesce

\* The scope of a day is what was planned when it ended.
LEMMA ScopeOfTheDay ==
    ASSUME TypeInv, HistoryInv, NEW d \in Nat, \A i \in DOMAIN jira : ~CreationForgotten(i)
    PROVE  BurndownScope(tables, d) = {i \in DOMAIN jira : PlannedAt(i, Close(d))}
  <1> DEFINE k == Close(d)
             log == tables.sprint_issues_changelog
             until(i) == {e \in EventsOf(log, i) : Day(e.at) <= d}
  <1>1. now \in Nat /\ k \in 0 .. now /\ \A j \in 0 .. now : Day(j) <= d <=> j <= k
    <2>1. now \in Nat
      BY WorldTypes
    <2> QED
      BY <2>1, ClosingTicks
  <1>2. DOMAIN tables.issues = DOMAIN jira /\ tables.sprint_issues = {j \in DOMAIN jira : SprintEvents(j) # {}}
    BY TablesAreThoseOfJira, SprintLog
  <1> HIDE DEF k
  <1>3. ASSUME NEW i \in DOMAIN jira
        PROVE  /\ EventsOf(log, i) = SprintEvents(i) /\ \A e \in SprintEvents(i) : e \in Known(tables, log)
               /\ InScopeAfter(until(i)) <=> PlannedAt(i, k)
    <2>1. \A e \in SprintEvents(i) : e.issue = i /\ e \in log /\ e.at \in Life(i)
      BY EventsAreOfTheirIssue
    <2>2. EventsOf(log, i) = SprintEvents(i)
      BY <2>1, EventsAreOfTheirIssue DEF EventsOf
    <2>3. jira[i].created \in 0 .. now /\ Life(i) \subseteq 0 .. now /\ \A j \in Life(i) : jira[i].created <= j
      BY <1>1, StatusesAreTold DEF Life
    <2>4. until(i) = {e \in SprintEvents(i) : e.at <= k}
      BY <1>1, <2>1, <2>2, <2>3
    <2>5. CASE k \in Life(i)
      <3> DEFINE before == {e \in SprintEvents(i) : e.at <= k}
      <3>1. /\ (\E m \in jira[i].moves : m.at <= k) \/ jira[i].moves = {} =>
                    (InScopeAfter(before) <=> PlannedAt(i, k))
            /\ (\A m \in jira[i].moves : k < m.at) /\ jira[i].moves # {} => ~InScopeAfter(before)
        BY <2>5, ScopeIsThePlan
      <3>2. ASSUME \A m \in jira[i].moves : k < m.at, jira[i].moves # {}
            PROVE  ~PlannedAt(i, k)
        <4>1. ~PlannedAt(i, jira[i].created)
          BY <3>2 DEF CreationForgotten
        <4> DEFINE v == SprintsOf(i)
                   b == jira[i].created
        <4>2. b \in Nat /\ b \in 0 .. now /\ k \in b .. now /\ b \in b .. now /\ b <= k /\ b \in Life(i)
          BY <1>1, <2>3, <2>5 DEF Life
        <4>3. Quiet(jira[i].moves, b, k)
          <5>1. \A m \in jira[i].moves : m.at \in Nat
            BY WorldTypes DEF IssueType
          <5> QED
            BY <1>1, <3>2, <5>1 DEF Quiet
        <4>4. /\ Tells(jira[i].moves, v, b, now)
              /\ PlannedAt(i, b) <=> v[b] = {"sprint"}
              /\ PlannedAt(i, k) <=> v[k] = {"sprint"}
          BY <1>1, <2>5, <4>2, MovesAreTold
        <4> HIDE DEF v, b
        <4>5. v[b] = v[k]
          BY <1>1, <4>2, <4>3, <4>4, TellsConstant
        <4> QED
          BY <4>1, <4>4, <4>5 DEF b
      <3>3. (\A m \in jira[i].moves : k < m.at) \/ \E m \in jira[i].moves : m.at <= k
        <4>1. \A m \in jira[i].moves : m.at \in Nat
          BY WorldTypes DEF IssueType
        <4> QED
          BY <1>1, <4>1
      <3>4. InScopeAfter(before) <=> PlannedAt(i, k)
        <4> HIDE DEF before
        <4> QED
          BY <3>1, <3>2, <3>3
      <3> QED
        BY <1>2, <2>1, <2>2, <2>4, <3>4 DEF Known
    <2>6. CASE k \notin Life(i)
      <3>1. k < jira[i].created
        BY <1>1, <2>3, <2>6 DEF Life
      <3>2. until(i) = {}
        BY <1>1, <2>1, <2>3, <2>4, <3>1
      <3>3. ~PlannedAt(i, k)
        BY <1>1, <2>6, MovesAreTold
      <3> QED
        BY <1>2, <2>1, <2>2, <3>2, <3>3 DEF Known, InScopeAfter
    <2>7. \A e \in SprintEvents(i) : e \in Known(tables, log)
      BY <1>2, <2>1 DEF Known
    <2> QED
      BY <2>2, <2>5, <2>6, <2>7
  <1>4. CASE log = {}
    <2>1. \A i \in DOMAIN jira : SprintEvents(i) = {}
      BY <1>4, EventsAreOfTheirIssue
    <2>2. BurndownScope(tables, d) = {}
      BY <1>2, <1>4, <2>1 DEF BurndownScope, Members
    <2>3. \A i \in DOMAIN jira : ~InScopeAfter(until(i))
      BY <1>4 DEF InScopeAfter, EventsOf
    <2> QED
      BY <1>3, <2>2, <2>3 DEF k
  <1>5. CASE log # {}
    <2>1. BurndownScope(tables, d) = {i \in {e.issue : e \in Known(tables, log)} : InScopeAfter(until(i))}
      BY <1>5 DEF BurndownScope
    <2>2. {e.issue : e \in Known(tables, log)} \subseteq DOMAIN jira
      BY <1>2 DEF Known
    <2>3. ASSUME NEW i \in DOMAIN jira, InScopeAfter(until(i))
          PROVE  i \in {e.issue : e \in Known(tables, log)}
      <3>1. until(i) # {}
        BY <2>3 DEF InScopeAfter
      <3>2. PICK e \in SprintEvents(i) : e \in Known(tables, log)
        BY <1>3, <3>1
      <3>3. e.issue = i
        BY EventsAreOfTheirIssue
      <3> QED
        BY <3>2, <3>3
    <2> HIDE DEF until
    <2> QED
      BY <1>3, <2>1, <2>2, <2>3 DEF k
  <1> QED
    BY <1>4, <1>5

\* What remains is summed over what was planned and not done when the day ended.
THEOREM BurndownsAreTrue == Spec => []BurndownIsTrue
  <1>1. ASSUME TypeInv, HistoryInv, IsFiniteSet(DOMAIN jira), \A i \in DOMAIN jira : ~CreationForgotten(i),
               NEW d \in Nat
        PROVE  LET remaining == {i \in DOMAIN At(Close(d)) :
                            PlannedAt(i, Close(d)) /\ ~IsDone(StatusAt(i, Close(d)))}
               IN  calculate_sprint_burndown(tables, Done, d) = SumFunction(
                    [i \in {i \in remaining : tables.issues[i].points # Nothing} |->
                        tables.issues[i].points])
    <2> DEFINE k == Close(d)
               remaining == {i \in DOMAIN At(k) : PlannedAt(i, k) /\ ~IsDone(StatusAt(i, k))}
               points(i) == Coalesce(tables.issues[i].points, 0)
               counted == {i \in BurndownScope(tables, d) : ~DoneOn(tables, i, Done, d)}
    <2>1. now \in Nat /\ k \in 0 .. now /\ \A j \in 0 .. now : Day(j) <= d <=> j <= k
      <3>1. now \in Nat
        BY <1>1, WorldTypes
      <3> QED
        BY <3>1, ClosingTicks
    <2> HIDE DEF k
    <2>2. BurndownScope(tables, d) = {i \in DOMAIN jira : PlannedAt(i, k)}
      BY <1>1, ScopeOfTheDay DEF k
    <2>3. \A i : i \in DOMAIN At(k) <=> i \in DOMAIN jira /\ k \in Life(i)
      BY <1>1, <2>1, IssuesOfThen
    <2>4. ASSUME NEW i \in DOMAIN At(k)
          PROVE  DoneOn(tables, i, Done, d) <=> IsDone(StatusAt(i, k))
      <3>1. i \in DOMAIN jira /\ k \in Life(i)
        BY <2>3
      <3> DEFINE until == {c \in ChangesOf(tables, i) : Day(c.at) <= d}
                 before == {c \in ChangesOf(tables, i) : c.at <= k}
      <3>2. until = before
        <4>1. After(i) \subseteq 0 .. now
          BY <1>1, <3>1, StatusesAreTold DEF After
        <4>2. \A r \in ChangesOf(tables, i) : r.at \in After(i)
          BY <1>1, <3>1, LogOfAnIssue
        <4> QED
          BY <2>1, <4>1, <4>2
      <3>3. IF before = {} THEN StatusAt(i, k) = Initial
            ELSE LastChange(before).to = StatusAt(i, k)
        BY <1>1, <3>1, LastChangeTells
      <3>4. StatusAt(i, k) \in Statuses /\ ~IsDone(Initial)
        <4>1. StatusAt(i, k) \in Statuses
          BY <1>1, <3>1, StatusesAreTold
        <4> QED
          BY <4>1, ReportsAssumption DEF IsDone
      <3>5. DoneOn(tables, i, Done, d) <=> until # {} /\ LastChange(until).to \in Done
        BY DEF DoneOn
      <3> HIDE DEF until, before
      <3> QED
        BY <3>2, <3>3, <3>4, <3>5 DEF Done
    <2>5. counted = remaining
      <3>1. \A i \in DOMAIN jira : PlannedAt(i, k) => i \in DOMAIN At(k)
        BY DEF PlannedAt
      <3> QED
        BY <2>2, <2>3, <2>4, <3>1
    <2> DEFINE f == [i \in remaining |-> points(i)]
               some == {i \in remaining : tables.issues[i].points # Nothing}
               none == remaining \ some
               g == [i \in some |-> tables.issues[i].points]
    <2>6. calculate_sprint_burndown(tables, Done, d) = SumFunction(f)
      <3>1. calculate_sprint_burndown(tables, Done, d) = SumFunction([i \in counted |-> points(i)])
        BY DEF calculate_sprint_burndown
      <3> HIDE DEF counted, remaining
      <3> QED
        BY <2>5, <3>1
    <2>7. \A i \in remaining : /\ points(i) \in Int
                               /\ i \in some => points(i) = tables.issues[i].points
                               /\ i \in none => points(i) = 0
      <3>1. \A i \in remaining : i \in DOMAIN jira
        BY <2>3
      <3>2. \A i \in remaining : Coalesce(tables.issues[i].points, 0) \in Nat
        BY <1>1, <3>1, PointsAreNumbers
      <3> HIDE DEF remaining
      <3> QED
        BY <3>2 DEF Coalesce
    <2>8. IsFiniteSet(remaining)
      <3>1. remaining \subseteq DOMAIN jira
        BY <2>3
      <3> HIDE DEF remaining
      <3> QED
        BY <1>1, <3>1, FS_Subset
    <2> HIDE DEF remaining, points
    <2>9. /\ f \in [remaining -> Int] /\ g \in [some -> Int]
          /\ some \in SUBSET remaining /\ none \in SUBSET remaining
          /\ some \cap none = {} /\ some \cup none = remaining
      BY <2>7
    <2>10. IsFiniteSet(some) /\ IsFiniteSet(none)
      BY <2>8, FS_Subset
    <2>11. (\A i \in some : f[i] = g[i]) /\ \A i \in none : f[i] = 0
      BY <2>7
    <2> HIDE DEF f, g, some, none
    <2>12. SumFunctionOnSet(f, some) = SumFunctionOnSet(g, some)
      BY <2>9, <2>10, <2>11, SumsAgree
    <2>13. SumFunctionOnSet(f, none) = 0 /\ SumFunctionOnSet(f, some) \in Int
      BY <2>9, <2>10, <2>11, SumOfZeros, SumSteps
    <2>14. SumFunctionOnSet(f, some \cup none) = SumFunctionOnSet(f, some) + SumFunctionOnSet(f, none)
      BY <2>9, <2>10, SumByParts
    <2>15. SumFunction(f) = SumFunctionOnSet(f, remaining) /\ SumFunction(g) = SumFunctionOnSet(g, some)
      BY <2>9, WholeSum
    <2>16. SumFunctionOnSet(f, some \cup none) = SumFunctionOnSet(f, some)
      BY <2>13, <2>14
    <2>17. SumFunction(f) = SumFunction(g)
      BY <2>9, <2>12, <2>15, <2>16
    <2> QED
      BY <2>6, <2>17 DEF remaining, some, g, k
  <1>2. TypeInv /\ HistoryInv /\ IsFiniteSet(DOMAIN jira) => BurndownIsTrue
    <2> SUFFICES ASSUME TypeInv, HistoryInv, IsFiniteSet(DOMAIN jira),
                        \A i \in DOMAIN jira : ~CreationForgotten(i),
                        NEW d \in Day(Start0) .. Min({Day(End0), Day(now)})
                 PROVE  LET remaining == {i \in DOMAIN At(Close(d)) :
                            PlannedAt(i, Close(d)) /\ ~IsDone(StatusAt(i, Close(d)))}
                        IN  calculate_sprint_burndown(tables, Done, d) = SumFunction(
                              [i \in {i \in remaining : tables.issues[i].points # Nothing} |->
                                  tables.issues[i].points])
      BY DEF BurndownIsTrue
    <2>1. Start0 \in Nat /\ PerDay \in Nat \ {0}
      BY ReportsAssumption, CalendarAssumption DEF TypeInv, Start0
    <2>2. d \in Nat
      BY <2>1 DEF Day
    <2> QED
      BY <1>1, <2>2
  <1> QED
    BY <1>2, ReportsCorrect, IssuesAreFinite, PTL

-----------------------------------------------------------------------------
\* The blocked time pairs each change to the value with the next change away from it; what it
\* sums is the time the field had the value.
THEOREM BlockedTimesAreTrue == Spec => []BlockedTimeIsTrue
  <1>1. ASSUME TypeInv, HistoryInv, NEW i \in DOMAIN jira, NEW v \in Estimates,
               PointsAt(i, jira[i].created) # v
        PROVE  calculate_blocked_time(tables, i, {v}) =
                    Cardinality({k \in Life(i) \ {now} : PointsAt(i, k) = v})
    <2> DEFINE a == jira[i].created
               changes == PointChanges(tables, i)
               H == {k \in Life(i) : PointsAt(i, k) = v}
               B == {c.at : c \in {c \in changes : c.new \in {v} /\ c.old \notin {v}}}
               E == {c.at : c \in {c \in changes : c.new \notin {v} /\ c.old \in {v}}}
               next(b) == Coalesce(EarliestOf({e \in E : e > b}), tables.now)
               until == [b \in B |-> next(b)]
               length == [b \in B |-> next(b) - b]
    <2>1. a \in Nat /\ now \in Nat /\ a <= now /\ Life(i) = a .. now /\ After(i) = (a + 1) .. now
          /\ tables.now = now
      BY <1>1, StatusesAreTold, TablesAreThoseOfJira DEF Life, After
    <2>2. \A k \in Nat : k \in H <=> a <= k /\ k <= now /\ PointsAt(i, k) = v
      BY <2>1
    <2>3. a \notin H /\ H \in SUBSET Nat
      BY <1>1, <2>1
    <2>4. /\ \A r \in changes : /\ r.at \in After(i) /\ r.new = PointsAt(i, r.at)
                                /\ r.old = PointsAt(i, r.at - 1)
          /\ \A k \in After(i) : PointsAt(i, k) # PointsAt(i, k - 1) => \E r \in changes : r.at = k
      <3> DEFINE w == PointsOf(i)
                 told == jira[i].pointChanges
      <3>1. /\ Tells(told, w, a, now) /\ \A k \in Life(i) : PointsAt(i, k) = w[k]
        BY <1>1, EstimatesAreTold
      <3>2. /\ \A r \in changes : \E c \in told : Rates(r, c)
            /\ \A c \in told : \E r \in changes : Rates(r, c)
        BY <1>1, RowsOfEstimates
      <3>3. \A k \in After(i) : k \in Life(i) /\ k - 1 \in Life(i)
        BY <2>1
      <3> HIDE DEF w, told, changes, a
      <3>4. \A c \in told : c.at \in After(i) /\ c.from = w[c.at - 1] /\ c.to = w[c.at]
        BY <2>1, <3>1 DEF Tells
      <3>5. \A k \in After(i) : w[k] # w[k - 1] => \E c \in told : c.at = k
        BY <2>1, <3>1 DEF Tells
      <3>6. ASSUME NEW r \in changes
            PROVE  /\ r.at \in After(i) /\ r.new = PointsAt(i, r.at)
                   /\ r.old = PointsAt(i, r.at - 1)
        <4>1. PICK c \in told : Rates(r, c)
          BY <3>2
        <4>2. r.at = c.at /\ r.old = c.from /\ r.new = c.to
          BY <4>1 DEF Rates
        <4> QED
          BY <3>1, <3>3, <3>4, <4>2
      <3>7. ASSUME NEW k \in After(i), PointsAt(i, k) # PointsAt(i, k - 1)
            PROVE  \E r \in changes : r.at = k
        <4>1. PICK c \in told : c.at = k
          BY <3>1, <3>3, <3>5, <3>7
        <4>2. PICK r \in changes : Rates(r, c)
          BY <3>2
        <4> QED
          BY <4>1, <4>2 DEF Rates
      <3> QED
        BY <3>6, <3>7
    <2> HIDE DEF a, changes, H
    <2>5. \A k : k \in B <=> k \in After(i) /\ PointsAt(i, k) = v /\ PointsAt(i, k - 1) # v
      BY <2>4
    <2>6. \A k : k \in E <=> k \in After(i) /\ PointsAt(i, k) # v /\ PointsAt(i, k - 1) = v
      BY <2>4
    <2> HIDE DEF B, E
    <2>7. \A k \in Nat : k \in B <=> a < k /\ k <= now /\ k \in H /\ k - 1 \notin H
      <3>1. ASSUME NEW k \in Nat, a < k, k <= now
            PROVE  k - 1 \in Nat /\ a <= k - 1 /\ k - 1 <= now
        BY <2>1, <3>1
      <3>2. \A k \in Nat : k \in After(i) <=> a < k /\ k <= now
        BY <2>1
      <3> QED
        BY <2>1, <2>2, <2>5, <3>1, <3>2
    <2>8. \A k \in Nat : k \in E <=> a < k /\ k <= now /\ k \notin H /\ k - 1 \in H
      <3>1. ASSUME NEW k \in Nat, a < k, k <= now
            PROVE  k - 1 \in Nat /\ a <= k - 1 /\ k - 1 <= now /\ a <= k
        BY <2>1, <3>1
      <3>2. \A k \in Nat : k \in After(i) <=> a < k /\ k <= now
        BY <2>1
      <3> QED
        BY <2>1, <2>2, <2>6, <3>1, <3>2
    <2>9. B \in SUBSET Nat /\ E \in SUBSET Nat /\ IsFiniteSet(E)
      <3>1. B \subseteq After(i) /\ E \subseteq After(i) /\ After(i) \subseteq Nat
        BY <2>1, <2>5, <2>6
      <3>2. E \in SUBSET After(i)
        BY <3>1
      <3>3. IsFiniteSet(E)
        BY <1>1, <3>2, TicksAreFinite
      <3> QED
        BY <3>1, <3>3
    <2>10. ASSUME NEW b \in B
           PROVE  /\ next(b) \in Nat
                  /\ \/ next(b) = now /\ \A e \in E : ~(b < e)
                     \/ next(b) \in E /\ b < next(b) /\ \A e \in E : b < e => next(b) <= e
      <3> DEFINE later == {e \in E : e > b}
      <3>1. Nothing \notin Nat
        BY ReportsAssumption
      <3>2. CASE later = {}
        <4>1. next(b) = now
          BY <2>1, <3>2 DEF EarliestOf, Coalesce
        <4>2. \A e \in E : ~(b < e)
          BY <2>9, <3>2
        <4> QED
          BY <2>1, <4>1, <4>2
      <3>3. CASE later # {}
        <4>1. later \in SUBSET E
          OBVIOUS
        <4> HIDE DEF later
        <4>8. later \in SUBSET Nat
          BY <2>9, <4>1
        <4>2. Min(later) \in later /\ \A e \in later : Min(later) <= e
          BY <3>3, <4>8, MinIsLeast
        <4>3. EarliestOf(later) = Min(later)
          BY <3>3 DEF EarliestOf, later
        <4> DEFINE m == Min(later)
        <4> HIDE DEF m
        <4>4. m \in later /\ (\A e \in later : m <= e) /\ EarliestOf(later) = m
          BY <4>2, <4>3 DEF m
        <4>5. m \in Nat /\ m # Nothing
          BY <2>9, <3>1, <4>1, <4>4
        <4>6. next(b) = m
          BY <4>4, <4>5 DEF Coalesce, later
        <4>7. m \in E /\ b < m /\ \A e \in E : b < e => m <= e
          BY <2>9, <4>4, <4>5 DEF later
        <4> HIDE DEF next
        <4> QED
          BY <4>5, <4>6, <4>7
      <3> QED
        BY <3>2, <3>3
    <2> HIDE DEF next
    <2>11. calculate_blocked_time(tables, i, {v}) = SumFunction(length)
      BY DEF calculate_blocked_time, PointChanges, changes, B, E, next
    <2>12. until \in [B -> Nat] /\ length \in [B -> Int] /\ \A b \in B : until[b] = next(b) /\ length[b] = until[b] - b
      BY <2>9, <2>10
    <2> HIDE DEF until, length
    <2>13. \A b \in B : \/ until[b] = now /\ \A e \in E : ~(b < e)
                        \/ until[b] \in E /\ b < until[b] /\ \A e \in E : b < e => until[b] <= e
      BY <2>10, <2>12
    <2>14. Periods(a, now, H, B, E, until, length)
      BY <2>1, <2>3, <2>7, <2>8, <2>9, <2>12, <2>13 DEF Periods
    <2>15. SumFunction(length) = Cardinality({k \in a .. now : k # now /\ k \in H})
      BY <2>14, SumOfPeriods
    <2>16. {k \in a .. now : k # now /\ k \in H} = {k \in Life(i) \ {now} : PointsAt(i, k) = v}
      BY <2>1 DEF H
    <2> QED
      BY <2>11, <2>15, <2>16
  <1>2. TypeInv /\ HistoryInv => BlockedTimeIsTrue
    BY <1>1 DEF BlockedTimeIsTrue
  <1> QED
    BY <1>2, ReportsCorrect, PTL

-----------------------------------------------------------------------------
\* Rows with times of their own, among finitely many times, are finitely many.
LEMMA RowsAreFinite ==
    ASSUME NEW T, IsFiniteSet(T), NEW S, \A r \in S : r.at \in T,
           \A r, s \in S : r.at = s.at => r = s
    PROVE  IsFiniteSet(S)
  <1> DEFINE f == [r \in S |-> r.at]
  <1>1. f \in [S -> T]
    OBVIOUS
  <1>2. \A r, s \in S : f[r] = f[s] => r = s
    OBVIOUS
  <1> HIDE DEF f
  <1>3. f \in Injection(S, T)
    BY <1>1, <1>2 DEF Injection, IsInjective
  <1> QED
    BY <1>3, FS_Injection

\* The changes of an issue have different times, and are finitely many.
LEMMA ChangesAreApart ==
    ASSUME TypeInv, HistoryInv, NEW i \in DOMAIN jira
    PROVE  /\ IsFiniteSet(ChangesOf(tables, i))
           /\ \A r, s \in ChangesOf(tables, i) : r.at = s.at => r = s
           /\ \A r \in ChangesOf(tables, i) : r.at \in Came(i, Statuses) /\ r.issue = i
           /\ \A k \in Came(i, Statuses) : \E r \in ChangesOf(tables, i) : r.at = k
  <1> DEFINE S == ChangesOf(tables, i)
             T == Came(i, Statuses)
  <1>1. Times(S) = T
    BY LogTellsTheMoves
  <1>2. \A r \in S : r.at \in T /\ r.issue = i
    BY <1>1 DEF Times, ChangesOf
  <1>3. \A k \in T : \E r \in S : r.at = k
    BY <1>1 DEF Times
  <1>4. \A r, s \in S : r.at = s.at => r = s
    <2>1. \A r \in S : r \in tables.status_changelog /\ r.issue = i
      BY DEF ChangesOf
    <2> QED
      BY <2>1, LogOfAll
  <1>5. IsFiniteSet(T)
    BY TicksAreFinite
  <1> HIDE DEF S, T
  <1>6. IsFiniteSet(S)
    BY <1>2, <1>4, <1>5, RowsAreFinite
  <1> QED
    BY <1>2, <1>3, <1>4, <1>6 DEF S, T

\* A stay in S ends with the next change, or with the completion if that is first; the stays
\* together are the ticks at which the issue was in S.
LEMMA TimeInIsTicks ==
    ASSUME TypeInv, HistoryInv, NEW i \in DOMAIN jira, NEW S \in SUBSET Statuses, Came(i, Done) # {}
    PROVE  TimeIn(tables, i, S, Done) = Cardinality(
                {k \in Min(Came(i, Statuses)) .. (Min(Came(i, Done)) - 1) : StatusAt(i, k) \in S})
  <1> DEFINE z == Min(Came(i, Done))
             first == Min(Came(i, Statuses))
             changes == ChangesOf(tables, i)
             stays == {c \in changes : c.to \in S /\ c.at < z}
             end(c) == Min({z, Coalesce(NextChange(tables, c), z)})
             from == [c \in stays |-> c.at]
             to == [c \in stays |-> end(c)]
             length == [c \in stays |-> end(c) - c.at]
             T == {k \in first .. (z - 1) : StatusAt(i, k) \in S}
  <1>1. jira[i].created \in Nat /\ now \in Nat /\ Nothing \notin Nat
    BY StatusesAreTold, ReportsAssumption
  <1>2. /\ \A k \in After(i) : k \in Nat /\ k \in Life(i)
        /\ Came(i, Done) \in SUBSET After(i) /\ Came(i, Statuses) \in SUBSET After(i)
        /\ Came(i, Done) \subseteq Came(i, Statuses)
    BY <1>1 DEF After, Life, Came, Done
  <1>3. z \in Came(i, Done) /\ z \in Nat /\ z \in Life(i)
    <2>1. Came(i, Done) \in SUBSET Nat
      BY <1>2
    <2>2. z \in Came(i, Done)
      BY <2>1, MinIsLeast
    <2> HIDE DEF z
    <2> QED
      BY <1>2, <2>2
  <1>4. first \in Came(i, Statuses) /\ first \in Nat /\ \A k \in Came(i, Statuses) : first <= k
    <2>1. Came(i, Statuses) \in SUBSET Nat /\ Came(i, Statuses) # {}
      BY <1>2
    <2>2. first \in Came(i, Statuses) /\ \A k \in Came(i, Statuses) : first <= k
      BY <2>1, MinIsLeast
    <2> HIDE DEF first
    <2> QED
      BY <2>1, <2>2
  <1>5. /\ \A r \in changes : /\ r.at \in Came(i, Statuses) /\ r.issue = i /\ r.at \in Nat
                              /\ r.at \in Life(i) /\ r.to = StatusAt(i, r.at)
        /\ \A r, s \in changes : r.at = s.at => r = s
        /\ \A k \in Came(i, Statuses) : \E r \in changes : r.at = k
        /\ IsFiniteSet(changes)
    BY <1>2, ChangesAreApart, LogOfAnIssue
  <1>6. Times(changes) = Came(i, Statuses)
    BY <1>5 DEF Times
  <1>7. Completion(tables, i, Done) = z
    <2>1. Done \in SUBSET Statuses
      BY DEF Done
    <2>2. Times(Entries(tables, i, Done)) = Came(i, Done)
      BY <2>1, LogTellsTheMoves
    <2> QED
      BY <2>2 DEF Completion, EarliestOf
  <1>8. TimeIn(tables, i, S, Done) = SumFunction(length)
    <2> HIDE DEF z
    <2> QED
      BY <1>7 DEF TimeIn
  <1> HIDE DEF z, first, changes
  <1>9. ASSUME NEW c \in stays
        PROVE  /\ end(c) \in Nat /\ c.at < end(c) /\ end(c) <= z
               /\ end(c) = z \/ \E r \in changes : r.at = end(c)
               /\ \A r \in changes : ~(c.at < r.at /\ r.at < end(c))
    <2> DEFINE later == {at \in Came(i, Statuses) : at > c.at}
               next == NextChange(tables, c)
    <2>1. c \in changes /\ c.issue = i /\ c.at \in Nat /\ c.at < z
      BY <1>5
    <2>2. next = EarliestOf(later)
      BY <1>6, <2>1 DEF NextChange, changes
    <2>3. later \in SUBSET Nat
      BY <1>2
    <2> HIDE DEF later, next
    <2>4. CASE later = {}
      <3>1. next = Nothing
        BY <2>2, <2>4 DEF EarliestOf
      <3>2. end(c) = Min({z})
        <4>1. Coalesce(next, z) = z /\ {z, z} = {z}
          BY <3>1 DEF Coalesce
        <4> QED
          BY <4>1 DEF next
      <3>3. Min({z}) = z
        <4>1. {z} \in SUBSET Nat /\ {z} # {}
          BY <1>3
        <4> QED
          BY <4>1, MinIsLeast
      <3>4. \A r \in changes : ~(c.at < r.at)
        BY <1>5, <2>1, <2>4 DEF later
      <3> HIDE DEF end
      <3> QED
        BY <1>3, <2>1, <3>2, <3>3, <3>4
    <2>5. CASE later # {}
      <3> DEFINE m == Min(later)
                 both == {z, m}
      <3>1. m \in later /\ \A k \in later : m <= k
        BY <2>3, <2>5, MinIsLeast
      <3>2. next = m
        BY <2>2, <2>5 DEF EarliestOf
      <3> HIDE DEF m
      <3>3. m \in Nat /\ c.at < m /\ m \in Came(i, Statuses) /\ m # Nothing
        BY <1>1, <2>1, <2>3, <3>1 DEF later
      <3>4. end(c) = Min(both)
        BY <3>2, <3>3 DEF Coalesce, next
      <3> HIDE DEF end
      <3>5. end(c) \in {z, m} /\ end(c) <= z /\ end(c) <= m
        <4>1. both \in SUBSET Nat /\ both # {}
          BY <1>3, <3>3
        <4>2. Min(both) \in both /\ \A y \in both : Min(both) <= y
          <5> HIDE DEF both
          <5> QED
            BY <4>1, MinIsLeast
        <4> QED
          BY <3>4, <4>2
      <3>6. \A r \in changes : c.at < r.at => m <= r.at
        BY <1>5, <2>1, <3>1 DEF later
      <3>7. end(c) \in Nat /\ c.at < end(c)
        BY <1>3, <2>1, <3>3, <3>5
      <3>8. end(c) = z \/ \E r \in changes : r.at = end(c)
        BY <1>5, <3>3, <3>5
      <3>9. \A r \in changes : ~(c.at < r.at /\ r.at < end(c))
        BY <1>5, <3>3, <3>5, <3>6, <3>7
      <3> QED
        BY <3>5, <3>7, <3>8, <3>9
    <2> QED
      BY <2>4, <2>5
  <1> HIDE DEF end
  <1>10. IsFiniteSet(stays)
    <2>1. stays \in SUBSET changes
      OBVIOUS
    <2> QED
      BY <1>5, <2>1, FS_Subset
  <1>11. /\ from \in [stays -> Int] /\ to \in [stays -> Int] /\ length \in [stays -> Int]
         /\ \A c \in stays : from[c] = c.at /\ to[c] = end(c)
         /\ \A c \in stays : from[c] <= to[c] /\ length[c] = to[c] - from[c]
    BY <1>5, <1>9
  <1>12. T \in SUBSET Int
    BY <1>3, <1>4
  <1>13. \A b, c \in stays : \A k \in Int :
            from[b] <= k /\ k < to[b] /\ from[c] <= k /\ k < to[c] => b = c
    <2>1. ASSUME NEW b \in stays, NEW c \in stays, NEW k \in Int,
                 b.at <= k, k < end(b), c.at <= k, k < end(c)
          PROVE  b = c
      <3>1. b \in changes /\ c \in changes /\ b.at \in Nat /\ c.at \in Nat
        BY <1>5
      <3>2. ~(b.at < c.at /\ c.at < end(b)) /\ ~(c.at < b.at /\ b.at < end(c))
        BY <1>9, <3>1
      <3>3. end(b) \in Nat /\ end(c) \in Nat
        BY <1>9
      <3>4. b.at = c.at
        BY <2>1, <3>1, <3>2, <3>3
      <3> QED
        BY <1>5, <3>1, <3>4
    <2> QED
      BY <1>11, <2>1
  <1>14. ASSUME NEW k \in T
         PROVE  \E c \in stays : c.at <= k /\ k < end(c)
    <2>1. k \in Nat /\ first <= k /\ k < z /\ StatusAt(i, k) \in S
      BY <1>3, <1>4
    <2> DEFINE times == {n \in Came(i, Statuses) : n <= k}
    <2>2. times \in SUBSET After(i) /\ times # {}
      BY <1>2, <1>4, <2>1
    <2>3. times \in SUBSET Int
      BY <1>2, <2>2
    <2>4. IsFiniteSet(times)
      <3> HIDE DEF times
      <3> QED
        BY <2>2, TicksAreFinite
    <2>5. PICK m \in times : \A n \in times : n <= m
      <3> HIDE DEF times
      <3> QED
        BY <2>2, <2>3, <2>4, GreatestInteger
    <2>6. m \in Came(i, Statuses) /\ m <= k /\ m \in Nat /\ m \in Life(i)
      BY <1>2
    <2>7. PICK c \in changes : c.at = m
      BY <1>5, <2>6
    <2>8. \A r \in changes : ~(m < r.at /\ r.at <= k)
      <3> TAKE r \in changes
      <3>1. r.at <= k => r.at <= m
        BY <1>5, <2>5
      <3> QED
        BY <1>5, <2>6, <3>1
    <2>9. k \in Life(i)
      BY <1>1, <1>3, <2>1, <2>6 DEF Life
    <2>10. StatusAt(i, m) = StatusAt(i, k)
      BY <2>6, <2>8, <2>9, SameUntilAChange DEF changes
    <2>11. c \in stays
      BY <1>3, <1>5, <2>1, <2>6, <2>7, <2>10
    <2>12. k < end(c)
      <3>1. end(c) = z \/ \E r \in changes : r.at = end(c)
        BY <1>9, <2>11
      <3>2. end(c) \in Nat /\ m < end(c)
        BY <1>9, <2>7, <2>11
      <3> QED
        BY <1>3, <2>1, <2>8, <3>1, <3>2
    <2> QED
      BY <2>6, <2>7, <2>11, <2>12
  <1>15. ASSUME NEW k \in Int, NEW c \in stays, c.at <= k, k < end(c)
         PROVE  k \in T
    <2>1. c \in changes /\ c.at \in Nat /\ c.at \in Life(i) /\ c.at \in Came(i, Statuses) /\ c.to \in S
          /\ c.to = StatusAt(i, c.at)
      BY <1>5
    <2>2. end(c) \in Nat /\ end(c) <= z /\ \A r \in changes : ~(c.at < r.at /\ r.at < end(c))
      BY <1>9
    <2>3. k \in Nat /\ k < z /\ first <= k /\ k \in Life(i)
      BY <1>1, <1>3, <1>4, <1>15, <2>1, <2>2 DEF Life
    <2>4. \A r \in changes : ~(c.at < r.at /\ r.at <= k)
      BY <1>5, <1>15, <2>2, <2>3
    <2>5. StatusAt(i, c.at) = StatusAt(i, k)
      BY <1>15, <2>1, <2>3, <2>4, SameUntilAChange DEF changes
    <2> QED
      BY <1>3, <1>4, <2>1, <2>3, <2>5
  <1>16. \A k \in Int : k \in T <=> \E c \in stays : from[c] <= k /\ k < to[c]
    <2>1. \A k \in Int : k \in T <=> \E c \in stays : c.at <= k /\ k < end(c)
      <3> HIDE DEF T, stays
      <3> QED
        BY <1>14, <1>15
    <2> QED
      BY <1>11, <2>1
  <1> HIDE DEF T, stays, from, to, length
  <1>17. Covers(stays, from, to, length, T)
    BY <1>10, <1>11, <1>12, <1>13, <1>16 DEF Covers
  <1> QED
    BY <1>8, <1>17, SumOfSpans DEF T, first, z

\* The active and the wait time of a finished issue are the ticks it spent so (flow_efficiency.py).
THEOREM FlowTimesAreTicks == Spec => []FlowTimesAreTrue
  <1>1. ASSUME TypeInv, HistoryInv,
               NEW i \in DOMAIN calculate_flow_efficiency_per_issue(tables, Active, Wait, Done)
        PROVE  LET flow == calculate_flow_efficiency_per_issue(tables, Active, Wait, Done)
                   ticks(S) == {k \in Min(Came(i, Statuses)) .. (Min(Came(i, Done)) - 1) :
                                    StatusAt(i, k) \in S}
               IN  /\ flow[i].active = Cardinality(ticks(Active))
                   /\ flow[i].wait = Cardinality(ticks(Wait))
    <2> DEFINE flow == calculate_flow_efficiency_per_issue(tables, Active, Wait, Done)
    <2>1. /\ i \in Issues(tables) /\ Completion(tables, i, Done) # Nothing
          /\ flow[i].active = TimeIn(tables, i, Active, Done)
          /\ flow[i].wait = TimeIn(tables, i, Wait, Done)
      BY DEF calculate_flow_efficiency_per_issue
    <2>2. i \in DOMAIN jira
      BY <1>1, <2>1, TablesAreThoseOfJira DEF Issues
    <2>3. Done \in SUBSET Statuses /\ Active \in SUBSET Statuses /\ Wait \in SUBSET Statuses
      BY DEF Done, Active, Wait
    <2>4. Came(i, Done) # {}
      <3>1. Times(Entries(tables, i, Done)) = Came(i, Done)
        BY <1>1, <2>2, <2>3, LogTellsTheMoves
      <3> QED
        BY <2>1, <3>1 DEF Completion, EarliestOf
    <2> HIDE DEF flow
    <2>5. \A S \in SUBSET Statuses : TimeIn(tables, i, S, Done) = Cardinality(
                {k \in Min(Came(i, Statuses)) .. (Min(Came(i, Done)) - 1) : StatusAt(i, k) \in S})
      BY <1>1, <2>2, <2>4, TimeInIsTicks
    <2> QED
      BY <2>1, <2>3, <2>5 DEF flow
  <1>2. TypeInv /\ HistoryInv => FlowTimesAreTrue
    BY <1>1 DEF FlowTimesAreTrue
  <1> QED
    BY <1>2, ReportsCorrect, PTL

-----------------------------------------------------------------------------
\* The rows of estimates: they tell numbers, or nothing, and have a first and a last one.
LEMMA RowsInOrder ==
    ASSUME TypeInv, HistoryInv, NEW i \in DOMAIN jira
    PROVE  /\ \A r \in PointChanges(tables, i) : /\ r.at \in After(i) /\ r.at \in Nat
                                                 /\ r.old \in PointValues /\ r.new \in PointValues
           /\ \A S \in SUBSET PointChanges(tables, i) :
                S # {} => /\ FirstChange(S) \in S /\ \A r \in S : FirstChange(S).at <= r.at
                          /\ LastChange(S) \in S /\ \A r \in S : r.at <= LastChange(S).at
  <1>1. ASSUME NEW r \in PointChanges(tables, i)
        PROVE  /\ r.at \in After(i) /\ r.at \in Nat
               /\ r.old \in PointValues /\ r.new \in PointValues
    <2>1. PICK c \in jira[i].pointChanges : Rates(r, c)
      BY RowsOfEstimates
    <2>2. c.at \in After(i) /\ c.at \in Nat
      BY EstimatesAreTold, WorldTypes DEF IssueType
    <2>3. c.from \in PointValues /\ c.to \in PointValues
      BY WorldTypes DEF IssueType
    <2> QED
      BY <2>1, <2>2, <2>3 DEF Rates
  <1>2. ASSUME NEW S \in SUBSET PointChanges(tables, i), S # {}
        PROVE  /\ FirstChange(S) \in S /\ \A r \in S : FirstChange(S).at <= r.at
               /\ LastChange(S) \in S /\ \A r \in S : r.at <= LastChange(S).at
    <2> DEFINE times == {r.at : r \in S}
    <2>1. times \in SUBSET After(i) /\ times \in SUBSET Nat /\ times \in SUBSET Int /\ times # {}
      BY <1>1, <1>2
    <2>2. IsFiniteSet(times)
      <3> HIDE DEF times
      <3> QED
        BY <2>1, TicksAreFinite
    <2>3. \E m \in times : \A k \in times : m <= k
      <3> HIDE DEF times
      <3> QED
        BY <2>1, LeastNatural
    <2>4. \E m \in times : \A k \in times : k <= m
      <3> HIDE DEF times
      <3> QED
        BY <2>1, <2>2, GreatestInteger
    <2>5. \E c \in S : \A d \in S : c.at <= d.at
      BY <2>3
    <2>6. \E c \in S : \A d \in S : d.at <= c.at
      BY <2>4
    <2> QED
      BY <2>5, <2>6 DEF FirstChange, LastChange
  <1> QED
    BY <1>1, <1>2

\* Whatever time it is asked about, the points of an issue are a number.
LEMMA PointsAreCounted ==
    ASSUME TypeInv, HistoryInv, NEW i \in DOMAIN jira, NEW at
    PROVE  /\ determine_story_points_at_date(tables, i, at) \in Nat
           /\ determine_story_points_at_event_time(tables, i, at) \in Nat
  <1> DEFINE after == {c \in PointChanges(tables, i) : c.at > at}
             before == {c \in PointChanges(tables, i) : c.at <= at}
             now0 == Coalesce(tables.issues[i].points, 0)
  <1>1. now0 \in Nat
    BY PointsAreNumbers
  <1>2. \A x \in PointValues : x = Nothing \/ x \in Nat
    BY ReportsAssumption DEF PointValues
  <1>3. after # {} => FirstChange(after).old \in PointValues
    <2>1. after \in SUBSET PointChanges(tables, i)
      OBVIOUS
    <2> HIDE DEF after
    <2>2. after # {} => FirstChange(after) \in PointChanges(tables, i)
      BY <2>1, RowsInOrder
    <2> QED
      BY <2>2, RowsInOrder
  <1>4. before # {} => LastChange(before).new \in PointValues
    <2>1. before \in SUBSET PointChanges(tables, i)
      OBVIOUS
    <2> HIDE DEF before
    <2>2. before # {} => LastChange(before) \in PointChanges(tables, i)
      BY <2>1, RowsInOrder
    <2> QED
      BY <2>2, RowsInOrder
  <1> DEFINE old == IF after = {} THEN Nothing ELSE FirstChange(after).old
             new == IF before = {} THEN Nothing ELSE LastChange(before).new
  <1>5. (old = Nothing \/ old \in Nat) /\ (new = Nothing \/ new \in Nat)
    <2> HIDE DEF after, before
    <2> QED
      BY <1>2, <1>3, <1>4
  <1>6. determine_story_points_at_date(tables, i, at) = Coalesce(old, Coalesce(new, now0))
    BY DEF determine_story_points_at_date
  <1>7. determine_story_points_at_event_time(tables, i, at)
            = IF after = {} THEN now0 ELSE Coalesce(FirstChange(after).old, 0)
    BY DEF determine_story_points_at_event_time
  <1> HIDE DEF old, new, now0, after, before
  <1>8. Coalesce(old, Coalesce(new, now0)) \in Nat
    BY <1>1, <1>5 DEF Coalesce
  <1>9. after # {} => Coalesce(FirstChange(after).old, 0) \in Nat
    BY <1>2, <1>3 DEF Coalesce
  <1> QED
    BY <1>1, <1>6, <1>7, <1>8, <1>9

\* Only issues with a row for the sprint are committed.
LEMMA CommittedHaveRows ==
    ASSUME TypeInv, HistoryInv, NEW log \in SUBSET tables.sprint_issues_changelog
    PROVE  identify_sprint_commitment(tables, log) \in SUBSET tables.sprint_issues
           /\ identify_sprint_commitment(tables, log) \in SUBSET DOMAIN jira
  <1>1. DOMAIN tables.issues = DOMAIN jira
    BY TablesAreThoseOfJira
  <1>2. identify_sprint_commitment(tables, log) \subseteq DOMAIN jira
    BY <1>1 DEF identify_sprint_commitment, Members, AtCutoff, OlderThanSprint, Unlogged, Ghosts, Known
  <1>3. ASSUME NEW i \in DOMAIN jira, i \in identify_sprint_commitment(tables, log)
        PROVE  i \in tables.sprint_issues
    <2> DEFINE E == {e \in SprintEvents(i) : e \in log}
    <2>1. IF log = {} THEN SprintEvents(i) # {}
          ELSE \/ InScopeAfter({e \in E : e.at <= Start0})
               \/ SprintEvents(i) # {} /\ E = {} /\ jira[i].created < Start0
               \/ jira[i].created < Start0 /\ \E e \in E : e.action = "removed" /\ e.at >= Start0
      BY <1>3, CommitmentByIssue
    <2>2. SprintEvents(i) # {}
      BY <2>1 DEF InScopeAfter
    <2> QED
      BY <2>2, SprintLog
  <1> QED
    BY <1>2, <1>3

\* The moves that activate an issue are those at which it left the initial status.
LEMMA MovesThatActivate ==
    ASSUME TypeInv, HistoryInv, NEW i \in DOMAIN jira
    PROVE  LET moves == MovesFromInitial(tables, i, {Initial})
           IN  /\ Times(moves) = Left(i, {Initial}) \cap (Start0 .. End0)
               /\ moves # {} => FirstChange(moves) \in moves
  <1> DEFINE moves == MovesFromInitial(tables, i, {Initial})
  <1>1. /\ Start0 \in Nat /\ End0 \in Nat /\ now \in Nat /\ jira[i].created \in Nat
        /\ Start(tables) = Start0 /\ End(tables) = End0 /\ Nothing \notin Nat
    BY ReportsAssumption, StatusesAreTold, SprintLog DEF TypeInv, Start0, End0, Start, End
  <1>2. \A k \in After(i) : k \in Nat /\ k - 1 \in Life(i) /\ k - 1 < k
    BY <1>1 DEF After, Life
  <1>3. \A k : k \in Left(i, {Initial}) <=>
                k \in After(i) /\ StatusAt(i, k - 1) = Initial /\ StatusAt(i, k) # StatusAt(i, k - 1)
    BY DEF Left
  <1>4. ASSUME NEW c \in ChangesOf(tables, i)
        PROVE  /\ c.at \in After(i) /\ StatusAt(i, c.at) # StatusAt(i, c.at - 1)
               /\ c.from \in {Initial} \cup {Nothing} <=> StatusAt(i, c.at - 1) = Initial
    <2> DEFINE old == StatusAt(i, c.at - 1)
    <2>1. /\ c.at \in After(i) /\ StatusAt(i, c.at) # old
          /\ c.from = IF old \in KnownTo(world, jira) THEN old ELSE Nothing
      BY LogOfAnIssue
    <2>2. old \in KnownTo(world, jira) \/ old = Initial
      <3> DEFINE n == c.at - 1
                 before == {d \in ChangesOf(tables, i) : d.at <= n}
      <3>1. n \in Life(i)
        BY <1>2, <2>1
      <3> HIDE DEF n
      <3>2. IF before = {} THEN StatusAt(i, n) = Initial
            ELSE StatusAt(i, n) \in KnownTo(world, jira)
        BY <3>1, LastChangeTells
      <3> QED
        BY <3>2 DEF n
    <2>3. old \in Statuses
      BY <1>2, <2>1, StatusesAreTold
    <2>4. Nothing \notin Statuses
      BY ReportsAssumption
    <2> HIDE DEF old
    <2> QED
      BY <2>1, <2>2, <2>3, <2>4 DEF old
  <1>5. \A k \in After(i) : StatusAt(i, k) # StatusAt(i, k - 1) => \E c \in ChangesOf(tables, i) : c.at = k
    <2>1. \A k \in After(i) : StatusAt(i, k) # StatusAt(i, k - 1) => k \in Came(i, Statuses)
      <3>1. \A k \in After(i) : StatusAt(i, k) \in Statuses
        <4>1. \A k \in After(i) : k \in Life(i)
          BY <1>1 DEF After, Life
        <4> QED
          BY <4>1, StatusesAreTold
      <3> QED
        BY <3>1 DEF Came
    <2> QED
      BY <2>1, ChangesAreApart
  <1>6. \A c : c \in moves <=> /\ c \in ChangesOf(tables, i) /\ Start0 <= c.at /\ c.at <= End0
                               /\ c.from \in {Initial} \cup {Nothing}
    BY <1>1 DEF MovesFromInitial
  <1> HIDE DEF moves
  <1>7. ASSUME NEW c \in moves
        PROVE  c.at \in Left(i, {Initial}) \cap (Start0 .. End0)
    <2>1. c \in ChangesOf(tables, i) /\ Start0 <= c.at /\ c.at <= End0 /\ c.from \in {Initial} \cup {Nothing}
      BY <1>6
    <2>2. c.at \in Left(i, {Initial}) /\ c.at \in Nat
      BY <1>2, <1>3, <1>4, <2>1
    <2> QED
      BY <1>1, <2>1, <2>2
  <1>8. ASSUME NEW k \in Left(i, {Initial}) \cap (Start0 .. End0)
        PROVE  \E c \in moves : c.at = k
    <2>1. k \in After(i) /\ StatusAt(i, k - 1) = Initial /\ StatusAt(i, k) # StatusAt(i, k - 1)
          /\ Start0 <= k /\ k <= End0
      BY <1>1, <1>3
    <2>2. PICK c \in ChangesOf(tables, i) : c.at = k
      BY <1>5, <2>1
    <2> QED
      BY <1>4, <1>6, <2>1, <2>2
  <1>9. Times(moves) = Left(i, {Initial}) \cap (Start0 .. End0)
    BY <1>7, <1>8 DEF Times
  <1>10. ASSUME moves # {}
         PROVE  FirstChange(moves) \in moves
    <2> DEFINE times == {c.at : c \in moves}
    <2>1. times \in SUBSET Nat /\ times # {}
      BY <1>1, <1>7, <1>10
    <2>2. \E m \in times : \A k \in times : m <= k
      <3> HIDE DEF times
      <3> QED
        BY <2>1, LeastNatural
    <2>3. \E c \in moves : \A d \in moves : c.at <= d.at
      BY <2>2
    <2> QED
      BY <2>3 DEF FirstChange
  <1> QED
    BY <1>9, <1>10 DEF moves

\* A percentage grows with its numerator.
LEMMA QuotientsGrow ==
    ASSUME NEW a \in Nat, NEW b \in Nat, a <= b, NEW n \in Nat \ {0}
    PROVE  /\ (a * 100) \div n <= (b * 100) \div n
           /\ (a * 100) \div n \in Nat /\ (b * 100) \div n \in Nat
  <1> DEFINE x == a * 100
             y == b * 100
  <1>1. x \in Nat /\ y \in Nat /\ x <= y
    OBVIOUS
  <1> HIDE DEF x, y
  <1>2. x \div n <= y \div n /\ x \div n \in Nat /\ y \div n \in Nat
    BY <1>1
  <1> QED
    BY <1>2 DEF x, y

\* What counts as activated left the initial status during the sprint, and what a later day
\* counts is no less (sprint_health.py).
THEOREM ActivatedHaveLeft == Spec => []ActivatedHaveLeftTheInitialStatus
  <1>1. ASSUME TypeInv, HistoryInv, IsFiniteSet(DOMAIN jira), Closed
        PROVE  /\ Activated(tables, {Initial}, Day(End0)) =
                    {i \in identify_sprint_commitment(tables, tables.sprint_issues_changelog) :
                        Left(i, {Initial}) \cap (Start0 .. End0) # {}}
               /\ \A d \in Day(Start0) .. Day(End0) :
                    calculate_activation_velocity(tables, {Initial}, d)
                        <= calculate_activation_velocity(tables, {Initial}, Day(End0))
    <2> DEFINE committed == identify_sprint_commitment(tables, tables.sprint_issues_changelog)
               moves(i) == MovesFromInitial(tables, i, {Initial})
               on(d) == Activated(tables, {Initial}, d)
               planned(i) == determine_story_points_at_date(tables, i, Start(tables))
               points(i) == determine_story_points_at_event_time(tables, i, FirstChange(moves(i)).at)
               first(i) == Day(FirstChange(moves(i)).at)
    <2>1. committed \in SUBSET tables.sprint_issues /\ committed \in SUBSET DOMAIN jira
      BY <1>1, CommittedHaveRows
    <2>2. \A d : \A i : i \in on(d) <=> i \in committed /\ i \in tables.sprint_issues /\ moves(i) # {} /\ first(i) <= d
      BY DEF Activated
    <2> HIDE DEF committed, on
    <2>3. \A i \in committed : moves(i) # {} <=> Left(i, {Initial}) \cap (Start0 .. End0) # {}
      <3> TAKE i \in committed
      <3>1. Times(moves(i)) = Left(i, {Initial}) \cap (Start0 .. End0)
        BY <1>1, <2>1, MovesThatActivate
      <3> QED
        BY <3>1 DEF Times
    <2>4. Start0 \in Nat /\ End0 \in Nat /\ PerDay \in Nat \ {0}
      BY <1>1, ReportsAssumption, CalendarAssumption DEF TypeInv, Start0, End0
    <2>5. ASSUME NEW i \in committed, moves(i) # {}
          PROVE  first(i) \in Nat /\ first(i) <= Day(End0)
      <3> DEFINE at == FirstChange(moves(i)).at
      <3>1. FirstChange(moves(i)) \in moves(i) /\ Times(moves(i)) = Left(i, {Initial}) \cap (Start0 .. End0)
        BY <1>1, <2>1, <2>5, MovesThatActivate
      <3>2. at \in Start0 .. End0
        BY <3>1 DEF Times
      <3> HIDE DEF at
      <3>3. at \in Nat /\ at <= End0
        BY <2>4, <3>2
      <3>4. Day(at) \in Nat /\ Day(at) <= Day(End0)
        BY <2>4, <3>3 DEF Day
      <3> QED
        BY <3>4 DEF at
    <2> HIDE DEF moves
    <2>6. on(Day(End0)) = {i \in committed : Left(i, {Initial}) \cap (Start0 .. End0) # {}}
      BY <2>1, <2>2, <2>3, <2>5
    <2>7. \A i \in committed : planned(i) \in Nat /\ points(i) \in Nat
      BY <1>1, <2>1, PointsAreCounted
    <2> HIDE DEF planned, points, first
    <2> DEFINE all == [i \in committed |-> planned(i)]
               total(d) == SumFunction([i \in on(d) |-> points(i)])
    <2>8. IsFiniteSet(committed)
      BY <1>1, <2>1, FS_Subset
    <2>9. SumFunction(all) \in Nat
      <3>1. all \in [committed -> Nat] /\ committed \in SUBSET committed
        BY <2>7
      <3> HIDE DEF all
      <3> QED
        BY <2>8, <3>1, SumGrows
    <2>10. \A d : calculate_activation_velocity(tables, {Initial}, d) =
                IF SumFunction(all) = 0 THEN 0
                ELSE Min({100, (total(d) * 100) \div SumFunction(all)})
      BY DEF calculate_activation_velocity, committed, on, planned, points, moves
    <2>11. ASSUME NEW d \in Day(Start0) .. Day(End0)
           PROVE  total(d) \in Nat /\ total(Day(End0)) \in Nat /\ total(d) <= total(Day(End0))
      <3> DEFINE e == Day(End0)
                 S == on(e)
                 T == on(d)
                 f == [i \in S |-> points(i)]
                 g == [i \in T |-> points(i)]
      <3>1. e \in Int /\ d \in Int /\ d <= e
        BY <2>4 DEF Day
      <3>2. T \in SUBSET S
        BY <2>2, <2>5
      <3>3. S \in SUBSET committed
        BY <2>2
      <3>4. f \in [S -> Nat] /\ g \in [T -> Nat] /\ \A i \in T : f[i] = g[i]
        BY <2>7, <3>2, <3>3
      <3>5. IsFiniteSet(S)
        BY <2>8, <3>3, FS_Subset
      <3> HIDE DEF e, S, T, f, g
      <3>6. SumFunction(g) \in Nat /\ SumFunction(f) \in Nat /\ SumFunction(g) <= SumFunction(f)
        BY <3>2, <3>4, <3>5, SumGrows
      <3> QED
        BY <3>6 DEF e, S, T, f, g
    <2> HIDE DEF all, total
    <2>12. ASSUME NEW d \in Day(Start0) .. Day(End0)
           PROVE  calculate_activation_velocity(tables, {Initial}, d)
                        <= calculate_activation_velocity(tables, {Initial}, Day(End0))
      <3> DEFINE n == SumFunction(all)
                 a == total(d)
                 b == total(Day(End0))
      <3>1. n \in Nat /\ a \in Nat /\ b \in Nat /\ a <= b
        BY <2>9, <2>11
      <3>2. /\ calculate_activation_velocity(tables, {Initial}, d) =
                    IF n = 0 THEN 0 ELSE Min({100, (a * 100) \div n})
            /\ calculate_activation_velocity(tables, {Initial}, Day(End0)) =
                    IF n = 0 THEN 0 ELSE Min({100, (b * 100) \div n})
        BY <2>10
      <3> HIDE DEF n, a, b
      <3>3. CASE n = 0
        BY <3>2, <3>3
      <3>4. CASE n # 0
        <4> DEFINE x == (a * 100) \div n
                   y == (b * 100) \div n
        <4>1. x \in Nat /\ y \in Nat /\ x <= y
          BY <3>1, <3>4, QuotientsGrow
        <4> HIDE DEF x, y
        <4>2. ASSUME NEW z \in Nat
              PROVE  Min({100, z}) \in {100, z} /\ Min({100, z}) <= 100 /\ Min({100, z}) <= z
          <5> DEFINE pair == {100, z}
          <5>1. pair \in SUBSET Nat /\ pair # {}
            OBVIOUS
          <5>2. Min(pair) \in pair /\ \A v \in pair : Min(pair) <= v
            <6> HIDE DEF pair
            <6> QED
              BY <5>1, MinIsLeast
          <5> QED
            BY <5>2
        <4>3. Min({100, x}) <= 100 /\ Min({100, x}) <= x /\ Min({100, x}) \in {100, x}
          BY <4>1, <4>2
        <4>4. Min({100, y}) \in {100, y}
          BY <4>1, <4>2
        <4>5. Min({100, x}) <= Min({100, y})
          BY <4>1, <4>3, <4>4
        <4> QED
          BY <3>2, <3>4, <4>5 DEF x, y
      <3> QED
        BY <3>3, <3>4
    <2> QED
      BY <2>6, <2>12 DEF committed, on
  <1>2. TypeInv /\ HistoryInv /\ IsFiniteSet(DOMAIN jira) => ActivatedHaveLeftTheInitialStatus
    BY <1>1 DEF ActivatedHaveLeftTheInitialStatus
  <1> QED
    BY <1>2, ReportsCorrect, IssuesAreFinite, PTL

-----------------------------------------------------------------------------
\* s is the part of t about the issues in ids, with all changes of the sprint.
IsSlice(s, t, ids) ==
    /\ ids \in SUBSET DOMAIN t.issues
    /\ DOMAIN s.issues = ids /\ \A i \in ids : s.issues[i] = t.issues[i]
    /\ s.status_changelog = {c \in t.status_changelog : c.issue \in ids}
    /\ s.points_changelog = {c \in t.points_changelog : c.issue \in ids}
    /\ s.sprint_issues = t.sprint_issues
    /\ s.sprint_issues_changelog = t.sprint_issues_changelog
    /\ s.columns = t.columns /\ s.category = t.category /\ s.sprint = t.sprint

\* What a slice is given is such a part.
LEMMA SlicesArePart ==
    ASSUME TypeInv, NEW ids \in SUBSET DOMAIN tables.issues
    PROVE  IsSlice(Sliced(tables, ids), tables, ids)
  <1>1. tables = TablesOf(world, jira, now)
    BY DEF TypeInv
  <1> DEFINE s == Sliced(tables, ids)
  <1>2. /\ s.issues = [i \in ids |-> tables.issues[i]]
        /\ s.status_changelog = {c \in tables.status_changelog : c.issue \in ids}
        /\ s.points_changelog = {c \in tables.points_changelog : c.issue \in ids}
        /\ s.sprint_issues = tables.sprint_issues
        /\ s.sprint_issues_changelog = tables.sprint_issues_changelog
        /\ s.columns = tables.columns /\ s.category = tables.category /\ s.sprint = tables.sprint
    BY <1>1 DEF Sliced, TablesOf
  <1> HIDE DEF s
  <1> QED
    BY <1>2 DEF IsSlice, s

\* The scope of a slice is its part of the scope.
LEMMA ScopeOfASlice ==
    ASSUME NEW s, NEW t, NEW ids, IsSlice(s, t, ids)
    PROVE  /\ Commitment(s) = Commitment(t) \cap ids
           /\ FinalScope(s) = FinalScope(t) \cap ids
           /\ VelocityEvents(s) = VelocityEvents(t) /\ Start(s) = Start(t) /\ End(s) = End(t)
  <1>1. Start(s) = Start(t) /\ End(s) = End(t)
    BY DEF IsSlice, Start, End
  <1>2. VelocityEvents(s) = VelocityEvents(t)
    BY <1>1 DEF IsSlice, VelocityEvents
  <1> DEFINE log == VelocityEvents(t)
  <1>3. /\ ids \in SUBSET DOMAIN t.issues /\ DOMAIN s.issues = ids
        /\ s.sprint_issues = t.sprint_issues
        /\ \A i \in ids : s.issues[i] = t.issues[i]
    BY DEF IsSlice
  <1> HIDE DEF log
  <1>4. Members(s) = Members(t) \cap ids
    BY <1>3 DEF Members
  <1>5. Unlogged(s, log) = Unlogged(t, log) \cap ids
    BY <1>4 DEF Unlogged
  <1>6. \A e : e \in Known(s, log) <=> e \in Known(t, log) /\ e.issue \in ids
    BY <1>3 DEF Known
  <1>7. AtCutoff(s, log) = AtCutoff(t, log) \cap ids
    BY <1>1, <1>6 DEF AtCutoff
  <1>8. \A S : OlderThanSprint(s, S \cap ids) = OlderThanSprint(t, S) \cap ids
    BY <1>1, <1>3 DEF OlderThanSprint
  <1>9. Ghosts(s, log) = Ghosts(t, log) \cap ids
    <2> DEFINE out(x) == {e.issue : e \in {e \in Known(x, log) : e.action = "removed" /\ e.at >= Start(x)}}
    <2>1. out(s) = out(t) \cap ids
      BY <1>1, <1>6
    <2>2. Ghosts(s, log) = OlderThanSprint(s, out(s)) /\ Ghosts(t, log) = OlderThanSprint(t, out(t))
      BY DEF Ghosts
    <2> HIDE DEF out
    <2> QED
      BY <1>8, <2>1, <2>2
  <1>10. Commitment(s) = Commitment(t) \cap ids
    <2>1. OlderThanSprint(s, Unlogged(s, log)) = OlderThanSprint(t, Unlogged(t, log)) \cap ids
      BY <1>5, <1>8
    <2>2. identify_sprint_commitment(s, log) = identify_sprint_commitment(t, log) \cap ids
      BY <1>4, <1>7, <1>9, <2>1 DEF identify_sprint_commitment
    <2> QED
      BY <1>2, <2>2 DEF Commitment, log
  <1>11. FinalScope(s) = FinalScope(t) \cap ids
    <2> DEFINE in(x) == {e.issue : e \in {e \in Known(x, log) : InScopeAfter(EventsOf(log, e.issue))}}
    <2>1. in(s) = in(t) \cap ids
      BY <1>6
    <2>2. /\ identify_sprint_final_scope(s, log) = in(s) \cup Unlogged(s, log)
          /\ identify_sprint_final_scope(t, log) = in(t) \cup Unlogged(t, log)
      BY DEF identify_sprint_final_scope
    <2>3. identify_sprint_final_scope(s, log) = identify_sprint_final_scope(t, log) \cap ids
      <3> HIDE DEF in
      <3> QED
        BY <1>5, <2>1, <2>2
    <2> QED
      BY <1>2, <2>3 DEF FinalScope, log
  <1> QED
    BY <1>1, <1>2, <1>10, <1>11

\* What a slice finds completed is its part of what was completed: where a slice has no
\* change of a status, the calculation without a history says the same as the other.
LEMMA CompletedOfASlice ==
    ASSUME NEW s, NEW t, NEW ids, IsSlice(s, t, ids)
    PROVE  Completed(s) = Completed(t) \cap ids
  <1> DEFINE done == get_done_status_ids(t)
  <1>1. get_done_status_ids(s) = done
    BY DEF IsSlice, get_done_status_ids
  <1>2. /\ FinalScope(s) = FinalScope(t) \cap ids /\ Start(s) = Start(t) /\ End(s) = End(t)
    BY ScopeOfASlice
  <1>3. /\ \A i \in ids : s.issues[i] = t.issues[i] /\ ChangesOf(s, i) = ChangesOf(t, i)
        /\ s.status_changelog \subseteq t.status_changelog
        /\ s.status_changelog = {} => \A i \in ids : ChangesOf(t, i) = {}
    BY DEF IsSlice, ChangesOf
  <1> HIDE DEF done
  <1> DEFINE resolved(x, i) == x.issues[i].resolved # Nothing /\ InSprint(x, x.issues[i].resolved)
             now0(x, i) == x.issues[i].status \in done /\ resolved(x, i)
             then(x, i) == DoneAtEnd(x, i, done) /\ DoneInSprint(x, i, done)
  <1>4. \A i \in ids : now0(s, i) <=> now0(t, i)
    BY <1>2, <1>3 DEF InSprint
  <1>5. \A i \in ids : then(s, i) <=> then(t, i)
    <2> TAKE i \in ids
    <2>1. DoneAtEnd(s, i, done) <=> DoneAtEnd(t, i, done)
      BY <1>2, <1>3 DEF DoneAtEnd
    <2>2. Entries(s, i, done) = Entries(t, i, done)
      BY <1>3 DEF Entries
    <2>3. DoneInSprint(s, i, done) <=> DoneInSprint(t, i, done)
      BY <1>2, <1>3, <2>2 DEF DoneInSprint, InSprint
    <2> QED
      BY <2>1, <2>3
  <1>6. ASSUME NEW i \in ids, ChangesOf(t, i) = {}
        PROVE  now0(t, i) <=> then(t, i)
    <2>1. Entries(t, i, done) = {}
      BY <1>6 DEF Entries
    <2>2. DoneInSprint(t, i, done) <=> resolved(t, i)
      BY <2>1 DEF DoneInSprint, Times
    <2>3. DoneAtEnd(t, i, done) <=> t.issues[i].status \in done
      BY <1>6 DEF DoneAtEnd
    <2> QED
      BY <2>2, <2>3
  <1>7. ASSUME NEW x \in {s, t}
        PROVE  \A i : i \in identify_completed_issues(x, FinalScope(x), done) <=>
                    /\ i \in FinalScope(x)
                    /\ IF x.status_changelog = {} \/ done = {} THEN now0(x, i) ELSE then(x, i)
    BY DEF identify_completed_issues
  <1> HIDE DEF now0, then
  <1>8. \A i : i \in identify_completed_issues(s, FinalScope(s), done) <=>
                    i \in identify_completed_issues(t, FinalScope(t), done) /\ i \in ids
    <2> TAKE i
    <2>1. CASE i \notin ids
      BY <1>2, <1>7, <2>1
    <2>2. CASE i \in ids /\ (t.status_changelog = {} \/ done = {})
      BY <1>2, <1>3, <1>4, <1>7, <2>2
    <2>3. CASE i \in ids /\ s.status_changelog = {} /\ t.status_changelog # {} /\ done # {}
      BY <1>2, <1>3, <1>4, <1>6, <1>7, <2>3
    <2>4. CASE i \in ids /\ s.status_changelog # {} /\ t.status_changelog # {} /\ done # {}
      BY <1>2, <1>5, <1>7, <2>4
    <2> QED
      BY <2>1, <2>2, <2>3, <2>4
  <1> QED
    BY <1>1, <1>8 DEF Completed, done

\* A slice finds the points of its issues that all issues together show.
LEMMA PointsOfASlice ==
    ASSUME NEW s, NEW t, NEW ids, IsSlice(s, t, ids), NEW i \in ids
    PROVE  PlannedPoints(s, i) = PlannedPoints(t, i) /\ CompletedPoints(s, i) = CompletedPoints(t, i)
  <1>1. /\ Start(s) = Start(t) /\ End(s) = End(t) /\ Commitment(s) = Commitment(t) \cap ids
    BY ScopeOfASlice
  <1>2. s.issues[i] = t.issues[i] /\ PointChanges(s, i) = PointChanges(t, i)
    BY DEF IsSlice, PointChanges
  <1>3. \A at : determine_story_points_at_date(s, i, at) = determine_story_points_at_date(t, i, at)
    BY <1>2 DEF determine_story_points_at_date
  <1>4. historic_max_sp(s, i) = historic_max_sp(t, i)
    BY <1>2 DEF historic_max_sp
  <1>5. PlannedPoints(s, i) = PlannedPoints(t, i)
    BY <1>1, <1>3, <1>4 DEF PlannedPoints
  <1> QED
    BY <1>1, <1>3, <1>4, <1>5 DEF CompletedPoints

\* The points of an issue in the velocity are a number.
LEMMA VelocityPointsAreCounted ==
    ASSUME TypeInv, HistoryInv, NEW i \in DOMAIN jira
    PROVE  PlannedPoints(tables, i) \in Nat /\ CompletedPoints(tables, i) \in Nat
  <1> DEFINE rows == PointChanges(tables, i)
             values == (UNION {{c.old, c.new} : c \in rows}) \ {Nothing, 0}
  <1>1. \A r \in rows : r.at \in After(i) /\ r.at \in Nat /\ r.old \in PointValues /\ r.new \in PointValues
    BY RowsInOrder
  <1>2. \A r, q \in rows : r.at = q.at => r = q
    <2> DEFINE row(j, c) == [issue |-> j, old |-> c.from, new |-> c.to, at |-> c.at]
               log == UNION {{row(j, c) : c \in jira[j].pointChanges} : j \in DOMAIN jira}
    <2>1. tables.points_changelog = log
      BY DEF TypeInv, TablesOf
    <2>2. \A j, c : row(j, c).issue = j /\ row(j, c).at = c.at
      OBVIOUS
    <2>3. \A r : r \in log <=> \E j \in DOMAIN jira : \E c \in jira[j].pointChanges : r = row(j, c)
      OBVIOUS
    <2>4. \A c, d \in jira[i].pointChanges : c.at = d.at => row(i, c) = row(i, d)
      BY EstimatesAreTold DEF Tells
    <2> HIDE DEF row, log
    <2>5. \A r \in rows : r \in log /\ r.issue = i
      BY <2>1 DEF PointChanges
    <2>6. \A r \in rows : \E c \in jira[i].pointChanges : r = row(i, c)
      BY <2>2, <2>3, <2>5
    <2> QED
      BY <2>2, <2>4, <2>6
  <1> HIDE DEF rows
  <1>3. IsFiniteSet(rows)
    <2> DEFINE T == {r.at : r \in rows}
    <2>1. T \in SUBSET After(i) /\ \A r \in rows : r.at \in T
      BY <1>1
    <2> HIDE DEF T
    <2>2. IsFiniteSet(T)
      BY <2>1, TicksAreFinite
    <2> QED
      BY <1>2, <2>1, <2>2, RowsAreFinite
  <1>4. values \in SUBSET Nat
    <2>1. \A x \in values : \E c \in rows : x \in {c.old, c.new} /\ x # Nothing
      OBVIOUS
    <2>2. \A x \in PointValues : x # Nothing => x \in Nat
      BY ReportsAssumption DEF PointValues
    <2> HIDE DEF values
    <2> QED
      BY <1>1, <2>1, <2>2
  <1>5. IsFiniteSet(values)
    <2> DEFINE pairs == {{c.old, c.new} : c \in rows}
               f == [c \in rows |-> {c.old, c.new}]
    <2>1. IsFiniteSet(pairs)
      <3>1. f \in [rows -> pairs] /\ \A p \in pairs : \E c \in rows : f[c] = p
        OBVIOUS
      <3> HIDE DEF f, pairs
      <3>2. f \in Surjection(rows, pairs)
        BY <3>1 DEF Surjection
      <3> QED
        BY <1>3, <3>2, FS_Surjection
    <2>2. \A p \in pairs : IsFiniteSet(p)
      <3>1. \A c \in rows : IsFiniteSet({c.old, c.new})
        <4> TAKE c \in rows
        <4>1. {c.old, c.new} = {c.old} \cup {c.new}
          OBVIOUS
        <4>2. IsFiniteSet({c.old}) /\ IsFiniteSet({c.new})
          BY FS_Singleton
        <4> QED
          BY <4>1, <4>2, FS_Union
      <3> QED
        BY <3>1
    <2> HIDE DEF pairs
    <2>3. IsFiniteSet(UNION pairs)
      BY <2>1, <2>2, FS_UNION
    <2>4. values \in SUBSET UNION pairs
      BY DEF pairs
    <2> HIDE DEF values
    <2> QED
      BY <2>3, <2>4, FS_Subset
  <1>6. historic_max_sp(tables, i) = IF values = {} THEN 0 ELSE Max(values)
    BY DEF historic_max_sp, rows
  <1> HIDE DEF values
  <1>7. historic_max_sp(tables, i) \in Nat
    <2>1. CASE values = {}
      BY <1>6, <2>1
    <2>2. CASE values # {}
      <3>1. values \in SUBSET Int
        BY <1>4
      <3>2. Max(values) \in values
        BY <1>5, <2>2, <3>1, MaxIsGreatest
      <3> QED
        BY <1>4, <1>6, <2>2, <3>2
    <2> QED
      BY <2>1, <2>2
  <1>8. \A at : determine_story_points_at_date(tables, i, at) \in Nat
    BY PointsAreCounted
  <1>9. \A a, b \in Nat : PositiveOr(a, b) \in Nat
    BY DEF PositiveOr
  <1>10. PlannedPoints(tables, i) \in Nat
    BY <1>7, <1>8, <1>9 DEF PlannedPoints
  <1> DEFINE planned == IF i \in Commitment(tables) THEN PlannedPoints(tables, i) ELSE 0
             end == determine_story_points_at_date(tables, i, End(tables))
             top == historic_max_sp(tables, i)
  <1>11. planned \in Nat /\ end \in Nat /\ top \in Nat
    BY <1>7, <1>8, <1>10
  <1>12. CompletedPoints(tables, i) = PositiveOr(end, PositiveOr(planned, top))
    BY DEF CompletedPoints
  <1> HIDE DEF planned, end, top
  <1> QED
    BY <1>9, <1>10, <1>11, <1>12

\* What is summed over a set may be looked up in any function that agrees with it there.
LEMMA SumOfAPart ==
    ASSUME NEW D, NEW f \in [D -> Int], NEW A \in SUBSET D, IsFiniteSet(A),
           NEW h \in [A -> Int], \A x \in A : h[x] = f[x]
    PROVE  SumFunction(h) = SumFunctionOnSet(f, A) /\ SumFunction(h) \in Int
  <1>1. SumFunction(h) = SumFunctionOnSet(h, A)
    BY WholeSum
  <1>2. SumFunctionOnSet(h, A) = SumFunctionOnSet(f, A)
    BY SumsAgree
  <1>3. SumFunctionOnSet(f, A) \in Int
    BY SumSteps
  <1> QED
    BY <1>1, <1>2, <1>3

\* count and total have for each kind the number of its issues in A, and the sum of their
\* points.
ByKind(D, A, K, kind, points, count, total) ==
    /\ A \in SUBSET D /\ IsFiniteSet(A) /\ IsFiniteSet(K)
    /\ kind \in [D -> K] /\ points \in [D -> Int]
    /\ count = [k \in K |-> Cardinality({x \in A : kind[x] = k})]
    /\ total = [k \in K |-> total[k]]
    /\ \A k \in K : \E h \in [{x \in A : kind[x] = k} -> Int] :
            total[k] = SumFunction(h) /\ \A x \in {x \in A : kind[x] = k} : h[x] = points[x]

\* What is summed and what is counted for each kind of issue adds up to the whole.
LEMMA KindsAddUp ==
    ASSUME NEW D, NEW A, NEW K, NEW kind, NEW points, NEW count, NEW total,
           ByKind(D, A, K, kind, points, count, total)
    PROVE  /\ Cardinality(A) = SumFunction(count)
           /\ SumFunction([x \in A |-> points[x]]) = SumFunction(total)
  <1> DEFINE part(k) == {x \in A : kind[x] = k}
             key == [x \in A |-> kind[x]]
             ones == [x \in D |-> 1]
  <1>0. /\ A \in SUBSET D /\ IsFiniteSet(A) /\ IsFiniteSet(K)
        /\ kind \in [D -> K] /\ points \in [D -> Int]
    BY DEF ByKind
  <1>1. /\ key \in [A -> K] /\ \A k \in K : part(k) = {x \in A : key[x] = k}
        /\ ones \in [D -> Int] /\ \A x \in D : ones[x] = 1
    BY <1>0
  <1>2. \A k \in K : part(k) \in SUBSET D /\ part(k) \in SUBSET A /\ IsFiniteSet(part(k))
    BY <1>0, FS_Subset
  <1>3. \A k \in K : count[k] = Cardinality(part(k))
    BY DEF ByKind
  <1>4. \A k \in K : \E h \in [part(k) -> Int] : total[k] = SumFunction(h) /\ \A x \in part(k) : h[x] = points[x]
    BY DEF ByKind
  <1> HIDE DEF part, key, ones
  <1>5. ASSUME NEW k \in K
        PROVE  /\ count[k] = SumFunctionOnSet(ones, part(k)) /\ count[k] \in Int
               /\ total[k] = SumFunctionOnSet(points, part(k)) /\ total[k] \in Int
    <2>1. part(k) \in SUBSET D /\ IsFiniteSet(part(k))
      BY <1>2
    <2>2. SumFunctionOnSet(ones, part(k)) = Cardinality(part(k))
      <3>1. \A x \in part(k) : ones[x] = 1
        BY <1>1, <2>1
      <3> QED
        BY <1>1, <2>1, <3>1, CountIsSum
    <2>3. SumFunctionOnSet(ones, part(k)) \in Int
      BY <1>1, <2>1, SumSteps
    <2>4. PICK h \in [part(k) -> Int] : total[k] = SumFunction(h) /\ \A x \in part(k) : h[x] = points[x]
      BY <1>4
    <2>5. SumFunction(h) = SumFunctionOnSet(points, part(k)) /\ SumFunction(h) \in Int
      BY <1>0, <2>1, <2>4, SumOfAPart
    <2> QED
      BY <1>3, <2>2, <2>3, <2>4, <2>5
  <1>6. count \in [K -> Int]
    BY <1>5 DEF ByKind
  <1>7. total \in [K -> Int]
    BY <1>5 DEF ByKind
  <1>8. SumFunction(count) = SumFunctionOnSet(count, K) /\ SumFunction(total) = SumFunctionOnSet(total, K)
    BY ONLY <1>6, <1>7, WholeSum
  <1>9. \A k \in K : /\ count[k] = SumFunctionOnSet(ones, {x \in A : key[x] = k})
                     /\ total[k] = SumFunctionOnSet(points, {x \in A : key[x] = k})
    BY <1>1, <1>5
  <1>10. SumFunctionOnSet(ones, A) = SumFunctionOnSet(count, K)
    BY ONLY <1>0, <1>1, <1>6, <1>9, SumByKey
  <1>11. SumFunctionOnSet(points, A) = SumFunctionOnSet(total, K)
    BY ONLY <1>0, <1>1, <1>7, <1>9, SumByKey
  <1>12. SumFunctionOnSet(ones, A) = Cardinality(A)
    BY <1>0, <1>1, CountIsSum
  <1>13. SumFunction([x \in A |-> points[x]]) = SumFunctionOnSet(points, A)
    <2> DEFINE h == [x \in A |-> points[x]]
    <2>1. h \in [A -> Int] /\ \A x \in A : h[x] = points[x]
      BY <1>0
    <2> HIDE DEF h
    <2> QED
      BY <1>0, <2>1, SumOfAPart DEF h
  <1> QED
    BY <1>8, <1>10, <1>11, <1>12, <1>13

\* The facts of the velocity are the sums of those of its slices, whatever issues are sliced
\* (velocity.py, slicing_utils.py).
THEOREM VelocitySlicesAddUp == Spec => []SlicesAddUp
  <1>1. ASSUME TypeInv, HistoryInv, IsFiniteSet(DOMAIN jira)
        PROVE  SlicesAddUp
    <2> DEFINE D == DOMAIN tables.issues
               K == {tables.issues[i].type : i \in D}
               kind == [i \in D |-> tables.issues[i].type]
               ids(v) == {i \in D : tables.issues[i].type = v}
               slice(v) == Sliced(tables, ids(v))
    <2>1. D = DOMAIN jira /\ IsFiniteSet(D)
      BY <1>1, TablesAreThoseOfJira
    <2>2. IsFiniteSet(K)
      <3>1. kind \in [D -> K] /\ \A v \in K : \E i \in D : kind[i] = v
        OBVIOUS
      <3> HIDE DEF D, K, kind
      <3>2. kind \in Surjection(D, K)
        BY <3>1 DEF Surjection
      <3> QED
        BY <2>1, <3>2, FS_Surjection
    <2>3. kind \in [D -> K] /\ \A v : ids(v) = {i \in D : kind[i] = v}
      OBVIOUS
    <2>4. \A v : ids(v) \in SUBSET D
      OBVIOUS
    <2> HIDE DEF D, K, kind, ids
    <2>5. \A v : IsSlice(slice(v), tables, ids(v))
      BY <1>1, <2>4, SlicesArePart DEF D
    <2> HIDE DEF slice
    <2>6. \A v : /\ Commitment(slice(v)) = Commitment(tables) \cap ids(v)
                  /\ Completed(slice(v)) = Completed(tables) \cap ids(v)
      BY <2>5, ScopeOfASlice, CompletedOfASlice
    <2>7. \A v : \A i \in ids(v) : /\ PlannedPoints(slice(v), i) = PlannedPoints(tables, i)
                                   /\ CompletedPoints(slice(v), i) = CompletedPoints(tables, i)
      BY <2>5, PointsOfASlice
    <2>8. \A i \in D : PlannedPoints(tables, i) \in Int /\ CompletedPoints(tables, i) \in Int
      BY <1>1, <2>1, VelocityPointsAreCounted
    <2>9. Commitment(tables) \in SUBSET D /\ Completed(tables) \in SUBSET D
      <3>1. Commitment(tables) \subseteq D
        BY DEF Commitment, identify_sprint_commitment, Members, AtCutoff, OlderThanSprint, Unlogged,
               Ghosts, Known, D
      <3>2. FinalScope(tables) \subseteq D
        BY DEF FinalScope, identify_sprint_final_scope, Members, Unlogged, Known, D
      <3>3. Completed(tables) \subseteq FinalScope(tables)
        BY DEF Completed, identify_completed_issues
      <3> QED
        BY <3>1, <3>2, <3>3
    <2> DEFINE C == Commitment(tables)
               F == Completed(tables)
               planned == [i \in D |-> PlannedPoints(tables, i)]
               completed == [i \in D |-> CompletedPoints(tables, i)]
               counted(S) == [v \in K |-> Cardinality({x \in S : kind[x] = v})]
               plannedOf == [v \in K |-> SumFunction([i \in Commitment(slice(v)) |-> PlannedPoints(slice(v), i)])]
               completedOf == [v \in K |-> SumFunction([i \in Completed(slice(v)) |-> CompletedPoints(slice(v), i)])]
    <2>10. /\ C \in SUBSET D /\ F \in SUBSET D /\ planned \in [D -> Int] /\ completed \in [D -> Int]
           /\ IsFiniteSet(C) /\ IsFiniteSet(F)
      BY <2>1, <2>8, <2>9, FS_Subset
    <2>11. \A v \in K : /\ Commitment(slice(v)) = {x \in C : kind[x] = v}
                        /\ Completed(slice(v)) = {x \in F : kind[x] = v}
      BY <2>3, <2>6, <2>9
    <2>12. ASSUME NEW v \in K
           PROVE  /\ \E h \in [{x \in C : kind[x] = v} -> Int] :
                        plannedOf[v] = SumFunction(h) /\ \A x \in {x \in C : kind[x] = v} : h[x] = planned[x]
                  /\ \E h \in [{x \in F : kind[x] = v} -> Int] :
                        completedOf[v] = SumFunction(h) /\ \A x \in {x \in F : kind[x] = v} : h[x] = completed[x]
      <3> DEFINE hp == [i \in Commitment(slice(v)) |-> PlannedPoints(slice(v), i)]
                 hc == [i \in Completed(slice(v)) |-> CompletedPoints(slice(v), i)]
                 cv == {x \in C : kind[x] = v}
                 fv == {x \in F : kind[x] = v}
      <3>1. cv \subseteq ids(v) /\ fv \subseteq ids(v) /\ cv \subseteq D /\ fv \subseteq D
        BY <2>3, <2>9
      <3>2. hp \in [cv -> Int] /\ \A x \in cv : hp[x] = planned[x]
        BY <2>7, <2>8, <2>11, <3>1
      <3>3. hc \in [fv -> Int] /\ \A x \in fv : hc[x] = completed[x]
        BY <2>7, <2>8, <2>11, <3>1
      <3>4. plannedOf[v] = SumFunction(hp) /\ completedOf[v] = SumFunction(hc)
        OBVIOUS
      <3> HIDE DEF hp, hc, plannedOf, completedOf, planned, completed
      <3> QED
        BY <3>2, <3>3, <3>4
    <2>13. /\ DOMAIN plannedOf = K /\ plannedOf = [v \in K |-> plannedOf[v]]
           /\ DOMAIN completedOf = K /\ completedOf = [v \in K |-> completedOf[v]]
      OBVIOUS
    <2>14. /\ calculate_velocity_facts(tables).planned_issues = Cardinality(C)
           /\ calculate_velocity_facts(tables).planned_story_points = SumFunction([i \in C |-> planned[i]])
           /\ calculate_velocity_facts(tables).completed_issues = Cardinality(F)
           /\ calculate_velocity_facts(tables).completed_story_points = SumFunction([i \in F |-> completed[i]])
           /\ DOMAIN calculate_velocity_facts(tables) =
                {"planned_issues", "planned_story_points", "completed_issues", "completed_story_points"}
      <3>1. [i \in C |-> planned[i]] = [i \in C |-> PlannedPoints(tables, i)]
        BY <2>9
      <3>2. [i \in F |-> completed[i]] = [i \in F |-> CompletedPoints(tables, i)]
        BY <2>9
      <3> HIDE DEF planned, completed
      <3> QED
        BY <3>1, <3>2 DEF calculate_velocity_facts
    <2>15. /\ DOMAIN apply_slicing(tables) = K
           /\ \A v \in K : apply_slicing(tables)[v] = calculate_velocity_facts(slice(v))
      BY DEF apply_slicing, K, slice, ids, D
    <2>16. ASSUME NEW v \in K
           PROVE  /\ apply_slicing(tables)[v].planned_issues = counted(C)[v]
                  /\ apply_slicing(tables)[v].planned_story_points = plannedOf[v]
                  /\ apply_slicing(tables)[v].completed_issues = counted(F)[v]
                  /\ apply_slicing(tables)[v].completed_story_points = completedOf[v]
      <3>1. apply_slicing(tables)[v] = calculate_velocity_facts(slice(v))
        BY <2>15
      <3>2. /\ counted(C)[v] = Cardinality(Commitment(slice(v)))
            /\ counted(F)[v] = Cardinality(Completed(slice(v)))
        BY <2>11
      <3>3. /\ plannedOf[v] = calculate_velocity_facts(slice(v)).planned_story_points
            /\ completedOf[v] = calculate_velocity_facts(slice(v)).completed_story_points
        BY DEF calculate_velocity_facts
      <3>4. /\ calculate_velocity_facts(slice(v)).planned_issues = Cardinality(Commitment(slice(v)))
            /\ calculate_velocity_facts(slice(v)).completed_issues = Cardinality(Completed(slice(v)))
        BY DEF calculate_velocity_facts
      <3> HIDE DEF counted, plannedOf, completedOf, C, F
      <3> QED
        BY <3>1, <3>2, <3>3, <3>4
    <2> DEFINE countedC == counted(C)
               countedF == counted(F)
    <2>17. /\ countedC = [v \in K |-> Cardinality({x \in C : kind[x] = v})]
           /\ countedF = [v \in K |-> Cardinality({x \in F : kind[x] = v})]
      OBVIOUS
    <2>18. /\ [v \in K |-> apply_slicing(tables)[v].planned_issues] = countedC
           /\ [v \in K |-> apply_slicing(tables)[v].planned_story_points] = plannedOf
           /\ [v \in K |-> apply_slicing(tables)[v].completed_issues] = countedF
           /\ [v \in K |-> apply_slicing(tables)[v].completed_story_points] = completedOf
      <3> HIDE DEF plannedOf, completedOf
      <3> QED
        BY <2>13, <2>16
    <2> HIDE DEF C, F, planned, completed, counted, countedC, countedF, plannedOf, completedOf
    <2>19. ByKind(D, C, K, kind, planned, countedC, plannedOf)
      BY <2>2, <2>3, <2>10, <2>12, <2>13, <2>17 DEF ByKind
    <2>20. ByKind(D, F, K, kind, completed, countedF, completedOf)
      BY <2>2, <2>3, <2>10, <2>12, <2>13, <2>17 DEF ByKind
    <2>21. /\ Cardinality(C) = SumFunction(countedC)
           /\ SumFunction([x \in C |-> planned[x]]) = SumFunction(plannedOf)
      BY <2>19, KindsAddUp
    <2>22. /\ Cardinality(F) = SumFunction(countedF)
           /\ SumFunction([x \in F |-> completed[x]]) = SumFunction(completedOf)
      BY <2>20, KindsAddUp
    <2>23. ASSUME NEW fact \in DOMAIN calculate_velocity_facts(tables)
           PROVE  calculate_velocity_facts(tables)[fact] =
                    SumFunction([v \in K |-> apply_slicing(tables)[v][fact]])
      <3>1. CASE fact = "planned_issues"
        BY <2>14, <2>18, <2>21, <3>1
      <3>2. CASE fact = "planned_story_points"
        BY <2>14, <2>18, <2>21, <3>2
      <3>3. CASE fact = "completed_issues"
        BY <2>14, <2>18, <2>22, <3>3
      <3>4. CASE fact = "completed_story_points"
        BY <2>14, <2>18, <2>22, <3>4
      <3> QED
        BY <2>14, <3>1, <3>2, <3>3, <3>4
    <2> QED
      BY <2>15, <2>23 DEF SlicesAddUp
  <1> QED
    BY <1>1, ReportsCorrect, IssuesAreFinite, PTL

-----------------------------------------------------------------------------
\* An issue that was not reopened is done if it ever came to done, and is finished with the
\* first entry there. Where the done column holds the done statuses the throughput has it
\* completed then.
LEMMA FinishOfAnIssue ==
    ASSUME get_done_column_ids(Board) = Done,
           TypeInv, HistoryInv, ResolvedInv, NEW i \in DOMAIN jira, ~Reopened(i)
    PROVE  LET finish == Min(Came(i, Done))
           IN  /\ IsDone(jira[i].status) <=> Came(i, Done) # {}
               /\ Came(i, Done) # {} => /\ finish \in Came(i, Done) /\ finish \in After(i) /\ finish \in Nat
                                        /\ \A k \in Came(i, Done) : k \in Nat /\ finish <= k
               /\ Times(Entries(tables, i, Done)) = Came(i, Done)
               /\ completion_date(tables, i) = IF Came(i, Done) = {} THEN Nothing ELSE finish
  <1> DEFINE C == Came(i, Done)
             finish == Min(C)
  <1>1. /\ jira[i].created \in Nat /\ now \in Nat /\ jira[i].created <= now
        /\ StatusAt(i, now) = jira[i].status /\ jira[i].status \in Statuses
        /\ now \in Life(i)
    <2>1. /\ jira[i].created \in 0 .. now /\ now \in Nat /\ StatusAt(i, now) = jira[i].status
      BY StatusesAreTold
    <2>2. jira[i].status \in Statuses
      BY WorldTypes DEF IssueType
    <2> QED
      BY <2>1, <2>2 DEF Life
  <1>2. /\ \A k \in C : k \in After(i) /\ k \in Life(i) /\ k \in Nat /\ k <= now /\ StatusAt(i, k) \in Done
    BY <1>1 DEF Came, After, Life
  <1>3. IsDone(jira[i].status) <=> StatusAt(i, now) \in Done
    BY <1>1 DEF Done
  <1>4. StatusAt(i, now) \in Done => C # {}
    BY <1>1, DoneIsReached
  <1>5. ASSUME NEW k \in C
        PROVE  StatusAt(i, now) \in Done
    <2> SUFFICES ASSUME StatusAt(i, now) \notin Done
                 PROVE  FALSE
      OBVIOUS
    <2>1. k \in Life(i) /\ k <= now /\ StatusAt(i, k) \in Done
      BY <1>2
    <2>2. \E m \in Left(i, Done) : k < m /\ m <= now
      BY <1>1, <2>1, LeavesBetween
    <2> QED
      BY <2>2 DEF Reopened
  <1>6. C # {} => finish \in C /\ \A k \in C : finish <= k
    <2>1. C \in SUBSET Nat
      BY <1>2
    <2> HIDE DEF C
    <2> QED
      BY <2>1, MinIsLeast
  <1>7. Done \in SUBSET Statuses
    BY DEF Done
  <1>8. Times(Entries(tables, i, Done)) = C
    BY <1>7, LogTellsTheMoves
  <1>9. tables.columns = Board /\ tables.issues[i].resolved = jira[i].resolved
    BY TablesAreThoseOfJira
  <1>10. C = {} => jira[i].resolved = Nothing
    BY ResolvedTicks
  <1> HIDE DEF C, finish
  <1>11. completion_date(tables, i) = IF C = {} THEN Nothing ELSE finish
    <2>1. completion_date(tables, i) = Coalesce(EarliestOf(C), jira[i].resolved)
      BY <1>8, <1>9 DEF completion_date
    <2>2. C # {} => EarliestOf(C) = finish /\ finish # Nothing
      BY <1>2, <1>6, ReportsAssumption DEF EarliestOf, finish
    <2>3. C = {} => EarliestOf(C) = Nothing
      BY DEF EarliestOf
    <2> QED
      BY <1>10, <2>1, <2>2, <2>3 DEF Coalesce
  <1> QED
    BY <1>2, <1>3, <1>4, <1>5, <1>6, <1>8, <1>11 DEF C, finish

\* A later start is no longer away.
LEMMA LaterIsNearer ==
    ASSUME NEW a \in Nat, NEW b \in Nat, NEW c \in Nat, a <= b, b <= c
    PROVE  DaysBetween(b, c) <= DaysBetween(a, c)
  <1> DEFINE x == c - b + PerDay - 1
             y == c - a + PerDay - 1
  <1>1. x \in Nat /\ y \in Nat /\ x <= y /\ PerDay \in Nat \ {0}
    BY CalendarAssumption
  <1> HIDE DEF x, y
  <1>2. x \div PerDay <= y \div PerDay
    BY <1>1
  <1> QED
    BY <1>2 DEF DaysBetween, x, y

\* What the calculations per issue say of a finished issue.
LEMMA FinishPerIssue ==
    ASSUME get_done_column_ids(Board) = Done, ByName.end = Done,
           TypeInv, HistoryInv, ResolvedInv, NEW i \in DOMAIN jira, ~Reopened(i), Came(i, Done) # {}
    PROVE  LET lead == calculate_lead_time_per_issue(tables, ByName)
               life == calculate_issue_lifetime(tables, Done)
               flow == calculate_flow_efficiency_per_issue(tables, Active, Wait, Done)
               finish == Min(Came(i, Done))
           IN  /\ i \in DOMAIN life /\ life[i].end = finish
               /\ i \in DOMAIN lead => lead[i].end = finish /\ lead[i].days <= life[i].days
               /\ i \in DOMAIN flow => flow[i].end = finish
               /\ \A a \in Active, s \in Done :
                    LET cycle == calculate_cycle_time_custom(tables, a, s)
                    IN  i \in DOMAIN cycle => cycle[i].end >= finish
  <1> DEFINE lead == calculate_lead_time_per_issue(tables, ByName)
             life == calculate_issue_lifetime(tables, Done)
             flow == calculate_flow_efficiency_per_issue(tables, Active, Wait, Done)
             finish == Min(Came(i, Done))
  <1>1. /\ finish \in Came(i, Done) /\ finish \in After(i) /\ finish \in Nat
        /\ \A k \in Came(i, Done) : k \in Nat /\ finish <= k
        /\ Times(Entries(tables, i, Done)) = Came(i, Done)
    BY FinishOfAnIssue
  <1>2. /\ i \in Issues(tables) /\ tables.issues[i].created = jira[i].created
        /\ tables.issues[i].resolved = jira[i].resolved
    BY TablesAreThoseOfJira DEF Issues
  <1>3. jira[i].created \in Nat /\ now \in Nat /\ Nothing \notin Nat
    BY StatusesAreTold, ReportsAssumption
  <1>4. EarliestOf(Times(Entries(tables, i, Done))) = finish
    BY <1>1 DEF EarliestOf
  <1> HIDE DEF finish
  <1>5. i \in DOMAIN life /\ life[i] = Span(jira[i].created, finish)
    BY <1>1, <1>2, <1>3, <1>4 DEF calculate_issue_lifetime
  <1>6. ASSUME i \in DOMAIN flow
        PROVE  flow[i].end = finish
    BY <1>4, <1>6 DEF calculate_flow_efficiency_per_issue, Completion
  <1>7. ASSUME i \in DOMAIN lead
        PROVE  lead[i].end = finish /\ lead[i].days <= life[i].days
    <2> DEFINE middle == ByName.middle
               start == CommitmentStart(tables, i, middle, Done)
               end == CommitmentEnd(tables, i, Done)
               ticks == {k \in Came(i, middle) : k <= finish}
    <2>1. middle \in SUBSET Statuses /\ Done \in SUBSET Statuses
      BY PointsAreApart DEF Done
    <2>2. lead[i] = Span(start, end) /\ start # Nothing
      BY <1>7 DEF calculate_lead_time_per_issue
    <2>3. Noted(i, Done) = {}
      BY DEF Reopened, Noted
    <2>4. end = finish /\ start = EarliestOf(ticks)
      <3> DEFINE left == Noted(i, Done)
                 ends == {k \in Came(i, Done) : left # {} => k > Max(left)}
                 last == Coalesce(EarliestOf(ends), jira[i].resolved)
      <3>1. /\ end = last
            /\ start = EarliestOf({k \in Came(i, middle) : k <= last /\ (left # {} => k >= Max(left))})
        <4> HIDE DEF middle
        <4> QED
          BY <2>1, LeadTimeFromTheLog
      <3>2. ends = Came(i, Done)
        BY <2>3
      <3>3. last = finish
        BY <1>1, <1>3, <3>2 DEF EarliestOf, Coalesce, finish
      <3> HIDE DEF last, ends
      <3>4. {k \in Came(i, middle) : k <= last /\ (left # {} => k >= Max(left))} = ticks
        BY <2>3, <3>3
      <3> QED
        BY <3>1, <3>3, <3>4
    <2>5. ticks \in SUBSET Nat /\ ticks \in SUBSET After(i) /\ \A k \in ticks : k <= finish
      BY <1>3 DEF Came, After
    <2>6. start \in ticks
      <3> HIDE DEF ticks, start
      <3> QED
        BY <2>2, <2>4, <2>5, MinIsLeast DEF EarliestOf
    <2>7. start \in Nat /\ jira[i].created <= start /\ start <= finish
      BY <1>3, <2>5, <2>6 DEF After
    <2>8. DaysBetween(start, finish) <= DaysBetween(jira[i].created, finish)
      <3> HIDE DEF start
      <3> QED
        BY <1>1, <1>3, <2>7, LaterIsNearer
    <2> QED
      BY <1>5, <2>2, <2>4, <2>8 DEF Span
  <1>8. ASSUME NEW a \in Active, NEW s \in Done, i \in DOMAIN calculate_cycle_time_custom(tables, a, s)
        PROVE  calculate_cycle_time_custom(tables, a, s)[i].end >= finish
    <2> DEFINE start == EarliestOf(Times(Entries(tables, i, {a})))
               later == {at \in Times(Entries(tables, i, {s})) : at > start}
    <2>1. /\ EarliestOf(later) # Nothing
          /\ calculate_cycle_time_custom(tables, a, s)[i].end = EarliestOf(later)
      BY <1>8 DEF calculate_cycle_time_custom, Span
    <2>2. Times(Entries(tables, i, {s})) = Came(i, {s})
      <3>1. {s} \in SUBSET Statuses
        BY DEF Done
      <3> QED
        BY <3>1, LogTellsTheMoves
    <2>3. Came(i, {s}) \subseteq Came(i, Done)
      BY DEF Came
    <2>4. later \in SUBSET Nat /\ later \subseteq Came(i, Done)
      BY <1>1, <2>2, <2>3
    <2> HIDE DEF later
    <2>5. EarliestOf(later) \in later
      BY <2>1, <2>4, MinIsLeast DEF EarliestOf
    <2> QED
      BY <1>1, <2>1, <2>4, <2>5
  <1> QED
    BY <1>5, <1>6, <1>7, <1>8 DEF Span, finish

-----------------------------------------------------------------------------
\* A status is on the board, which has finitely many columns.
LEMMA StatusesAreFinite == IsFiniteSet(Statuses)
  <1> DEFINE f == [c \in Board |-> c.status]
             S == {c.status : c \in Board}
  <1>1. f \in [Board -> S] /\ \A s \in S : \E c \in Board : f[c] = s
    OBVIOUS
  <1> HIDE DEF f
  <1>2. f \in Surjection(Board, S)
    BY <1>1 DEF Surjection
  <1>3. IsFiniteSet(S)
    <2> HIDE DEF S
    <2> QED
      BY <1>2, FiniteBoardAssumption, FS_Surjection
  <1>4. Statuses \in SUBSET S
    BY ReportsAssumption DEF StatusesOf
  <1> HIDE DEF S
  <1> QED
    BY <1>3, <1>4, FS_Subset

\* The issues completed in a week, counted by type or all at once; they are among those that
\* entered a done status in it, which are counted by status as well (throughput.py,
\* input_flow.py, waste.py).
LEMMA FinishByWeek ==
    ASSUME get_done_column_ids(Board) = Done,
           TypeInv, HistoryInv, ResolvedInv, IsFiniteSet(DOMAIN jira),
           \A i \in DOMAIN jira : ~Reopened(i), NEW w
    PROVE  LET t == tables
               finished == {i \in DOMAIN jira : IsDone(jira[i].status)}
               finish(i) == Min(Came(i, Done))
           IN  /\ calculate_generic_throughput(t, w) =
                    Cardinality({i \in finished : Week(finish(i)) = w})
               /\ calculate_generic_throughput(t, w) =
                    SumFunction([i \in DOMAIN jira |-> calculate_weekly_throughput(t, i, w)])
               /\ calculate_generic_throughput(t, w) <= calculate_input_flow_weekly(t, Done, w)
               /\ calculate_input_flow_weekly(t, Done, w) <=
                    SumFunction([s \in Done |-> calculate_cancellation_rate_weekly(t, {s}, w)])
  <1> DEFINE D == DOMAIN jira
             finished == {i \in D : IsDone(jira[i].status)}
             finish(i) == Min(Came(i, Done))
             C == CompletedIn(tables, w)
             E == Entering(tables, Done, w)
  <1>1. /\ Issues(tables) = D /\ \A i \in D : tables.issues[i].type = i
    BY TablesAreThoseOfJira DEF TypeInv, TablesOf, Issues
  <1>2. \A i \in D : /\ IsDone(jira[i].status) <=> Came(i, Done) # {}
                     /\ Came(i, Done) # {} => finish(i) \in Came(i, Done) /\ finish(i) \in Nat
                     /\ Times(Entries(tables, i, Done)) = Came(i, Done)
                     /\ completion_date(tables, i) = IF Came(i, Done) = {} THEN Nothing ELSE finish(i)
    BY FinishOfAnIssue
  <1>3. Nothing \notin Nat
    BY ReportsAssumption
  <1> HIDE DEF finish
  <1>4. C = {i \in finished : Week(finish(i)) = w}
    BY <1>1, <1>2, <1>3 DEF CompletedIn
  <1>5. E = {i \in D : \E k \in Came(i, Done) : Week(k) = w}
    BY <1>1, <1>2 DEF Entering
  <1>6. C \in SUBSET E /\ E \in SUBSET D /\ C \in SUBSET D
    BY <1>2, <1>4, <1>5
  <1> HIDE DEF C, E, D
  <1>7. /\ calculate_generic_throughput(tables, w) = Cardinality(C)
        /\ calculate_input_flow_weekly(tables, Done, w) = Cardinality(E)
    BY DEF calculate_generic_throughput, calculate_input_flow_weekly, C, E
  <1>8. IsFiniteSet(D)
    BY DEF D
  <1>9. IsFiniteSet(E) /\ IsFiniteSet(C)
    BY <1>6, <1>8, FS_Subset
  <1>10. Cardinality(C) <= Cardinality(E)
    BY <1>6, <1>9, FS_Subset
  <1>11. Cardinality(C) = SumFunction([i \in D |-> calculate_weekly_throughput(tables, i, w)])
    <2> DEFINE part == [i \in D |-> {j \in C : tables.issues[j].type = i}]
               count == [i \in D |-> calculate_weekly_throughput(tables, i, w)]
    <2>1. \A i \in D : part[i] = {j \in C : j = i} /\ part[i] \in SUBSET C
      BY <1>1, <1>6
    <2>2. \A i \in D : count[i] = Cardinality(part[i])
      BY DEF calculate_weekly_throughput, C
    <2>3. UNION {part[i] : i \in D} = C
      BY <1>6, <2>1
    <2>4. \A i, j \in D : i # j => part[i] \cap part[j] = {}
      BY <2>1
    <2>5. part \in [D -> SUBSET C]
      BY <2>1
    <2> HIDE DEF part
    <2>6. \A i \in D : IsFiniteSet(part[i]) /\ Cardinality(part[i]) \in Nat
      BY <1>9, <2>1, FS_Subset, FS_CardinalityType
    <2>7. count \in [D -> Int]
      BY <2>2, <2>6
    <2> HIDE DEF count
    <2>8. Cardinality(UNION {part[i] : i \in D}) = SumFunctionOnSet(count, D)
      <3>1. Parts(D, C, part, count) /\ Apart(D, part)
        BY ONLY <1>8, <2>2, <2>4, <2>5, <2>6, <2>7 DEF Parts, Apart
      <3> QED
        BY ONLY <3>1, CountByParts DEF Whole
    <2>9. SumFunction(count) = SumFunctionOnSet(count, D)
      BY <2>7, WholeSum
    <2> QED
      BY <2>3, <2>8, <2>9 DEF count
  <1>12. Cardinality(E) <= SumFunction([s \in Done |-> calculate_cancellation_rate_weekly(tables, {s}, w)])
    <2> DEFINE part == [s \in Done |-> Entering(tables, {s}, w)]
               count == [s \in Done |-> calculate_cancellation_rate_weekly(tables, {s}, w)]
    <2>1. \A s \in Done : \A i \in D : Times(Entries(tables, i, {s})) = Came(i, {s})
      <3> TAKE s \in Done
      <3>1. {s} \in SUBSET Statuses
        BY DEF Done
      <3> QED
        BY <3>1, LogTellsTheMoves DEF D
    <2>2. \A s \in Done : part[s] = {i \in D : \E k \in Came(i, {s}) : Week(k) = w} /\ part[s] \in SUBSET D
      BY <1>1, <2>1 DEF Entering
    <2>3. \A s \in Done : count[s] = Cardinality(part[s])
      BY DEF calculate_cancellation_rate_weekly
    <2>4. UNION {part[s] : s \in Done} = E
      <3>1. \A i, k : k \in Came(i, Done) <=> \E s \in Done : k \in Came(i, {s})
        BY DEF Came
      <3> HIDE DEF part
      <3>2. \A s \in Done : \A i : i \in part[s] <=> i \in D /\ \E k \in Came(i, {s}) : Week(k) = w
        BY <2>2
      <3>3. \A i : i \in E <=> i \in D /\ \E k \in Came(i, Done) : Week(k) = w
        BY <1>5
      <3>4. \A i : i \in E <=> \E s \in Done : i \in part[s]
        BY <3>1, <3>2, <3>3
      <3> QED
        BY <3>4
    <2>5. part \in [Done -> SUBSET D]
      BY <2>2
    <2> HIDE DEF part
    <2>6. \A s \in Done : IsFiniteSet(part[s]) /\ Cardinality(part[s]) \in Nat
      BY <1>8, <2>2, FS_Subset, FS_CardinalityType
    <2>7. count \in [Done -> Int]
      BY <2>3, <2>6
    <2>8. IsFiniteSet(Done)
      <3>1. Done \in SUBSET Statuses
        BY DEF Done
      <3> QED
        BY <3>1, StatusesAreFinite, FS_Subset
    <2> HIDE DEF count
    <2>9. Cardinality(UNION {part[s] : s \in Done}) <= SumFunctionOnSet(count, Done)
      <3>1. Parts(Done, D, part, count)
        BY ONLY <2>3, <2>5, <2>6, <2>7, <2>8 DEF Parts
      <3> QED
        BY ONLY <3>1, CountOfUnion DEF Whole
    <2>10. SumFunction(count) = SumFunctionOnSet(count, Done)
      BY <2>7, WholeSum
    <2> QED
      BY <2>4, <2>9, <2>10 DEF count
  <1> QED
    BY <1>4, <1>7, <1>10, <1>11, <1>12 DEF D, finish

\* The release burnup: what is done by a day, and when all its points are (delivery.py).
LEMMA FinishByDay ==
    ASSUME get_done_column_ids(Board) = Done,
           TypeInv, HistoryInv, ResolvedInv, IsFiniteSet(DOMAIN jira),
           \A i \in DOMAIN jira : ~Reopened(i)
    PROVE  LET t == tables
               finished == {i \in DOMAIN jira : IsDone(jira[i].status)}
               finish(i) == Min(Came(i, Done))
           IN  /\ \A d \in 0 .. Day(now) :
                    DoneBy(t, DOMAIN jira, Done, d) = {i \in finished : Day(finish(i)) <= d}
               /\ scope_sp(t, DOMAIN jira, Day(now)) = done_sp(t, DOMAIN jira, Done, Day(now)) <=>
                    \A i \in DOMAIN jira \ finished : Points(t, i) = 0
  <1> DEFINE D == DOMAIN jira
             finished == {i \in D : IsDone(jira[i].status)}
             finish(i) == Min(Came(i, Done))
  <1>1. \A i \in D : /\ IsDone(jira[i].status) <=> Came(i, Done) # {}
                     /\ Came(i, Done) # {} => /\ finish(i) \in Came(i, Done) /\ finish(i) \in Nat
                                              /\ \A k \in Came(i, Done) : k \in Nat /\ finish(i) <= k
                     /\ Times(Entries(tables, i, Done)) = Came(i, Done)
    BY FinishOfAnIssue
  <1>2. \A a, b \in Nat : Day(a) \in Nat /\ (a <= b => Day(a) <= Day(b))
    BY CalendarAssumption DEF Day
  <1>3. \A i \in D : \A k \in Came(i, Done) : k <= now /\ k \in Nat /\ now \in Nat
    <2> TAKE i \in D
    <2>1. jira[i].created \in Nat /\ now \in Nat
      BY StatusesAreTold
    <2> QED
      BY <2>1 DEF Came, After
  <1> HIDE DEF finish
  <1>4. ASSUME NEW d \in Int
        PROVE  DoneBy(tables, D, Done, d) = {i \in finished : Day(finish(i)) <= d}
    BY <1>1, <1>2 DEF DoneBy
  <1>5. now \in Nat /\ Day(now) \in Nat
    BY <1>2, WorldTypes
  <1>6. DoneBy(tables, D, Done, Day(now)) = finished
    BY <1>1, <1>2, <1>3, <1>4, <1>5
  <1>7. {i \in D : Day(tables.issues[i].created) <= Day(now)} = D
    <2>1. \A i \in D : tables.issues[i].created \in 0 .. now
      BY TablesAreThoseOfJira, StatusesAreTold
    <2>2. \A i \in D : tables.issues[i].created \in Nat /\ tables.issues[i].created <= now
      BY <1>5, <2>1
    <2>3. \A i \in D : Day(tables.issues[i].created) <= Day(now)
      BY <1>2, <1>5, <2>2
    <2> QED
      BY <2>3
  <1>8. \A i \in D : Points(tables, i) \in Nat
    BY PointsAreNumbers DEF Points
  <1> DEFINE points == [i \in D |-> Points(tables, i)]
             rest == D \ finished
  <1>9. points \in [D -> Int] /\ \A i \in D : points[i] = Points(tables, i) /\ 0 <= points[i]
    BY <1>8
  <1>10. /\ finished \in SUBSET D /\ rest \in SUBSET D /\ finished \cap rest = {} /\ finished \cup rest = D
         /\ D \in SUBSET D
    OBVIOUS
  <1> HIDE DEF points, finished, rest, D
  <1>11. IsFiniteSet(D) /\ IsFiniteSet(finished) /\ IsFiniteSet(rest)
    <2>1. IsFiniteSet(D)
      BY DEF D
    <2> QED
      BY <1>10, <2>1, FS_Subset
  <1>12. ASSUME NEW A \in SUBSET D
         PROVE  SumOfPoints(tables, A) = SumFunctionOnSet(points, A)
    <2> DEFINE h == [i \in A |-> Points(tables, i)]
    <2>1. h \in [A -> Int] /\ \A i \in A : h[i] = points[i]
      BY <1>8, <1>9
    <2>2. IsFiniteSet(A)
      BY <1>11, FS_Subset
    <2> HIDE DEF h
    <2>3. SumFunction(h) = SumFunctionOnSet(points, A)
      BY <1>9, <2>1, <2>2, SumOfAPart
    <2> QED
      BY <2>3 DEF SumOfPoints, h
  <1>13. /\ scope_sp(tables, D, Day(now)) = SumFunctionOnSet(points, D)
         /\ done_sp(tables, D, Done, Day(now)) = SumFunctionOnSet(points, finished)
    BY <1>6, <1>7, <1>10, <1>12 DEF scope_sp, done_sp
  <1>14. SumFunctionOnSet(points, finished \cup rest) =
            SumFunctionOnSet(points, finished) + SumFunctionOnSet(points, rest)
    BY <1>9, <1>10, <1>11, SumByParts
  <1>15. SumFunctionOnSet(points, rest) = 0 <=> \A i \in rest : points[i] = 0
    BY <1>9, <1>10, <1>11, SumIsZero
  <1>16. SumFunctionOnSet(points, finished) \in Int /\ SumFunctionOnSet(points, rest) \in Int
    BY <1>9, <1>10, <1>11, SumSteps
  <1>17. scope_sp(tables, D, Day(now)) = done_sp(tables, D, Done, Day(now)) <=>
                \A i \in rest : Points(tables, i) = 0
    <2>1. SumFunctionOnSet(points, D) = SumFunctionOnSet(points, finished) + SumFunctionOnSet(points, rest)
      BY <1>10, <1>14
    <2>2. SumFunctionOnSet(points, D) = SumFunctionOnSet(points, finished) <=> SumFunctionOnSet(points, rest) = 0
      BY <1>16, <2>1
    <2> QED
      BY <1>9, <1>10, <1>13, <1>15, <2>2
  <1> QED
    BY <1>4, <1>17 DEF D, finished, rest, finish

-----------------------------------------------------------------------------
\* All calculations have an issue that was never reopened finished with its first entry into
\* a done status, provided that the done statuses are those of the done column, by its place
\* and by its name (throughput.py, cycle_time_ext.py, lead_time.py, flow_efficiency.py,
\* delivery.py).
THEOREM FinishesAgree ==
    ASSUME get_done_column_ids(Board) = Done, ByName.end = Done
    PROVE  Spec => []FinishIsTheSameEverywhere
  <1>1. ASSUME TypeInv, HistoryInv, ResolvedInv, IsFiniteSet(DOMAIN jira)
        PROVE  FinishIsTheSameEverywhere
    <2> DEFINE life == calculate_issue_lifetime(tables, Done)
               finished == {i \in DOMAIN jira : IsDone(jira[i].status)}
    <2>1. SUFFICES ASSUME \A i \in DOMAIN jira : ~Reopened(i)
                   PROVE  FinishIsTheSameEverywhere
      BY DEF FinishIsTheSameEverywhere
    <2>2. ASSUME NEW i \in DOMAIN jira
          PROVE  /\ i \in finished <=> Came(i, Done) # {}
                 /\ Came(i, Done) # {} => Min(Came(i, Done)) \in Nat
                 /\ Times(Entries(tables, i, Done)) = Came(i, Done)
                 /\ Came(i, Done) # {} => completion_date(tables, i) = Min(Came(i, Done))
      <3>1. ~Reopened(i)
        BY <2>1
      <3> QED
        BY <1>1, <3>1, FinishOfAnIssue
    <2>3. DOMAIN life = finished
      <3>1. Issues(tables) = DOMAIN jira
        BY <1>1, TablesAreThoseOfJira DEF Issues
      <3>2. \A i \in DOMAIN jira : EarliestOf(Times(Entries(tables, i, Done))) # Nothing <=> i \in finished
        <4> TAKE i \in DOMAIN jira
        <4>1. Nothing \notin Nat
          BY ReportsAssumption
        <4> HIDE DEF finished
        <4>2. Times(Entries(tables, i, Done)) = {} <=> i \notin finished
          BY <2>2
        <4>3. i \in finished => Min(Times(Entries(tables, i, Done))) \in Nat
          BY <2>2
        <4> QED
          BY <4>1, <4>2, <4>3 DEF EarliestOf
      <3> QED
        BY <3>1, <3>2 DEF calculate_issue_lifetime
    <2>4. ASSUME NEW i \in finished
          PROVE
            LET lead == calculate_lead_time_per_issue(tables, ByName)
                flow == calculate_flow_efficiency_per_issue(tables, Active, Wait, Done)
                finish == Min(Came(i, Done))
            IN  /\ completion_date(tables, i) = finish /\ life[i].end = finish
                /\ i \in DOMAIN lead => lead[i].end = finish /\ lead[i].days <= life[i].days
                /\ i \in DOMAIN flow => flow[i].end = finish
                /\ \A a \in Active, s \in Done :
                    LET cycle == calculate_cycle_time_custom(tables, a, s)
                    IN  i \in DOMAIN cycle => cycle[i].end >= finish
      <3>1. i \in DOMAIN jira
        OBVIOUS
      <3>2. i \in DOMAIN jira /\ ~Reopened(i) /\ Came(i, Done) # {}
        BY <2>1, <2>2, <3>1
      <3>3. completion_date(tables, i) = Min(Came(i, Done))
        BY <2>2, <3>2
      <3> QED
        BY <1>1, <3>2, <3>3, FinishPerIssue
    <2>5. \A w \in 0 .. Week(now) :
            /\ calculate_generic_throughput(tables, w) =
                    Cardinality({i \in finished : Week(Min(Came(i, Done))) = w})
            /\ calculate_generic_throughput(tables, w) =
                    SumFunction([i \in DOMAIN jira |-> calculate_weekly_throughput(tables, i, w)])
            /\ calculate_generic_throughput(tables, w) <= calculate_input_flow_weekly(tables, Done, w)
            /\ calculate_input_flow_weekly(tables, Done, w) <=
                    SumFunction([s \in Done |-> calculate_cancellation_rate_weekly(tables, {s}, w)])
      BY <1>1, <2>1, FinishByWeek
    <2>6. /\ \A d \in 0 .. Day(now) :
                DoneBy(tables, DOMAIN jira, Done, d) = {i \in finished : Day(Min(Came(i, Done))) <= d}
          /\ scope_sp(tables, DOMAIN jira, Day(now)) = done_sp(tables, DOMAIN jira, Done, Day(now)) <=>
                \A i \in DOMAIN jira \ finished : Points(tables, i) = 0
      BY <1>1, <2>1, FinishByDay
    <2> QED
      BY <2>3, <2>4, <2>5, <2>6 DEF FinishIsTheSameEverywhere
  <1> QED
    BY <1>1, ReportsCorrect, ResolvedCorrect, IssuesAreFinite, PTL

-----------------------------------------------------------------------------
\* The size of the backlog on a day is what was created by then less what was resolved.
LEMMA BacklogSize ==
    ASSUME TypeInv, HistoryInv, ResolvedInv, IsFiniteSet(DOMAIN jira), NEW d \in Nat
    PROVE  total_backlog_size(tables, d) =
                Cardinality({i \in DOMAIN jira : jira[i].created <= Close(d)})
                - Cardinality({i \in DOMAIN jira : jira[i].resolved # Nothing /\ jira[i].resolved <= Close(d)})
  <1> DEFINE D == DOMAIN jira
             R == {i \in D : jira[i].resolved # Nothing}
             k == Close(d)
             born == [i \in D |-> Day(jira[i].created)]
             shut == [i \in R |-> Day(jira[i].resolved)]
             created == [e \in 0 .. d |-> Cardinality({i \in D : born[i] = e})]
             closed == [e \in 0 .. d |-> Cardinality({i \in R : shut[i] = e})]
             net == [e \in 0 .. d |-> created_daily(tables, e) - closed_daily(tables, e)]
  <1>1. /\ Issues(tables) = D
        /\ \A i \in D : tables.issues[i].created = jira[i].created /\ tables.issues[i].resolved = jira[i].resolved
    BY TablesAreThoseOfJira DEF Issues
  <1>2. now \in Nat
    BY WorldTypes
  <1>3. \A i \in D : jira[i].created \in 0 .. now
    BY StatusesAreTold
  <1>4. \A i \in R : jira[i].resolved \in 0 .. now
    <2> TAKE i \in R
    <2>1. jira[i].resolved \in Came(i, Done)
      BY ResolvedTicks
    <2>2. jira[i].created \in 0 .. now
      BY <1>3
    <2> QED
      BY <1>2, <2>1, <2>2 DEF Came, After
  <1>5. \A n \in 0 .. now : Day(n) \in Nat /\ (Day(n) <= d <=> n <= k)
    BY <1>2, ClosingTicks
  <1>6. born \in [D -> Nat] /\ shut \in [R -> Nat]
    BY <1>3, <1>4, <1>5
  <1>7. {i \in D : born[i] <= d} = {i \in D : jira[i].created <= k}
    BY <1>3, <1>5
  <1>8. {i \in R : shut[i] <= d} = {i \in D : jira[i].resolved # Nothing /\ jira[i].resolved <= k}
    BY <1>4, <1>5
  <1>9. IsFiniteSet(D) /\ IsFiniteSet(R)
    <2>1. R \in SUBSET D
      OBVIOUS
    <2> HIDE DEF R
    <2> QED
      BY <2>1, FS_Subset
  <1>10. \A e \in 0 .. d : net[e] = created[e] - closed[e]
    <2> TAKE e \in 0 .. d
    <2>1. CreatedOn(tables, e) = {i \in D : born[i] = e}
      BY <1>1 DEF CreatedOn
    <2>2. ResolvedOn(tables, e) = {i \in R : shut[i] = e}
      BY <1>1 DEF ResolvedOn
    <2> QED
      BY <2>1, <2>2 DEF created_daily, closed_daily
  <1>11. total_backlog_size(tables, d) = SumFunction(net)
    BY DEF total_backlog_size
  <1>12. /\ created \in [0 .. d -> Int]
         /\ SumFunctionOnSet(created, 0 .. d) = Cardinality({i \in D : born[i] <= d})
    <2>1. IsFiniteSet(D) /\ born \in [D -> Nat] /\ d \in Nat
      BY <1>6, <1>9
    <2> HIDE DEF D, born
    <2>2. Counts(created, 0 .. d, D, born)
      BY DEF Counts
    <2> HIDE DEF created
    <2>3. /\ created \in [0 .. d -> Int]
          /\ SumFunctionOnSet(created, 0 .. d) = Cardinality(KeyedUpTo(d, D, born))
      BY ONLY <2>1, <2>2, CountUpTo
    <2> QED
      BY <2>3 DEF KeyedUpTo
  <1>13. /\ closed \in [0 .. d -> Int]
         /\ SumFunctionOnSet(closed, 0 .. d) = Cardinality({i \in R : shut[i] <= d})
    <2>1. IsFiniteSet(R) /\ shut \in [R -> Nat] /\ d \in Nat
      BY <1>6, <1>9
    <2> HIDE DEF R, shut
    <2>2. Counts(closed, 0 .. d, R, shut)
      BY DEF Counts
    <2> HIDE DEF closed
    <2>3. /\ closed \in [0 .. d -> Int]
          /\ SumFunctionOnSet(closed, 0 .. d) = Cardinality(KeyedUpTo(d, R, shut))
      BY ONLY <2>1, <2>2, CountUpTo
    <2> QED
      BY <2>3 DEF KeyedUpTo
  <1> HIDE DEF D, R, k, born, shut, created, closed
  <1>14. net \in [0 .. d -> Int]
    BY <1>10, <1>12, <1>13
  <1> HIDE DEF net
  <1>15. SumFunction(net) = SumFunctionOnSet(net, 0 .. d)
    BY <1>14, WholeSum
  <1>16. SumFunctionOnSet(net, 0 .. d) = SumFunctionOnSet(created, 0 .. d) - SumFunctionOnSet(closed, 0 .. d)
    <2> DEFINE T == 0 .. d
    <2>1. IsFiniteSet(T) /\ T \in SUBSET T
      BY FS_Interval
    <2>2. created \in [T -> Int] /\ closed \in [T -> Int] /\ net \in [T -> Int]
      BY <1>12, <1>13, <1>14
    <2>3. \A e \in T : net[e] = created[e] - closed[e]
      BY <1>10
    <2> HIDE DEF T
    <2>4. SumFunctionOnSet(net, T) = SumFunctionOnSet(created, T) - SumFunctionOnSet(closed, T)
      BY <2>1, <2>2, <2>3, SumOfDifferences
    <2> QED
      BY <2>4 DEF T
  <1> QED
    BY <1>7, <1>8, <1>11, <1>12, <1>13, <1>15, <1>16 DEF D, k

\* So it is the number of open issues, if what is done is what was resolved by then.
LEMMA BacklogIsOpen ==
    ASSUME TypeInv, HistoryInv, ResolvedInv, IsFiniteSet(DOMAIN jira), NEW d \in Nat,
           \A i \in DOMAIN jira : Close(d) \in Life(i) =>
                (StatusAt(i, Close(d)) \in Done <=>
                    jira[i].resolved # Nothing /\ jira[i].resolved <= Close(d))
    PROVE  total_backlog_size(tables, d) = Cardinality(Open(Close(d)))
  <1> DEFINE k == Close(d)
             there == {i \in DOMAIN jira : jira[i].created <= k}
             gone == {i \in DOMAIN jira : jira[i].resolved # Nothing /\ jira[i].resolved <= k}
  <1>1. now \in Nat /\ k \in 0 .. now
    <2>1. now \in Nat
      BY WorldTypes
    <2> QED
      BY <2>1, ClosingTicks
  <1>2. total_backlog_size(tables, d) = Cardinality(there) - Cardinality(gone)
    BY BacklogSize
  <1>3. \A i \in DOMAIN jira : k \in Life(i) => (StatusAt(i, k) \in Done <=> i \in gone)
    OBVIOUS
  <1> HIDE DEF k
  <1>4. \A i : i \in DOMAIN At(k) <=> i \in DOMAIN jira /\ k \in Life(i)
    BY <1>1, IssuesOfThen
  <1>5. \A i \in DOMAIN jira : /\ k \in Life(i) <=> jira[i].created <= k
                               /\ k \in Life(i) => StatusAt(i, k) \in Statuses
    <2> TAKE i \in DOMAIN jira
    <2>1. jira[i].created \in 0 .. now /\ \A n \in Life(i) : StatusAt(i, n) \in Statuses
      BY StatusesAreTold
    <2> QED
      BY <1>1, <2>1 DEF Life
  <1>6. gone \in SUBSET there
    <2> SUFFICES ASSUME NEW i \in DOMAIN jira, jira[i].resolved # Nothing, jira[i].resolved <= k
                 PROVE  jira[i].created <= k
      OBVIOUS
    <2>1. jira[i].resolved \in Came(i, Done)
      BY ResolvedTicks
    <2>2. jira[i].created \in 0 .. now
      BY StatusesAreTold
    <2> QED
      BY <1>1, <2>1, <2>2 DEF Came, After
  <1>7. \A i : i \in Open(k) <=> i \in DOMAIN At(k) /\ ~IsDone(StatusAt(i, k))
    BY DEF Open
  <1>8. \A s \in Statuses : IsDone(s) <=> s \in Done
    BY DEF Done
  <1>9. \A i : i \in there <=> i \in DOMAIN jira /\ jira[i].created <= k
    OBVIOUS
  <1>10. there \in SUBSET DOMAIN jira
    OBVIOUS
  <1> HIDE DEF there, gone
  <1>11. Open(k) = there \ gone
    <2>1. \A i : i \in Open(k) <=> i \in there /\ i \notin gone
      BY <1>3, <1>4, <1>5, <1>7, <1>8, <1>9
    <2> QED
      BY <2>1
  <1>12. IsFiniteSet(there)
    BY <1>10, FS_Subset
  <1>13. Cardinality(there \ gone) = Cardinality(there) - Cardinality(there \cap gone)
    BY <1>12, FS_Difference
  <1>14. there \cap gone = gone
    BY <1>6
  <1> QED
    BY <1>2, <1>11, <1>13, <1>14 DEF k

\* Where workflows resolve issues, the size of the backlog is the number of open issues now, and
\* until an issue is reopened on every day.
LEMMA BacklogIsTrue ==
    ASSUME TypeInv, HistoryInv, ResolvedInv, IsFiniteSet(DOMAIN jira), world.resolves
    PROVE  /\ total_backlog_size(tables, Day(now)) = Cardinality(Open(now))
           /\ (\A i \in DOMAIN jira : ~Reopened(i)) =>
                \A d \in 0 .. Day(now) : total_backlog_size(tables, d) = Cardinality(Open(Close(d)))
  <1>1. now \in Nat
    BY WorldTypes
  <1>2. \A i \in DOMAIN jira :
            /\ jira[i].created \in 0 .. now /\ now \in Life(i)
            /\ StatusAt(i, now) = jira[i].status /\ jira[i].status \in Statuses
            /\ jira[i].resolved # Nothing <=> StatusAt(i, now) \in Done
    <2> TAKE i \in DOMAIN jira
    <2>1. jira[i].created \in 0 .. now /\ StatusAt(i, now) = jira[i].status
      BY StatusesAreTold
    <2>2. jira[i].status \in Statuses
      BY WorldTypes DEF IssueType
    <2>3. jira[i].resolved # Nothing <=> IsDone(jira[i].status)
      BY DEF ResolvedInv, ResolvedByAChange, ResolvedIfDone
    <2> QED
      BY <1>1, <2>1, <2>2, <2>3 DEF Life, Done
  <1>3. ASSUME NEW i \in DOMAIN jira, jira[i].resolved # Nothing
        PROVE  /\ jira[i].resolved \in Nat /\ jira[i].resolved <= now /\ jira[i].resolved \in Life(i)
               /\ jira[i].resolved - 1 \in Life(i) /\ jira[i].created < jira[i].resolved
               /\ StatusAt(i, jira[i].resolved) \in Done /\ StatusAt(i, jira[i].resolved - 1) \notin Done
    <2> DEFINE r == jira[i].resolved
    <2>1. r \in Came(i, Done) /\ StatusAt(i, r - 1) \notin Done
      BY <1>3, ResolvedTicks
    <2>2. jira[i].created \in Nat
      BY <1>2
    <2> HIDE DEF r
    <2>3. r \in Nat /\ r <= now /\ r \in Life(i) /\ r - 1 \in Life(i) /\ jira[i].created < r
          /\ StatusAt(i, r) \in Done
      BY <1>1, <2>1, <2>2 DEF Came, After, Life
    <2> QED
      BY <2>1, <2>3 DEF r
  <1>4. Day(now) \in Nat /\ Close(Day(now)) = now
    <2>1. /\ Day(now) \in Nat
          /\ \A d \in Nat : Close(d) \in 0 .. now /\ (Day(now) <= d <=> now <= Close(d))
      BY <1>1, ClosingTicks
    <2>2. Close(Day(now)) \in 0 .. now /\ now <= Close(Day(now))
      BY <2>1
    <2> QED
      BY <1>1, <2>1, <2>2
  <1>5. total_backlog_size(tables, Day(now)) = Cardinality(Open(now))
    <2> DEFINE d == Day(now)
    <2>1. \A i \in DOMAIN jira : Close(d) \in Life(i) =>
                (StatusAt(i, Close(d)) \in Done <=>
                    jira[i].resolved # Nothing /\ jira[i].resolved <= Close(d))
      BY <1>2, <1>3, <1>4
    <2>2. d \in Nat
      BY <1>4
    <2> HIDE DEF d
    <2>3. total_backlog_size(tables, d) = Cardinality(Open(Close(d)))
      BY <2>1, <2>2, BacklogIsOpen
    <2> QED
      BY <1>4, <2>3 DEF d
  <1>6. ASSUME \A i \in DOMAIN jira : ~Reopened(i), NEW d \in 0 .. Day(now)
        PROVE  total_backlog_size(tables, d) = Cardinality(Open(Close(d)))
    <2>1. d \in Nat /\ Close(d) \in 0 .. now
      <3>1. d \in Nat
        BY <1>4
      <3> QED
        BY <1>1, <3>1, ClosingTicks
    <2> DEFINE k == Close(d)
    <2> HIDE DEF k
    <2>2. ASSUME NEW i \in DOMAIN jira, k \in Life(i)
          PROVE  StatusAt(i, k) \in Done <=> jira[i].resolved # Nothing /\ jira[i].resolved <= k
      <3> DEFINE r == jira[i].resolved
      <3>1. k \in Nat /\ k <= now /\ jira[i].created \in Nat /\ jira[i].created <= k
        BY <1>1, <1>2, <2>1, <2>2 DEF Life, k
      <3>2. Left(i, Done) = {}
        BY <1>6 DEF Reopened
      <3>3. ASSUME StatusAt(i, k) \in Done
            PROVE  r # Nothing /\ r <= k
        <4>1. StatusAt(i, now) \in Done
          BY <1>2, <2>2, <3>1, <3>2, <3>3, LeavesBetween
        <4>2. r # Nothing
          BY <1>2, <4>1
        <4>3. r \in Nat /\ r - 1 \in Life(i) /\ StatusAt(i, r - 1) \notin Done
          BY <1>3, <4>2
        <4>4. SUFFICES ASSUME ~(r <= k)
                       PROVE  FALSE
          BY <4>2
        <4> DEFINE l == r - 1
        <4>5. k <= l /\ l \in Life(i) /\ StatusAt(i, l) \notin Done
          BY <3>1, <4>3, <4>4
        <4> HIDE DEF l
        <4> QED
          BY <2>2, <3>2, <3>3, <4>5, LeavesBetween
      <3>4. ASSUME r # Nothing, r <= k
            PROVE  StatusAt(i, k) \in Done
        <4>1. r \in Life(i) /\ StatusAt(i, r) \in Done
          BY <1>3, <3>4
        <4> SUFFICES ASSUME StatusAt(i, k) \notin Done
                     PROVE  FALSE
          OBVIOUS
        <4> HIDE DEF r
        <4> QED
          BY <2>2, <3>2, <3>4, <4>1, LeavesBetween
      <3> QED
        BY <3>3, <3>4
    <2> QED
      BY <2>1, <2>2, BacklogIsOpen DEF k
  <1> QED
    BY <1>5, <1>6

-----------------------------------------------------------------------------
\* The changes out of done, and into it, when the log knows all statuses.
OutOfDone == {c \in tables.status_changelog : c.from \in Done /\ c.to \notin Done}
IntoDone == {c \in tables.status_changelog : c.from \notin Done /\ c.to \in Done}

\* An issue came into done once more than out of it if it is done now, and else as often.
LEMMA DoneChangesOfAnIssue ==
    ASSUME TypeInv, HistoryInv, NEW i \in DOMAIN jira,
           \A c \in tables.status_changelog : c.from # Nothing
    PROVE  LET out == {c \in OutOfDone : c.issue = i}
               into == {c \in IntoDone : c.issue = i}
           IN  /\ IsFiniteSet(out) /\ IsFiniteSet(into)
               /\ Cardinality(into) - Cardinality(out) = IF jira[i].status \in Done THEN 1 ELSE 0
  <1> DEFINE out == {c \in OutOfDone : c.issue = i}
             into == {c \in IntoDone : c.issue = i}
             a == jira[i].created
             n == now
             H == {k \in Life(i) : StatusAt(i, k) \in Done}
             begins == {k \in (a + 1) .. n : k \in H /\ k - 1 \notin H}
             ends == {k \in (a + 1) .. n : k \notin H /\ k - 1 \in H}
  <1>1. /\ a \in Nat /\ n \in Nat /\ a <= n
        /\ StatusAt(i, a) = Initial /\ StatusAt(i, n) = jira[i].status
    BY StatusesAreTold
  <1>2. a \notin H
    BY <1>1, ReportsAssumption DEF Done, IsDone
  <1>3. n \in H <=> jira[i].status \in Done
    BY <1>1 DEF Life
  <1>4. \A r : r \in ChangesOf(tables, i) <=> r \in tables.status_changelog /\ r.issue = i
    BY DEF ChangesOf
  <1>5. \A r \in ChangesOf(tables, i) :
            r.at \in After(i) /\ r.to = StatusAt(i, r.at) /\ r.from = StatusAt(i, r.at - 1)
    <2> TAKE r \in ChangesOf(tables, i)
    <2>1. /\ r.at \in After(i) /\ r.to = StatusAt(i, r.at)
          /\ r.from = IF StatusAt(i, r.at - 1) \in KnownTo(world, jira)
                      THEN StatusAt(i, r.at - 1) ELSE Nothing
      BY LogOfAnIssue
    <2>2. r.from # Nothing
      BY <1>4
    <2> QED
      BY <2>1, <2>2
  <1>6. \A k \in After(i) : StatusAt(i, k) \in Statuses /\ StatusAt(i, k) # StatusAt(i, k - 1) =>
                \E r \in ChangesOf(tables, i) : r.at = k
    BY ChangesAreApart DEF Came
  <1>7. \A r, s \in ChangesOf(tables, i) : r.at = s.at => r = s
    BY ChangesAreApart
  <1>8. \A k \in After(i) : /\ k \in Life(i) /\ k - 1 \in Life(i)
                            /\ k \in H <=> StatusAt(i, k) \in Done
                            /\ k - 1 \in H <=> StatusAt(i, k - 1) \in Done
                            /\ StatusAt(i, k) \in Statuses
    <2> TAKE k \in After(i)
    <2>1. k \in Life(i) /\ k - 1 \in Life(i)
      BY <1>1 DEF After, Life
    <2> QED
      BY <2>1, StatusesAreTold
  <1>9. After(i) = (a + 1) .. n
    BY DEF After
  <1>10. \A c : /\ c \in out <=> c \in ChangesOf(tables, i) /\ c.from \in Done /\ c.to \notin Done
                /\ c \in into <=> c \in ChangesOf(tables, i) /\ c.from \notin Done /\ c.to \in Done
    BY <1>4 DEF OutOfDone, IntoDone
  <1>11. \A k : /\ k \in ends <=> k \in After(i) /\ StatusAt(i, k) \notin Done /\ StatusAt(i, k - 1) \in Done
                /\ k \in begins <=> k \in After(i) /\ StatusAt(i, k) \in Done /\ StatusAt(i, k - 1) \notin Done
    BY <1>8, <1>9
  <1> HIDE DEF out, into, H
  <1>12. /\ IsFiniteSet(begins) /\ IsFiniteSet(ends)
         /\ Cardinality(begins) - Cardinality(ends) = IF n \in H THEN 1 ELSE 0
    <2> HIDE DEF a, n
    <2> QED
      BY <1>1, <1>2, BeginsLessEnds
  <1> HIDE DEF begins, ends, a, n
  <1>13. IsFiniteSet(out) /\ Cardinality(out) = Cardinality(ends)
    <2>1. \A r \in out : r.at \in ends
      BY <1>5, <1>10, <1>11
    <2>2. \A r, s \in out : r.at = s.at => r = s
      BY <1>7, <1>10
    <2>3. \A k \in ends : \E r \in out : r.at = k
      <3> TAKE k \in ends
      <3>1. k \in After(i) /\ StatusAt(i, k) \notin Done /\ StatusAt(i, k - 1) \in Done
        BY <1>11
      <3>2. PICK r \in ChangesOf(tables, i) : r.at = k
        BY <1>6, <1>8, <3>1
      <3>3. r.to = StatusAt(i, k) /\ r.from = StatusAt(i, k - 1)
        BY <1>5, <3>2
      <3> QED
        BY <1>10, <3>1, <3>2, <3>3
    <2> QED
      BY ONLY <1>12, <2>1, <2>2, <2>3, RowsAreTicks
  <1>14. IsFiniteSet(into) /\ Cardinality(into) = Cardinality(begins)
    <2>1. \A r \in into : r.at \in begins
      BY <1>5, <1>10, <1>11
    <2>2. \A r, s \in into : r.at = s.at => r = s
      BY <1>7, <1>10
    <2>3. \A k \in begins : \E r \in into : r.at = k
      <3> TAKE k \in begins
      <3>1. k \in After(i) /\ StatusAt(i, k) \in Done /\ StatusAt(i, k - 1) \notin Done
        BY <1>11
      <3>2. PICK r \in ChangesOf(tables, i) : r.at = k
        BY <1>6, <1>8, <3>1
      <3>3. r.to = StatusAt(i, k) /\ r.from = StatusAt(i, k - 1)
        BY <1>5, <3>2
      <3> QED
        BY <1>10, <3>1, <3>2, <3>3
    <2> QED
      BY ONLY <1>12, <2>1, <2>2, <2>3, RowsAreTicks
  <1> QED
    BY <1>3, <1>12, <1>13, <1>14 DEF out, into

\* Over all issues, what came into done less what went out is what is done now.
LEMMA DoneChangesOfAll ==
    ASSUME TypeInv, HistoryInv, IsFiniteSet(DOMAIN jira),
           \A c \in tables.status_changelog : c.from # Nothing
    PROVE  /\ IsFiniteSet(OutOfDone) /\ IsFiniteSet(IntoDone)
           /\ Cardinality(IntoDone) - Cardinality(OutOfDone) =
                    Cardinality({i \in DOMAIN jira : jira[i].status \in Done})
  <1> DEFINE D == DOMAIN jira
             outs == [i \in D |-> {c \in OutOfDone : c.issue = i}]
             intos == [i \in D |-> {c \in IntoDone : c.issue = i}]
             f == [i \in D |-> Cardinality(intos[i])]
             g == [i \in D |-> Cardinality(outs[i])]
             h == [i \in D |-> IF jira[i].status \in Done THEN 1 ELSE 0]
             N == {i \in D : jira[i].status \in Done}
  <1>1. \A i \in D : /\ IsFiniteSet(outs[i]) /\ IsFiniteSet(intos[i])
                     /\ Cardinality(intos[i]) - Cardinality(outs[i]) = h[i]
    BY DoneChangesOfAnIssue
  <1>2. /\ outs \in [D -> SUBSET OutOfDone] /\ intos \in [D -> SUBSET IntoDone]
        /\ \A b, c \in D : b # c => outs[b] \cap outs[c] = {} /\ intos[b] \cap intos[c] = {}
    OBVIOUS
  <1>3. \A c \in OutOfDone \cup IntoDone : c.issue \in D
    BY LogOfAll DEF OutOfDone, IntoDone
  <1>4. UNION {outs[i] : i \in D} = OutOfDone /\ UNION {intos[i] : i \in D} = IntoDone
    BY <1>3
  <1>5. h \in [D -> Int] /\ \A i \in D : h[i] = IF i \in N THEN 1 ELSE 0
    OBVIOUS
  <1>6. N \in SUBSET D /\ IsFiniteSet(D)
    OBVIOUS
  <1>7. f = [i \in D |-> Cardinality(intos[i])] /\ g = [i \in D |-> Cardinality(outs[i])]
    OBVIOUS
  <1> HIDE DEF outs, intos, f, g, h, N, D
  <1>8. \A i \in D : Cardinality(intos[i]) \in Nat /\ Cardinality(outs[i]) \in Nat
    BY <1>1, FS_CardinalityType
  <1>9. /\ f \in [D -> Int] /\ g \in [D -> Int]
        /\ \A i \in D : f[i] = Cardinality(intos[i]) /\ g[i] = Cardinality(outs[i])
    BY <1>7, <1>8
  <1>10. IsFiniteSet(OutOfDone) /\ Cardinality(OutOfDone) = SumFunctionOnSet(g, D)
    <2>1. \A b \in D : IsFiniteSet(outs[b])
      BY <1>1
    <2>2. \A b \in D : g[b] = Cardinality(outs[b])
      BY <1>9
    <2>3. \A b, c \in D : b # c => outs[b] \cap outs[c] = {}
      BY <1>2
    <2>4. outs \in [D -> SUBSET OutOfDone] /\ g \in [D -> Int] /\ IsFiniteSet(D)
      BY <1>2, <1>6, <1>9
    <2>5. /\ IsFiniteSet(UNION {outs[b] : b \in D})
          /\ Cardinality(UNION {outs[b] : b \in D}) = SumFunctionOnSet(g, D)
      <3>1. Parts(D, OutOfDone, outs, g) /\ Apart(D, outs)
        BY ONLY <2>1, <2>2, <2>3, <2>4 DEF Parts, Apart
      <3> QED
        BY ONLY <3>1, CountByParts DEF Whole
    <2> QED
      BY <1>4, <2>5
  <1>11. IsFiniteSet(IntoDone) /\ Cardinality(IntoDone) = SumFunctionOnSet(f, D)
    <2>1. \A b \in D : IsFiniteSet(intos[b])
      BY <1>1
    <2>2. \A b \in D : f[b] = Cardinality(intos[b])
      BY <1>9
    <2>3. \A b, c \in D : b # c => intos[b] \cap intos[c] = {}
      BY <1>2
    <2>4. intos \in [D -> SUBSET IntoDone] /\ f \in [D -> Int] /\ IsFiniteSet(D)
      BY <1>2, <1>6, <1>9
    <2>5. /\ IsFiniteSet(UNION {intos[b] : b \in D})
          /\ Cardinality(UNION {intos[b] : b \in D}) = SumFunctionOnSet(f, D)
      <3>1. Parts(D, IntoDone, intos, f) /\ Apart(D, intos)
        BY ONLY <2>1, <2>2, <2>3, <2>4 DEF Parts, Apart
      <3> QED
        BY ONLY <3>1, CountByParts DEF Whole
    <2> QED
      BY <1>4, <2>5
  <1>12. SumFunctionOnSet(h, D) = SumFunctionOnSet(f, D) - SumFunctionOnSet(g, D)
    <2>1. \A i \in D : h[i] = f[i] - g[i]
      BY <1>1, <1>9
    <2>2. D \in SUBSET D
      OBVIOUS
    <2> QED
      BY ONLY <1>5, <1>6, <1>9, <2>1, <2>2, SumOfDifferences
  <1>13. SumFunctionOnSet(h, D) = Cardinality(N)
    BY ONLY <1>5, <1>6, SumOfMembers
  <1> QED
    BY <1>10, <1>11, <1>12, <1>13 DEF N, D

\* Rows counted day by day are all rows.
LEMMA RowsByDay ==
    ASSUME now \in Nat, NEW S, IsFiniteSet(S), \A c \in S : c.at \in 0 .. now
    PROVE  SumFunction([d \in 0 .. Day(now) |-> Cardinality({c \in S : Day(c.at) = d})]) = Cardinality(S)
  <1> DEFINE n == Day(now)
             key == [c \in S |-> Day(c.at)]
             count == [d \in 0 .. n |-> Cardinality({c \in S : key[c] = d})]
  <1>1. n \in Nat /\ \A k \in 0 .. now : Day(k) \in Nat /\ Day(k) <= n
    <2>1. n \in Nat
      BY ClosingTicks
    <2>2. \A k \in 0 .. now : Day(k) \in Nat /\ (Day(k) <= n <=> k <= Close(n))
      BY <2>1, ClosingTicks
    <2>3. Close(n) \in 0 .. now
      BY <2>1, ClosingTicks
    <2>4. now <= Close(n)
      BY <2>1, <2>2
    <2> HIDE DEF n
    <2>5. \A k \in 0 .. now : Day(k) \in Nat /\ Day(k) <= n
      BY <2>2, <2>3, <2>4
    <2> QED
      BY <2>1, <2>5
  <1>2. key \in [S -> Nat] /\ {c \in S : key[c] <= n} = S
    BY <1>1
  <1>3. count = [d \in 0 .. Day(now) |-> Cardinality({c \in S : Day(c.at) = d})]
    OBVIOUS
  <1> HIDE DEF n, key
  <1>4. Counts(count, 0 .. n, S, key)
    BY DEF Counts
  <1> HIDE DEF count
  <1>5. count \in [0 .. n -> Int] /\ SumFunctionOnSet(count, 0 .. n) = Cardinality(S)
    <2>1. /\ count \in [0 .. n -> Int]
          /\ SumFunctionOnSet(count, 0 .. n) = Cardinality(KeyedUpTo(n, S, key))
      BY ONLY <1>1, <1>2, <1>4, IsFiniteSet(S), CountUpTo
    <2> QED
      BY <1>2, <2>1 DEF KeyedUpTo
  <1>6. SumFunction(count) = SumFunctionOnSet(count, 0 .. n)
    BY <1>5, WholeSum
  <1> QED
    BY <1>3, <1>5, <1>6 DEF count

\* What entered and exited over all days are the changes out of done and into it.
LEMMA FlowsAreChanges ==
    ASSUME TypeInv, HistoryInv, IsFiniteSet(DOMAIN jira),
           \A c \in tables.status_changelog : c.from # Nothing
    PROVE  /\ SumFunction([d \in 0 .. Day(now) |-> entered_backlog_count(tables, d)]) = Cardinality(OutOfDone)
           /\ SumFunction([d \in 0 .. Day(now) |-> exited_backlog_count(tables, d)]) = Cardinality(IntoDone)
  <1>1. now \in Nat
    BY WorldTypes
  <1>2. ASSUME NEW c \in tables.status_changelog
        PROVE  /\ c.at \in 0 .. now
               /\ Category(tables, c.from) # Nothing
               /\ Category(tables, c.from) = "done" <=> c.from \in Done
               /\ Category(tables, c.to) = "done" <=> c.to \in Done
    <2> DEFINE K == KnownTo(world, jira)
    <2>1. c.issue \in DOMAIN jira /\ c \in ChangesOf(tables, c.issue)
      BY LogOfAll
    <2>2. /\ c.at \in After(c.issue) /\ c.to \in K
          /\ c.from = IF StatusAt(c.issue, c.at - 1) \in K THEN StatusAt(c.issue, c.at - 1) ELSE Nothing
      BY <2>1, LogOfAnIssue
    <2>3. c.from \in K
      BY <2>2
    <2>4. /\ DOMAIN tables.category = K /\ K \subseteq Statuses
          /\ \A s \in K : tables.category[s] = Categories[s]
      BY KnownStatuses
    <2>5. c.at \in 0 .. now
      <3>1. jira[c.issue].created \in 0 .. now
        BY <2>1, StatusesAreTold
      <3> QED
        BY <1>1, <2>2, <3>1 DEF After
    <2> HIDE DEF K
    <2>6. \A s \in K : Category(tables, s) = Categories[s] /\ (s \in Done <=> Categories[s] = "done")
      BY <2>4 DEF Category, Done, IsDone
    <2> QED
      BY <2>2, <2>3, <2>4, <2>5, <2>6, CategoryAssumption
  <1>3. \A d : entered_backlog_count(tables, d) = Cardinality({c \in OutOfDone : Day(c.at) = d})
    <2> TAKE d
    <2>1. {c \in tables.status_changelog : Day(c.at) = d
            /\ \/ Category(tables, c.from) = "done" /\ Category(tables, c.to) # "done"
               \/ Category(tables, c.from) = Nothing} = {c \in OutOfDone : Day(c.at) = d}
      BY <1>2 DEF OutOfDone
    <2> QED
      BY <2>1 DEF entered_backlog_count
  <1>4. \A d : exited_backlog_count(tables, d) = Cardinality({c \in IntoDone : Day(c.at) = d})
    <2> TAKE d
    <2>1. {c \in tables.status_changelog : Day(c.at) = d
            /\ Category(tables, c.from) \notin {"done", Nothing} /\ Category(tables, c.to) = "done"} =
          {c \in IntoDone : Day(c.at) = d}
      BY <1>2 DEF IntoDone
    <2> QED
      BY <2>1 DEF exited_backlog_count
  <1>5. IsFiniteSet(OutOfDone) /\ IsFiniteSet(IntoDone)
    BY DoneChangesOfAll
  <1>6. \A c \in OutOfDone \cup IntoDone : c.at \in 0 .. now
    BY <1>2 DEF OutOfDone, IntoDone
  <1>7. SumFunction([d \in 0 .. Day(now) |-> Cardinality({c \in OutOfDone : Day(c.at) = d})]) = Cardinality(OutOfDone)
    BY <1>1, <1>5, <1>6, RowsByDay
  <1>8. SumFunction([d \in 0 .. Day(now) |-> Cardinality({c \in IntoDone : Day(c.at) = d})]) = Cardinality(IntoDone)
    BY <1>1, <1>5, <1>6, RowsByDay
  <1> QED
    BY <1>3, <1>4, <1>7, <1>8

\* The cumulative sum of creations less resolutions, the open issues and the sum of what entered
\* less what exited are one number.
THEOREM BacklogBalances == Spec => []BacklogFlowsBalance
  <1>1. ASSUME TypeInv, HistoryInv, ResolvedInv, IsFiniteSet(DOMAIN jira)
        PROVE  BacklogFlowsBalance
    <2> SUFFICES ASSUME world.resolves
                 PROVE  BacklogFlowsBalance
      BY DEF BacklogFlowsBalance
    <2> DEFINE entered == SumFunction([d \in 0 .. Day(now) |-> entered_backlog_count(tables, d)])
               exited == SumFunction([d \in 0 .. Day(now) |-> exited_backlog_count(tables, d)])
               size == total_backlog_size(tables, Day(now))
               N == {i \in DOMAIN jira : jira[i].status \in Done}
    <2>1. /\ size = Cardinality(Open(now))
          /\ (\A i \in DOMAIN jira : ~Reopened(i)) =>
                \A d \in 0 .. Day(now) : total_backlog_size(tables, d) = Cardinality(Open(Close(d)))
      BY <1>1, BacklogIsTrue
    <2>2. ASSUME \A c \in tables.status_changelog : c.from # Nothing
          PROVE  size = Cardinality(DOMAIN jira) + entered - exited
      <3>1. entered = Cardinality(OutOfDone) /\ exited = Cardinality(IntoDone)
        BY <1>1, <2>2, FlowsAreChanges
      <3>2. /\ IsFiniteSet(OutOfDone) /\ IsFiniteSet(IntoDone)
            /\ Cardinality(IntoDone) - Cardinality(OutOfDone) = Cardinality(N)
        BY <1>1, <2>2, DoneChangesOfAll
      <3>3. Open(now) = (DOMAIN jira) \ N
        <4>1. now \in 0 .. now
          BY <1>1, WorldTypes
        <4>2. \A i \in DOMAIN jira : /\ now \in Life(i) /\ StatusAt(i, now) = jira[i].status
                                     /\ jira[i].status \in Statuses
          <5> TAKE i \in DOMAIN jira
          <5>1. jira[i].created \in 0 .. now /\ StatusAt(i, now) = jira[i].status
            BY <1>1, StatusesAreTold
          <5>2. jira[i].status \in Statuses
            BY <1>1, WorldTypes DEF IssueType
          <5> QED
            BY <4>1, <5>1, <5>2 DEF Life
        <4>3. \A i : i \in DOMAIN At(now) <=> i \in DOMAIN jira /\ now \in Life(i)
          BY <1>1, <4>1, IssuesOfThen
        <4> QED
          BY <4>2, <4>3 DEF Open, Done
      <3>4. N \in SUBSET DOMAIN jira
        OBVIOUS
      <3> HIDE DEF N
      <3>5. IsFiniteSet(N) /\ Cardinality((DOMAIN jira) \ N) = Cardinality(DOMAIN jira) - Cardinality(N)
        <4>1. IsFiniteSet(N)
          BY <1>1, <3>4, FS_Subset
        <4>2. Cardinality((DOMAIN jira) \ N) = Cardinality(DOMAIN jira) - Cardinality((DOMAIN jira) \cap N)
          BY <1>1, FS_Difference
        <4>3. (DOMAIN jira) \cap N = N
          BY <3>4
        <4> QED
          BY <4>1, <4>2, <4>3
      <3>6. /\ Cardinality(DOMAIN jira) \in Nat /\ Cardinality(N) \in Nat
            /\ Cardinality(OutOfDone) \in Nat /\ Cardinality(IntoDone) \in Nat
        BY <1>1, <3>2, <3>5, FS_CardinalityType
      <3> HIDE DEF size, entered, exited
      <3> QED
        BY <2>1, <3>1, <3>2, <3>3, <3>5, <3>6
    <2> QED
      BY <2>1, <2>2 DEF BacklogFlowsBalance
  <1> QED
    BY <1>1, ReportsCorrect, ResolvedCorrect, IssuesAreFinite, PTL

-----------------------------------------------------------------------------
\* The additions, or removals, of an issue in the sprint.
EventsInSprint(i, action) ==
    {e \in SprintEvents(i) : e.action = action /\ InSprint(tables, e.at)}

\* The ticks of the sprint are in the history when it is closed.
LEMMA WindowIsOver ==
    ASSUME TypeInv, HistoryInv, Closed
    PROVE  /\ Start0 \in Nat /\ End0 \in Nat /\ now \in Nat /\ Start0 <= End0 /\ End0 < now
           /\ \A k \in Window : k \in 0 .. now /\ k - 1 \in 0 .. now /\ Start0 < k /\ k <= End0
           /\ \A k \in 0 .. now : InSprint(tables, k) <=> k \in Window
  <1>1. Start0 \in Nat /\ End0 \in Nat /\ Start0 <= End0 /\ now \in Nat
    BY WorldTypes, ReportsAssumption DEF TypeInv, Start0, End0
  <1>2. End0 < now
    BY <1>1 DEF Closed
  <1>3. Start(tables) = Start0 /\ End(tables) = End0
    BY SprintLog DEF Start, End, Start0, End0
  <1> QED
    BY <1>1, <1>2, <1>3 DEF Window, InSprint

\* Events of an issue have different times.
LEMMA EventsAreApart ==
    ASSUME TypeInv, HistoryInv, NEW i \in DOMAIN jira
    PROVE  \A e, f \in SprintEvents(i) : e.at = f.at => e = f
  <1>1. \A c, d \in jira[i].moves : c.at = d.at => c = d
    BY MovesAreTold DEF Tells
  <1> DEFINE ofMove(m) == Clean!Event(i, "sprint", m.at, IF m.to = {"sprint"} THEN "added" ELSE "removed")
             ofBirth == Clean!Event(i, "sprint", jira[i].created, "added")
  <1>2. \A m : ofMove(m).at = m.at
    BY DEF Clean!Event
  <1>3. \A e \in SprintEvents(i) :
            \/ \E m \in jira[i].moves : e = ofMove(m)
            \/ jira[i].moves = {} /\ e = ofBirth
    BY DEF SprintEvents
  <1> HIDE DEF ofMove, ofBirth
  <1> QED
    BY <1>1, <1>2, <1>3

\* An event in the sprint is where the plan changes: an addition where the issue comes in, a
\* removal where it goes out.
LEMMA EventsAreTurns ==
    ASSUME TypeInv, HistoryInv, Closed, NEW i \in DOMAIN jira,
           ~AtTheStart(i), ~PassedThrough(i), ~Retroactive(i), NEW k \in Window
    PROVE  /\ PlannedAt(i, k) /\ ~PlannedAt(i, k - 1) <=>
                \E e \in SprintEvents(i) : e.at = k /\ e.action = "added"
           /\ ~PlannedAt(i, k) /\ PlannedAt(i, k - 1) <=>
                \E e \in SprintEvents(i) : e.at = k /\ e.action = "removed"
           /\ PlannedAt(i, Start0) /\ ~(PlannedAt(i, k) <=> PlannedAt(i, k - 1)) =>
                \E m \in jira[i].moves : m.at = k
  <1> DEFINE b == jira[i].created
             v == SprintsOf(i)
             moves == jira[i].moves
             l == k - 1
  <1>1. b \in Nat /\ now \in Nat /\ b <= now /\ Life(i) = b .. now /\ After(i) = (b + 1) .. now
    BY StatusesAreTold DEF Life, After
  <1>2. /\ Start0 \in Nat /\ End0 \in Nat /\ Start0 <= End0 /\ End0 < now
        /\ k \in 0 .. now /\ l \in 0 .. now /\ Start0 < k /\ k <= End0 /\ k \in Nat
    BY WindowIsOver
  <1>3. /\ Tells(moves, v, b, now) /\ v[now] = jira[i].sprints
        /\ \A n \in b .. now : v[n] \in {{}, {"sprint"}}
        /\ \A n \in 0 .. now : PlannedAt(i, n) <=> n \in b .. now /\ v[n] = {"sprint"}
        /\ \A m \in moves : m.from \in {{}, {"sprint"}} /\ m.to \in {{}, {"sprint"}} /\ m.from # m.to
        /\ \A m \in moves : m.at \in (b + 1) .. now
    BY <1>1, MovesAreTold
  <1>4. \A m \in moves : m.at \in Nat /\ b < m.at /\ m.at <= End0 /\ m.at <= now
    BY <1>1, <1>2, <1>3 DEF Retroactive, moves
  <1>5. /\ \A e \in SprintEvents(i) :
                \/ e.at = b /\ e.action = "added" /\ moves = {} /\ jira[i].sprints = {"sprint"}
                \/ \E m \in moves : Records(e, m)
        /\ \A m \in moves : \E e \in SprintEvents(i) : Records(e, m)
        /\ moves = {} /\ jira[i].sprints = {"sprint"} =>
                \E e \in SprintEvents(i) : e.at = b /\ e.action = "added"
    BY EventsAreOfTheirIssue
  <1> HIDE DEF b, v, moves
  <1>6. \A m \in moves : m.from = v[m.at - 1] /\ m.to = v[m.at]
    BY <1>3 DEF Tells
  <1>7. moves = {} => v[b] = v[now]
    <2>1. moves = {} => Quiet(moves, b, now)
      BY DEF Quiet
    <2>2. b \in b .. now /\ now \in b .. now
      BY <1>1
    <2> QED
      BY <1>1, <1>3, <2>1, <2>2, TellsConstant
  <1>8. ASSUME NEW e \in SprintEvents(i), e.at = k
        PROVE  /\ e.action = "added" => PlannedAt(i, k) /\ ~PlannedAt(i, l)
               /\ e.action = "removed" => ~PlannedAt(i, k) /\ PlannedAt(i, l)
    <2>1. CASE e.at = b /\ e.action = "added" /\ moves = {} /\ jira[i].sprints = {"sprint"}
      <3>1. v[k] = {"sprint"} /\ k \in b .. now /\ l \notin b .. now
        BY <1>1, <1>2, <1>3, <1>7, <1>8, <2>1
      <3> HIDE DEF l
      <3> QED
        BY <1>2, <1>3, <2>1, <3>1
    <2>2. CASE \E m \in moves : Records(e, m)
      <3>1. PICK m \in moves : Records(e, m)
        BY <2>2
      <3>2. m.at = k /\ (e.action = "added" <=> m.to = {"sprint"}) /\ (e.action = "removed" <=> m.to = {})
        BY <1>8, <3>1 DEF Records
      <3>3. k \in b .. now /\ l \in b .. now
        BY <1>1, <1>2, <1>4, <3>2
      <3>4. m.from = v[l] /\ m.to = v[k]
        BY <1>6, <3>2
      <3> HIDE DEF l
      <3> QED
        BY <1>2, <1>3, <3>2, <3>3, <3>4
    <2> QED
      BY <1>5, <2>1, <2>2
  <1>9. ASSUME k \in b .. now, l \in b .. now, v[k] # v[l]
        PROVE  \E m \in moves : m.at = k /\ m.to = v[k]
    <2>1. k \in (b + 1) .. now
      BY <1>1, <1>2, <1>9
    <2>2. PICK m \in moves : m.at = k
      BY <1>3, <1>9, <2>1 DEF Tells
    <2> QED
      BY <1>6, <2>2
  <1>10. ASSUME PlannedAt(i, k), ~PlannedAt(i, l)
         PROVE  \E e \in SprintEvents(i) : e.at = k /\ e.action = "added"
    <2>1. k \in b .. now /\ v[k] = {"sprint"} /\ ~(l \in b .. now /\ v[l] = {"sprint"})
      <3> HIDE DEF l
      <3> QED
        BY <1>2, <1>3, <1>10
    <2>2. CASE l \in b .. now
      <3>1. PICK m \in moves : m.at = k /\ m.to = v[k]
        BY <1>9, <2>1, <2>2
      <3>2. PICK e \in SprintEvents(i) : Records(e, m)
        BY <1>5
      <3> QED
        BY <2>1, <3>1, <3>2 DEF Records
    <2>3. CASE l \notin b .. now
      <3>1. k = b
        BY <1>1, <1>2, <2>1, <2>3
      <3>2. i \notin Committed
        <4>1. Start0 \in 0 .. now /\ Start0 \notin b .. now
          BY <1>1, <1>2, <3>1
        <4> QED
          BY <1>3, <4>1 DEF Committed
      <3>3. \A n \in Window : k < n => PlannedAt(i, n)
        BY <1>10, <3>2 DEF PassedThrough
      <3>4. \A n \in (k + 1) .. End0 : v[n] = {"sprint"}
        <4> TAKE n \in (k + 1) .. End0
        <4>1. n \in Window /\ k < n /\ n \in 0 .. now
          <5>1. n \in Nat /\ k < n /\ n <= End0 /\ Start0 < n /\ n <= now
            BY <1>1, <1>2
          <5> QED
            BY <1>2, <5>1 DEF Window
        <4> QED
          BY <1>3, <3>3, <4>1
      <3>5. moves = {}
        <4> SUFFICES ASSUME NEW m \in moves
                     PROVE  FALSE
          OBVIOUS
        <4> DEFINE n == m.at
                   o == n - 1
        <4>1. n \in (k + 1) .. End0 /\ (o = k \/ o \in (k + 1) .. End0)
          BY <1>2, <1>4, <3>1
        <4>2. m.from = v[o] /\ m.to = v[n] /\ m.from # m.to
          BY <1>3, <1>6
        <4> HIDE DEF n, o
        <4> QED
          BY <2>1, <3>4, <4>1, <4>2
      <3>6. jira[i].sprints = {"sprint"}
        BY <1>3, <1>7, <2>1, <3>1, <3>5
      <3> QED
        BY <1>5, <3>1, <3>5, <3>6
    <2> QED
      BY <2>2, <2>3
  <1>11. ASSUME ~PlannedAt(i, k), PlannedAt(i, l)
         PROVE  \E e \in SprintEvents(i) : e.at = k /\ e.action = "removed"
    <2>1. l \in b .. now /\ v[l] = {"sprint"}
      <3> HIDE DEF l
      <3> QED
        BY <1>2, <1>3, <1>11
    <2>2. k \in b .. now
      BY <1>1, <1>2, <2>1
    <2>3. v[k] = {}
      BY <1>2, <1>3, <1>11, <2>2
    <2>4. v[k] # v[l]
      BY <2>1, <2>3
    <2>5. PICK m \in moves : m.at = k /\ m.to = v[k]
      BY <1>9, <2>1, <2>2, <2>4
    <2>6. PICK e \in SprintEvents(i) : Records(e, m)
      BY <1>5
    <2> QED
      BY <2>3, <2>5, <2>6 DEF Records
  <1>12. ASSUME PlannedAt(i, Start0), ~(PlannedAt(i, k) <=> PlannedAt(i, l))
         PROVE  \E m \in moves : m.at = k
    <2>1. Start0 \in 0 .. now
      BY <1>1, <1>2
    <2>2. Start0 \in b .. now
      BY <1>3, <1>12, <2>1
    <2>3. k \in b .. now /\ l \in b .. now
      BY <1>1, <1>2, <2>2
    <2>4. v[k] # v[l]
      <3> HIDE DEF l
      <3> QED
        BY <1>2, <1>3, <1>12, <2>3
    <2> QED
      BY <1>9, <2>3, <2>4
  <1> QED
    BY <1>8, <1>10, <1>11, <1>12 DEF moves

-----------------------------------------------------------------------------
\* What an issue adds to the scope less what it takes away is the difference it makes between
\* the start of the sprint and its end.
LEMMA ScopeOfAnIssue ==
    ASSUME TypeInv, HistoryInv, Closed, NEW i \in DOMAIN jira,
           ~AtTheStart(i), ~PassedThrough(i), ~Retroactive(i),
           Cardinality({m \in jira[i].moves : m.at \in Window}) <= 2
    PROVE  (IF PlannedAt(i, End0) THEN 1 ELSE 0) - (IF PlannedAt(i, Start0) THEN 1 ELSE 0) =
           (IF EventsInSprint(i, "added") = {} THEN 0 ELSE 1)
           - (IF EventsInSprint(i, "removed") = {} THEN 0 ELSE 1)
  <1> DEFINE H == {k \in 0 .. now : PlannedAt(i, k)}
             comes == {k \in Window : k \in H /\ k - 1 \notin H}
             goes == {k \in Window : k \notin H /\ k - 1 \in H}
             M == {m \in jira[i].moves : m.at \in Window}
  <1>1. /\ Start0 \in Nat /\ End0 \in Nat /\ now \in Nat /\ Start0 <= End0 /\ End0 < now
        /\ \A k \in Window : k \in 0 .. now /\ k - 1 \in 0 .. now /\ Start0 < k /\ k <= End0
        /\ \A k \in 0 .. now : InSprint(tables, k) <=> k \in Window
    BY WindowIsOver
  <1>2. Window = (Start0 + 1) .. End0
    BY DEF Window
  <1>3. \A k \in Window : /\ k \in H <=> PlannedAt(i, k)
                          /\ k - 1 \in H <=> PlannedAt(i, k - 1)
    BY <1>1
  <1>4. (Start0 \in H <=> PlannedAt(i, Start0)) /\ (End0 \in H <=> PlannedAt(i, End0))
    BY <1>1
  <1>5. \A e \in SprintEvents(i) : e.at \in 0 .. now
    <2>1. jira[i].created \in 0 .. now
      BY StatusesAreTold
    <2>2. \A e \in SprintEvents(i) : e.at \in Life(i)
      BY EventsAreOfTheirIssue
    <2> QED
      BY <1>1, <2>1, <2>2 DEF Life
  <1> HIDE DEF H
  <1>6. \A k \in Window :
            /\ k \in comes <=> \E e \in SprintEvents(i) : e.at = k /\ e.action = "added"
            /\ k \in goes <=> \E e \in SprintEvents(i) : e.at = k /\ e.action = "removed"
            /\ Start0 \in H /\ (k \in comes \/ k \in goes) => \E m \in M : m.at = k
    <2> TAKE k \in Window
    <2>1. /\ PlannedAt(i, k) /\ ~PlannedAt(i, k - 1) <=>
                \E e \in SprintEvents(i) : e.at = k /\ e.action = "added"
          /\ ~PlannedAt(i, k) /\ PlannedAt(i, k - 1) <=>
                \E e \in SprintEvents(i) : e.at = k /\ e.action = "removed"
          /\ PlannedAt(i, Start0) /\ ~(PlannedAt(i, k) <=> PlannedAt(i, k - 1)) =>
                \E m \in jira[i].moves : m.at = k
      BY EventsAreTurns
    <2> QED
      BY <1>3, <1>4, <2>1
  <1>7. EventsInSprint(i, "added") = {} <=> comes = {}
    BY <1>1, <1>5, <1>6 DEF EventsInSprint
  <1>8. EventsInSprint(i, "removed") = {} <=> goes = {}
    BY <1>1, <1>5, <1>6 DEF EventsInSprint
  <1>9. IsFiniteSet(M)
    <2>1. /\ \A m \in M : m.at \in After(i)
          /\ \A m, n \in M : m.at = n.at => m = n
      BY MovesAreTold DEF Tells
    <2>2. IsFiniteSet(After(i))
      <3>1. jira[i].created \in Int
        BY StatusesAreTold
      <3> QED
        BY <1>1, <3>1, FS_Interval DEF After
    <2> HIDE DEF M
    <2> QED
      BY <2>1, <2>2, RowsAreFinite
  <1>10. Cardinality(M) <= 2
    OBVIOUS
  <1> HIDE DEF M
  <1>11. ASSUME NEW j \in comes \cup goes, NEW k \in comes \cup goes, NEW l \in comes \cup goes,
                j < k, k < l, Start0 \in H
         PROVE  FALSE
    <2>1. j \in Window /\ k \in Window /\ l \in Window
      OBVIOUS
    <2>2. PICK x \in M : x.at = j
      BY <1>6, <1>11, <2>1
    <2>3. PICK y \in M : y.at = k
      BY <1>6, <1>11, <2>1
    <2>4. PICK z \in M : z.at = l
      BY <1>6, <1>11, <2>1
    <2>5. j # k /\ k # l /\ j # l
      <3>1. j \in Nat /\ k \in Nat /\ l \in Nat
        BY <1>1, <2>1
      <3> QED
        BY <1>11, <3>1
    <2>6. x # y /\ y # z /\ x # z
      BY <2>2, <2>3, <2>4, <2>5
    <2> QED
      BY <1>9, <1>10, <2>6, ThreeAreMore
  <1>12. ASSUME NEW a \in Start0 .. End0, NEW b \in Start0 .. End0, a <= b
         PROVE  /\ a \in H /\ b \notin H => \E k \in goes : a < k /\ k <= b
                /\ a \notin H /\ b \in H => \E k \in comes : a < k /\ k <= b
    <2>1. a \in Nat /\ b \in Nat
      BY <1>1
    <2>2. \A k \in (a + 1) .. b : k \in Window /\ a < k /\ k <= b
      BY <1>1, <1>2, <2>1
    <2>3. a \in H /\ b \notin H => \E k \in (a + 1) .. b : k \notin H /\ k - 1 \in H
      BY <1>12, <2>1, EndsBetween
    <2>4. a \notin H /\ b \in H => \E k \in (a + 1) .. b : k \in H /\ k - 1 \notin H
      BY <1>12, <2>1, BeginsBetween
    <2> QED
      BY <2>2, <2>3, <2>4
  <1>13. \A k \in comes \cup goes : /\ k \in Start0 .. End0 /\ k - 1 \in Start0 .. End0
                                    /\ Start0 < k /\ k <= End0 /\ k \in Nat
    BY <1>1, <1>2
  <1>14. /\ \A k \in comes : k \in H /\ k - 1 \notin H
         /\ \A k \in goes : k \notin H /\ k - 1 \in H
    OBVIOUS
  <1>15. Start0 \in Start0 .. End0 /\ End0 \in Start0 .. End0
    BY <1>1
  <1>16. CASE Start0 \in H
    <2>1. ASSUME goes = {}
          PROVE  End0 \in H /\ comes = {}
      <3>1. End0 \in H
        BY <1>1, <1>12, <1>15, <1>16, <2>1
      <3>2. ASSUME NEW k \in comes
            PROVE  FALSE
        <4> DEFINE l == k - 1
        <4>1. l \in Start0 .. End0 /\ Start0 <= l /\ l \notin H
          BY <1>1, <1>13, <1>14
        <4> HIDE DEF l
        <4> QED
          BY <1>12, <1>15, <1>16, <2>1, <4>1
      <3> QED
        BY <3>1, <3>2
    <2>2. ASSUME NEW j \in goes
          PROVE  End0 \in H <=> comes # {}
      <3>1. ASSUME End0 \in H
            PROVE  comes # {}
        BY <1>12, <1>13, <1>14, <1>15, <3>1
      <3>2. ASSUME NEW k \in comes, End0 \notin H
            PROVE  FALSE
        <4> DEFINE l == k - 1
        <4>1. l \in Start0 .. End0 /\ Start0 <= l /\ l \notin H /\ l < k /\ l \in Nat
          BY <1>1, <1>13, <1>14
        <4> HIDE DEF l
        <4>2. PICK x \in goes : x <= l
          BY <1>12, <1>15, <1>16, <4>1
        <4>3. PICK y \in goes : k < y
          BY <1>12, <1>13, <1>14, <1>15, <3>2
        <4>4. x < k /\ x \in Nat /\ k \in Nat
          BY <1>13, <4>1, <4>2
        <4> HIDE DEF comes, goes
        <4> QED
          BY <1>11, <1>16, <4>3, <4>4
      <3> QED
        BY <3>1, <3>2
    <2> HIDE DEF comes, goes
    <2> QED
      BY <1>4, <1>7, <1>8, <1>16, <2>1, <2>2
  <1>17. CASE Start0 \notin H
    <2>1. i \notin Committed
      BY <1>4, <1>17 DEF Committed
    <2>2. \A j, k \in Window : j < k /\ PlannedAt(i, j) => PlannedAt(i, k)
      BY <2>1 DEF PassedThrough
    <2>3. goes = {}
      <3> SUFFICES ASSUME NEW k \in goes
                   PROVE  FALSE
        OBVIOUS
      <3> DEFINE l == k - 1
      <3>1. l \in H /\ k \notin H /\ k \in Window /\ l < k
        BY <1>13, <1>14
      <3>2. l # Start0
        BY <1>17, <3>1
      <3>3. l \in Window
        <4>1. k \in Nat /\ l \in Nat /\ Start0 <= l /\ l < End0
          BY <1>1, <1>13
        <4> HIDE DEF l
        <4> QED
          BY <1>1, <1>2, <3>2, <4>1
      <3> HIDE DEF l
      <3> QED
        BY <1>3, <2>2, <3>1, <3>3
    <2>4. End0 \in H <=> comes # {}
      <3>1. ASSUME End0 \in H
            PROVE  comes # {}
        BY <1>1, <1>12, <1>15, <1>17, <3>1
      <3>2. ASSUME NEW k \in comes
            PROVE  End0 \in H
        <4>1. k \in Window /\ k \in H /\ End0 \in Window /\ k <= End0 /\ k \in Nat
          BY <1>1, <1>2, <1>13, <1>14
        <4>2. CASE k = End0
          BY <4>1, <4>2
        <4>3. CASE k < End0
          BY <1>3, <2>2, <4>1, <4>3
        <4> QED
          BY <1>1, <4>1, <4>2, <4>3
      <3> QED
        BY <3>1, <3>2
    <2> HIDE DEF comes, goes
    <2> QED
      BY <1>4, <1>7, <1>8, <1>17, <2>3, <2>4
  <1> QED
    BY <1>16, <1>17

-----------------------------------------------------------------------------
\* The first additions, or removals, in the sprint are one for each issue that has any.
LEMMA FirstsByIssue ==
    ASSUME TypeInv, HistoryInv, Closed, IsFiniteSet(DOMAIN jira), NEW action
    PROVE  LET has == [i \in DOMAIN jira |-> IF EventsInSprint(i, action) = {} THEN 0 ELSE 1]
           IN  /\ IsFiniteSet(FirstOf(tables, action)) /\ has \in [DOMAIN jira -> Int]
               /\ Cardinality(FirstOf(tables, action)) = SumFunctionOnSet(has, DOMAIN jira)
  <1> DEFINE D == DOMAIN jira
             F == FirstOf(tables, action)
             log == {e \in tables.sprint_issues_changelog : e.action = action /\ InSprint(tables, e.at)}
             has == [i \in D |-> IF EventsInSprint(i, action) = {} THEN 0 ELSE 1]
             part == [i \in D |-> {e \in EventsInSprint(i, action) :
                                    \A f \in EventsInSprint(i, action) : e.at <= f.at}]
  <1>1. \A i \in D : /\ \A e \in SprintEvents(i) : e.issue = i /\ e \in tables.sprint_issues_changelog
                     /\ \A e \in tables.sprint_issues_changelog : e.issue = i => e \in SprintEvents(i)
    BY EventsAreOfTheirIssue
  <1>2. \A e \in tables.sprint_issues_changelog : e.issue \in D
    BY <1>1, SprintLog
  <1>3. \A i \in D : EventsOf(log, i) = EventsInSprint(i, action)
    BY <1>1 DEF EventsOf, EventsInSprint
  <1>4. F = {e \in log : \A f \in EventsOf(log, e.issue) : e.at <= f.at}
    BY DEF FirstOf
  <1>5. \A i \in D : part[i] = {e \in F : e.issue = i}
    <2> TAKE i \in D
    <2>1. \A e \in EventsInSprint(i, action) : e \in log /\ e.issue = i
      BY <1>3 DEF EventsOf
    <2>2. \A e \in log : e.issue = i => e \in EventsInSprint(i, action)
      BY <1>3 DEF EventsOf
    <2> HIDE DEF log
    <2> QED
      BY <1>3, <1>4, <2>1, <2>2
  <1>6. \A e \in F : e.issue \in D
    BY <1>2, <1>4
  <1>7. ASSUME NEW i \in D
        PROVE  IsFiniteSet(part[i]) /\ Cardinality(part[i]) = has[i]
    <2> DEFINE S == EventsInSprint(i, action)
    <2>1. \A r \in S : r.at \in Nat
      <3>1. jira[i].created \in Nat
        BY StatusesAreTold
      <3>2. \A e \in SprintEvents(i) : e.at \in Life(i)
        BY EventsAreOfTheirIssue
      <3> QED
        BY <3>1, <3>2 DEF Life, EventsInSprint
    <2>2. \A r, s \in S : r.at = s.at => r = s
      BY EventsAreApart DEF EventsInSprint
    <2> HIDE DEF S
    <2>3. LET first == {r \in S : \A s \in S : r.at <= s.at}
          IN  IsFiniteSet(first) /\ Cardinality(first) = IF S = {} THEN 0 ELSE 1
      BY ONLY <2>1, <2>2, FirstIsOne
    <2> QED
      BY <2>3 DEF S
  <1>8. has \in [D -> Int]
    OBVIOUS
  <1>9. part \in [D -> SUBSET F]
    <2>1. part = [i \in D |-> part[i]]
      OBVIOUS
    <2> HIDE DEF part, F
    <2> QED
      BY <1>5, <2>1
  <1>10. IsFiniteSet(D)
    OBVIOUS
  <1> HIDE DEF F, part, has, D
  <1>11. \A b, c \in D : b # c => part[b] \cap part[c] = {}
    BY <1>5
  <1>12. UNION {part[b] : b \in D} = F
    BY <1>5, <1>6
  <1>13. \A b \in D : IsFiniteSet(part[b])
    BY <1>7
  <1>14. \A b \in D : has[b] = Cardinality(part[b])
    BY <1>7
  <1>15. /\ IsFiniteSet(UNION {part[b] : b \in D})
         /\ Cardinality(UNION {part[b] : b \in D}) = SumFunctionOnSet(has, D)
    <2>1. Parts(D, F, part, has) /\ Apart(D, part)
      BY ONLY <1>8, <1>9, <1>10, <1>11, <1>13, <1>14 DEF Parts, Apart
    <2> QED
      BY ONLY <2>1, CountByParts DEF Whole
  <1> QED
    BY <1>8, <1>12, <1>15 DEF F, has, D

\* Counted day by day they are all of them.
LEMMA FirstsByDay ==
    ASSUME TypeInv, HistoryInv, Closed, IsFiniteSet(DOMAIN jira), NEW action
    PROVE  LET days == Day(Start0) .. Day(End0)
               count == [d \in days |-> Cardinality(ScopeChangesOn(tables, action, d))]
           IN  /\ count \in [days -> Int]
               /\ SumFunctionOnSet(count, days) = Cardinality(FirstOf(tables, action))
  <1> DEFINE days == Day(Start0) .. Day(End0)
             S == FirstOf(tables, action)
             key == [e \in S |-> Day(e.at)]
             count == [d \in days |-> Cardinality(ScopeChangesOn(tables, action, d))]
  <1>1. /\ Start0 \in Nat /\ End0 \in Nat
        /\ \A k \in 0 .. now : InSprint(tables, k) <=> k \in Window
        /\ \A k \in Window : k \in Nat /\ Start0 < k /\ k <= End0
    BY WindowIsOver
  <1>2. PerDay \in Nat \ {0}
    BY CalendarAssumption
  <1>3. Day(Start0) \in Int /\ Day(End0) \in Int
    BY <1>1, <1>2 DEF Day
  <1>4. \A k \in Window : Day(k) \in days
    <2>1. \A k, l \in Nat : k <= l => Day(k) \in Nat /\ Day(k) <= Day(l)
      BY <1>2 DEF Day
    <2> QED
      BY <1>1, <2>1
  <1>5. \A e \in S : e.at \in Window
    <2> TAKE e \in S
    <2>1. e \in tables.sprint_issues_changelog /\ InSprint(tables, e.at)
      BY DEF FirstOf
    <2>2. PICK i \in DOMAIN jira : e \in SprintEvents(i)
      BY <2>1, SprintLog
    <2>3. jira[i].created \in Nat /\ e.at \in Life(i) /\ now \in Nat
      BY <2>2, EventsAreOfTheirIssue, StatusesAreTold
    <2>4. e.at \in 0 .. now
      BY <2>3 DEF Life
    <2> QED
      BY <1>1, <2>1, <2>4
  <1>6. IsFiniteSet(S)
    BY FirstsByIssue
  <1>7. IsFiniteSet(days)
    BY <1>3, FS_Interval
  <1> HIDE DEF days
  <1>8. key \in [S -> days]
    BY <1>4, <1>5
  <1>9. \A d \in days : ScopeChangesOn(tables, action, d) = {e \in S : key[e] = d}
    BY DEF ScopeChangesOn
  <1> HIDE DEF S, key
  <1>10. Counts(count, days, S, key)
    BY <1>9 DEF Counts
  <1> HIDE DEF count
  <1>11. count \in [days -> Int] /\ SumFunctionOnSet(count, days) = Cardinality(S)
    BY ONLY <1>6, <1>7, <1>8, <1>10, CountByKey
  <1> QED
    BY <1>11 DEF days, S, count

\* The scope of the sprint at its end is its commitment, what was added and what was removed,
\* though an issue is counted once a sprint, on the first day.
THEOREM ScopeBalances == Spec => []ScopeChangesBalance
  <1>1. ASSUME TypeInv, HistoryInv, IsFiniteSet(DOMAIN jira), CommitmentIsTheSprintAtStart, Closed,
               \A i \in DOMAIN jira :
                    /\ ~AtTheStart(i) /\ ~PassedThrough(i) /\ ~Retroactive(i)
                    /\ Cardinality({m \in jira[i].moves : m.at \in Window}) <= 2
        PROVE  Cardinality(FinalScope(tables)) = Cardinality(Commitment(tables)) +
                    SumFunction([d \in Day(Start0) .. Day(End0) |-> Counted(tables, d)])
    <2> DEFINE D == DOMAIN jira
               log == tables.sprint_issues_changelog
               days == Day(Start0) .. Day(End0)
               final == {i \in D : PlannedAt(i, End0)}
               start == {i \in D : PlannedAt(i, Start0)}
               f == [i \in D |-> IF i \in final THEN 1 ELSE 0]
               c == [i \in D |-> IF i \in start THEN 1 ELSE 0]
               a == [i \in D |-> IF EventsInSprint(i, "added") = {} THEN 0 ELSE 1]
               r == [i \in D |-> IF EventsInSprint(i, "removed") = {} THEN 0 ELSE 1]
               h == [i \in D |-> f[i] - c[i]]
               adds == [d \in days |-> Cardinality(ScopeChangesOn(tables, "added", d))]
               removes == [d \in days |-> Cardinality(ScopeChangesOn(tables, "removed", d))]
               net == [d \in days |-> Counted(tables, d)]
    <2>1. /\ Start0 \in Nat /\ End0 \in Nat /\ now \in Nat /\ Start0 <= End0 /\ End0 < now
      BY <1>1, WindowIsOver
    <2>2. DOMAIN tables.issues = D /\ End(tables) = End0
      BY <1>1, TablesAreThoseOfJira, SprintLog DEF End, End0
    <2>3. VelocityEvents(tables) = log
      <3>1. ASSUME NEW e \in log
            PROVE  e.at <= End0
        <4>1. PICK i \in D : e \in SprintEvents(i)
          BY <1>1, SprintLog
        <4>2. e.at = jira[i].created \/ \E m \in jira[i].moves : e.at = m.at
          BY <1>1, <4>1, EventsAreOfTheirIssue DEF Records
        <4>3. jira[i].created \in Nat /\ \A m \in jira[i].moves : m.at \in After(i)
          BY <1>1, StatusesAreTold, MovesAreTold
        <4>4. jira[i].created <= End0 /\ \A m \in jira[i].moves : m.at <= End0
          <5>1. ~Retroactive(i)
            BY <1>1
          <5>2. \A m \in jira[i].moves : m.at \in Nat
            BY <2>1, <4>3 DEF After
          <5> QED
            BY <2>1, <4>3, <5>1, <5>2 DEF Retroactive
        <4> QED
          BY <4>2, <4>4
      <3> QED
        BY <2>2, <3>1 DEF VelocityEvents
    <2>4. FinalScope(tables) = final
      <3> DEFINE scope == identify_sprint_final_scope(tables, log)
      <3>1. \A i \in D : i \in scope <=> PlannedAt(i, End0)
        BY <1>1, FinalScopeIsThePlan
      <3>2. scope \in SUBSET D
        BY <2>2 DEF identify_sprint_final_scope, Known, Unlogged, Members
      <3>3. FinalScope(tables) = scope
        BY <2>3 DEF FinalScope
      <3> HIDE DEF scope
      <3> QED
        BY <3>1, <3>2, <3>3
    <2>5. Commitment(tables) = start
      <3>1. \A i \in D : i \in Commitment(tables) <=> PlannedAt(i, Start0)
        <4>1. now > Start0 /\ \A i \in D : ~AtTheStart(i) /\ ~PassedThrough(i) /\ ~Retroactive(i)
          <5>1. now > Start0
            BY <2>1
          <5>2. \A i \in D : ~AtTheStart(i) /\ ~PassedThrough(i) /\ ~Retroactive(i)
            BY <1>1
          <5> QED
            BY <5>1, <5>2
        <4>2. \A i \in D : i \in Commitment(tables) <=> i \in Committed
          BY <1>1, <4>1 DEF CommitmentIsTheSprintAtStart
        <4> QED
          BY <4>2 DEF Committed
      <3>2. Commitment(tables) \in SUBSET D
        <4>1. \A ids : OlderThanSprint(tables, ids) \in SUBSET ids
          BY DEF OlderThanSprint
        <4>2. Members(tables) \in SUBSET D
          BY <2>2 DEF Members
        <4>3. Unlogged(tables, log) \in SUBSET D
          BY <4>2 DEF Unlogged
        <4>4. AtCutoff(tables, log) \in SUBSET D
          BY <2>2 DEF AtCutoff, Known
        <4>5. Ghosts(tables, log) \in SUBSET D
          BY <2>2 DEF Ghosts, Known, OlderThanSprint
        <4>6. identify_sprint_commitment(tables, log) \in SUBSET D
          BY <4>1, <4>2, <4>3, <4>4, <4>5 DEF identify_sprint_commitment
        <4> QED
          BY <2>3, <4>6 DEF Commitment
      <3> QED
        BY <3>1, <3>2
    <2>6. \A i \in D : h[i] = f[i] - c[i] /\ h[i] = a[i] - r[i]
      <3> TAKE i \in D
      <3>1. (IF PlannedAt(i, End0) THEN 1 ELSE 0) - (IF PlannedAt(i, Start0) THEN 1 ELSE 0) =
            (IF EventsInSprint(i, "added") = {} THEN 0 ELSE 1)
            - (IF EventsInSprint(i, "removed") = {} THEN 0 ELSE 1)
        BY <1>1, ScopeOfAnIssue
      <3> QED
        BY <3>1
    <2>7. /\ f \in [D -> Int] /\ c \in [D -> Int] /\ a \in [D -> Int] /\ r \in [D -> Int] /\ h \in [D -> Int]
          /\ final \in SUBSET D /\ start \in SUBSET D /\ D \in SUBSET D
          /\ \A i \in D : f[i] = IF i \in final THEN 1 ELSE 0
          /\ \A i \in D : c[i] = IF i \in start THEN 1 ELSE 0
      OBVIOUS
    <2>8. IsFiniteSet(D)
      BY <1>1
    <2>9. Cardinality(FirstOf(tables, "added")) = SumFunctionOnSet(a, D)
      BY <1>1, FirstsByIssue
    <2>10. Cardinality(FirstOf(tables, "removed")) = SumFunctionOnSet(r, D)
      BY <1>1, FirstsByIssue
    <2>11. /\ adds \in [days -> Int]
           /\ SumFunctionOnSet(adds, days) = Cardinality(FirstOf(tables, "added"))
      BY <1>1, FirstsByDay
    <2>12. /\ removes \in [days -> Int]
           /\ SumFunctionOnSet(removes, days) = Cardinality(FirstOf(tables, "removed"))
      BY <1>1, FirstsByDay
    <2>13. \A d \in days : net[d] = adds[d] - removes[d]
      BY DEF Counted, calculate_sprint_scope_changes
    <2>14. IsFiniteSet(days) /\ days \in SUBSET days
      <3>1. Day(Start0) \in Int /\ Day(End0) \in Int
        BY <2>1, CalendarAssumption DEF Day
      <3> QED
        BY <3>1, FS_Interval
    <2>15. net = [d \in days |-> net[d]]
      OBVIOUS
    <2> HIDE DEF D, log, days, final, start, f, c, a, r, h, adds, removes, net
    <2>16. net \in [days -> Int]
      BY <2>11, <2>12, <2>13, <2>15
    <2>17. SumFunctionOnSet(f, D) = Cardinality(final)
      BY ONLY <2>7, <2>8, SumOfMembers
    <2>18. SumFunctionOnSet(c, D) = Cardinality(start)
      BY ONLY <2>7, <2>8, SumOfMembers
    <2>19. SumFunctionOnSet(h, D) = SumFunctionOnSet(f, D) - SumFunctionOnSet(c, D)
      <3>1. \A i \in D : h[i] = f[i] - c[i]
        BY <2>6
      <3> QED
        BY ONLY <2>7, <2>8, <3>1, SumOfDifferences
    <2>20. SumFunctionOnSet(h, D) = SumFunctionOnSet(a, D) - SumFunctionOnSet(r, D)
      <3>1. \A i \in D : h[i] = a[i] - r[i]
        BY <2>6
      <3> QED
        BY ONLY <2>7, <2>8, <3>1, SumOfDifferences
    <2>21. SumFunctionOnSet(net, days) = SumFunctionOnSet(adds, days) - SumFunctionOnSet(removes, days)
      BY ONLY <2>11, <2>12, <2>13, <2>14, <2>16, SumOfDifferences
    <2>22. SumFunction(net) = SumFunctionOnSet(net, days)
      BY <2>16, WholeSum
    <2>23. Cardinality(final) \in Nat /\ Cardinality(start) \in Nat
      BY <2>7, <2>8, FS_Subset, FS_CardinalityType
    <2>24. SumFunction(net) = Cardinality(final) - Cardinality(start)
      BY <2>9, <2>10, <2>11, <2>12, <2>17, <2>18, <2>19, <2>20, <2>21, <2>22
    <2>25. Cardinality(final) = Cardinality(start) + SumFunction(net)
      BY <2>23, <2>24
    <2> QED
      BY <2>4, <2>5, <2>25 DEF net, days
  <1>2. TypeInv /\ HistoryInv /\ IsFiniteSet(DOMAIN jira) /\ CommitmentIsTheSprintAtStart => ScopeChangesBalance
    BY <1>1 DEF ScopeChangesBalance
  <1> QED
    BY <1>2, ReportsCorrect, IssuesAreFinite, CommitmentIsTrue, PTL
================================================================================
