--------------------------------- MODULE RawSync ---------------------------------
(****************************************************************************)
(* The raw layer: the incremental load of one Jira project into             *)
(* raw_jira.issues, and the ghost cleanup that deletes from it what Jira no *)
(* longer has, while people go on working in Jira.                          *)
(*                                                                          *)
(* An issue is its id and the time of its last update; time counts the      *)
(* updates. Both processes page through search results that change under    *)
(* them. The load keeps its rows until all pages are read and then merges   *)
(* them, with the watermark (`cursor`), into the destination; dlt, which    *)
(* does that, also drops what is older than the watermark it started from   *)
(* ("dlt handles the actual filtering"), and keeps any one of the versions  *)
(* of an issue that the pages repeated.                                     *)
(****************************************************************************)
EXTENDS Naturals, FiniteSets, FiniteSetsExt

CONSTANTS
    MaxIssue,      \* issue ids are 1..MaxIssue, given out in ascending order
    Synced,        \* those of the project that is loaded
    PageSize,      \* maxResults
    Lookback,      \* JIRA_ISSUES_LOOKBACK_DAYS, in units of time
    LegacySearch,  \* /search/jql is missing: the fallback pages by startAt
    MaxTime        \* bound on the number of updates of a behaviour

Issues == 1 .. MaxIssue

ASSUME RawSyncAssumption ==
    /\ {MaxIssue, MaxTime, Lookback} \subseteq Nat
    /\ PageSize \in Nat \ {0}
    /\ Synced \subseteq Issues
    /\ LegacySearch \in BOOLEAN

VARIABLES
    jira,     \* for each issue the time of its last update; 0 if there is none
    created,  \* number of ids given out
    now,      \* time of the last update
    raw,      \* for each issue the version in raw_jira.issues, or 0
    cursor,   \* the watermark: greatest update loaded, 0 at first
    sync,     \* the load in progress
    cleanup   \* the cleanup in progress

vars == <<jira, created, now, raw, cursor, sync, cleanup>>

Live == {i \in Issues : jira[i] # 0}

InRaw == {i \in Issues : raw[i] # 0}

\* The place of an issue in a result ordered by `key`, and the page of it that comes after
\* `start` places.
Rank(i, result, key) == Cardinality({j \in result : key[j] <= key[i]})

PageOf(result, key, start) ==
    {i \in result : /\ start < Rank(i, result, key)
                    /\ Rank(i, result, key) <= start + PageSize}

-----------------------------------------------------------------------------
NoRows == [i \in Synced |-> {}]

IdleSync == [pc |-> "idle", from |-> 0, began |-> 0, pos |-> 0, attempt |-> 0,
             rows |-> NoRows]

IdleCleanup == [pc |-> "idle", startAt |-> 0, ids |-> {}, live |-> {}, ghosts |-> {}]

Init ==
    /\ jira = [i \in Issues |-> 0]
    /\ created = 0
    /\ now = 0
    /\ raw = [i \in Issues |-> 0]
    /\ cursor = 0
    /\ sync = IdleSync
    /\ cleanup = IdleCleanup

\* People and Jira.
Touch(i) ==
    /\ now < MaxTime
    /\ now' = now + 1
    /\ jira' = [jira EXCEPT ![i] = now + 1]

CreateIssue ==
    /\ created < MaxIssue
    /\ created' = created + 1
    /\ Touch(created + 1)
    /\ UNCHANGED <<raw, cursor, sync, cleanup>>

UpdateIssue(i) ==
    /\ i \in Live
    /\ Touch(i)
    /\ UNCHANGED <<created, raw, cursor, sync, cleanup>>

DeleteIssue(i) ==
    /\ i \in Live
    /\ jira' = [jira EXCEPT ![i] = 0]
    /\ UNCHANGED <<created, now, raw, cursor, sync, cleanup>>

-----------------------------------------------------------------------------
\* project in (...) AND updated >= watermark - lookback
Matching == {i \in Live \cap Synced : sync.from = 0 \/ jira[i] + Lookback >= sync.from}

\* ORDER BY updated ASC. What is left of the result: by position in it as it is now
\* (startAt), or, with nextPageToken, what comes after the last issue returned.
Remaining ==
    {i \in Matching : (IF LegacySearch THEN Rank(i, Matching, jira) ELSE jira[i]) > sync.pos}

StartFetch(from, attempt) ==
    sync' = [pc |-> "fetch", from |-> from, began |-> now, pos |-> 0,
             attempt |-> attempt, rows |-> NoRows]

StartSync ==
    /\ sync.pc = "idle"
    /\ StartFetch(cursor, 1)
    /\ UNCHANGED <<jira, created, now, raw, cursor, cleanup>>

\* The rows of a page that dlt's incremental lets through: later than the watermark
\* (it knows the ids it has loaded at the watermark itself, unique_hashes).
Yielded(page) ==
    [i \in Synced |->
        IF i \in page /\ jira[i] > sync.from
        THEN sync.rows[i] \cup {jira[i]} ELSE sync.rows[i]]

NextPos(page) ==
    IF LegacySearch THEN sync.pos + Cardinality(page)
    ELSE Max({sync.pos} \cup {jira[i] : i \in page})

\* Mutant: the page just asked for counts twice against the total.
FetchPageStoppingEarly ==
    LET page == PageOf(Remaining, jira, 0)
    IN  /\ sync.pc = "fetch"
        /\ sync' = [sync EXCEPT
                !.rows = Yielded(page),
                !.pos = NextPos(page),
                !.pc = IF Cardinality(Remaining) <= 2 * PageSize THEN "load" ELSE "fetch"]
        /\ UNCHANGED <<jira, created, now, raw, cursor, cleanup>>

\* One request of get_issues, and the end of the loop when nothing is left.
FetchPage ==
    LET page == PageOf(Remaining, jira, 0)
    IN  /\ sync.pc = "fetch"
        /\ sync' = [sync EXCEPT
                !.rows = Yielded(page),
                !.pos = NextPos(page),
                !.pc = IF Cardinality(Remaining) <= PageSize THEN "load" ELSE "fetch"]
        /\ UNCHANGED <<jira, created, now, raw, cursor, cleanup>>

\* Mutant: the watermark is the time at which the load ends.
AdvancedToNow == now

Advanced == Max({cursor} \cup UNION {sync.rows[i] : i \in Synced})

\* Merge on the primary key, and the state row that holds the watermark.
Load ==
    /\ sync.pc = "load"
    /\ raw' \in [Issues -> 0 .. MaxTime]
    /\ \A i \in Issues :
            IF i \in Synced /\ sync.rows[i] # {} THEN raw'[i] \in sync.rows[i]
            ELSE raw'[i] = raw[i]
    /\ cursor' = Advanced
    /\ sync' = IdleSync
    /\ UNCHANGED <<jira, created, now, cleanup>>

\* Mutant: the pipeline is run again for as long as a table is missing.
LoadUntilTable ==
    /\ sync.pc = "load"
    /\ cursor' = Advanced
    /\ StartFetch(Advanced, sync.attempt + 1)
    /\ UNCHANGED <<jira, created, now, raw, cleanup>>

\* A missing child table rolls the rows back, but the state row is written
\* (05-raw-layer-dlt.md). run_jira_pipeline runs the pipeline once more.
LoadWithoutTable ==
    /\ sync.pc = "load"
    /\ cursor' = Advanced
    /\ IF sync.attempt = 1 THEN StartFetch(Advanced, 2) ELSE sync' = IdleSync
    /\ UNCHANGED <<jira, created, now, raw, cleanup>>

\* The retries of _get_with_retry are used up, or the process dies.
FailSync ==
    /\ sync.pc # "idle"
    /\ sync' = IdleSync
    /\ UNCHANGED <<jira, created, now, raw, cursor, cleanup>>

-----------------------------------------------------------------------------
StartCleanup ==
    /\ cleanup.pc = "idle"
    /\ cleanup' = [IdleCleanup EXCEPT !.pc = "fetch", !.live = Live]
    /\ UNCHANGED <<jira, created, now, raw, cursor, sync>>

\* Mutant: startAt advances by maxResults plus one.
FetchIdsSkipping ==
    LET found == PageOf(Live, [i \in Issues |-> i], cleanup.startAt)
    IN  /\ cleanup.pc = "fetch"
        /\ cleanup' = [cleanup EXCEPT
                !.ids = @ \cup found,
                !.startAt = @ + Cardinality(found) + 1,
                !.pc = IF found = {} \/ cleanup.startAt + Cardinality(found) + 1 >= Cardinality(Live)
                       THEN "count" ELSE "fetch"]
        /\ UNCHANGED <<jira, created, now, raw, cursor, sync>>

\* One request of jira_ghost_cleanup: order by id, of all projects.
FetchIds ==
    LET found == PageOf(Live, [i \in Issues |-> i], cleanup.startAt)
    IN  /\ cleanup.pc = "fetch"
        /\ cleanup' = [cleanup EXCEPT
                !.ids = @ \cup found,
                !.startAt = @ + Cardinality(found),
                !.pc = IF found = {} \/ cleanup.startAt + Cardinality(found) >= Cardinality(Live)
                       THEN "count" ELSE "fetch"]
        /\ UNCHANGED <<jira, created, now, raw, cursor, sync>>

\* SELECT COUNT(*): too few ids, or none at all, end the cleanup.
CountRaw ==
    /\ cleanup.pc = "count"
    /\ cleanup' = IF \/ 10 * Cardinality(cleanup.ids) < 9 * Cardinality(InRaw)
                     \/ cleanup.ids = {}
                  THEN IdleCleanup ELSE [cleanup EXCEPT !.pc = "select"]
    /\ UNCHANGED <<jira, created, now, raw, cursor, sync>>

SelectGhosts ==
    /\ cleanup.pc = "select"
    /\ cleanup' = IF InRaw \subseteq cleanup.ids THEN IdleCleanup
                  ELSE [cleanup EXCEPT !.ghosts = InRaw \ cleanup.ids, !.pc = "delete"]
    /\ UNCHANGED <<jira, created, now, raw, cursor, sync>>

DeleteGhosts ==
    /\ cleanup.pc = "delete"
    /\ raw' = [i \in Issues |-> IF i \in cleanup.ghosts THEN 0 ELSE raw[i]]
    /\ cleanup' = IdleCleanup
    /\ UNCHANGED <<jira, created, now, cursor, sync>>

FailCleanup ==
    /\ cleanup.pc # "idle"
    /\ cleanup' = IdleCleanup
    /\ UNCHANGED <<jira, created, now, raw, cursor, sync>>

Next ==
    \/ CreateIssue
    \/ \E i \in Issues : UpdateIssue(i) \/ DeleteIssue(i)
    \/ StartSync \/ FetchPage \/ Load \/ LoadWithoutTable \/ FailSync
    \/ StartCleanup \/ FetchIds \/ CountRaw \/ SelectGhosts \/ DeleteGhosts \/ FailCleanup

Spec == Init /\ [][Next]_vars

-----------------------------------------------------------------------------
\* Every variable has its type; the watermark is behind Jira, and a load never
\* holds a version that Jira has not had.
TypeOK ==
    /\ jira \in [Issues -> 0 .. now] /\ now \in 0 .. MaxTime
    /\ created \in 0 .. MaxIssue /\ Live \subseteq 1 .. created
    /\ raw \in [Issues -> 0 .. now] /\ InRaw \subseteq Synced
    /\ cursor \in 0 .. now
    /\ sync.pc \in {"idle", "fetch", "load"} /\ sync.attempt \in 0 .. 2
    /\ {sync.from, sync.began} \subseteq 0 .. now
    /\ sync.rows \in [Synced -> SUBSET (1 .. now)]
    /\ cleanup.pc \in {"idle", "fetch", "count", "select", "delete"}
    /\ cleanup.ids \cup cleanup.live \cup cleanup.ghosts \subseteq 1 .. created

\* A load brings in every issue of the project that nobody touched while its pages
\* were read and that was updated after the watermark, however many other
\* issues were changed, created and deleted meanwhile.
SyncLoadsUntouched ==
    [][Load => \A i \in Synced \cap Live :
            sync.from < jira[i] /\ jira[i] <= sync.began => raw'[i] = jira[i]]_vars

\* The watermark never passes an issue in a version that was not read: what Jira has
\* between the old and the new watermark is among the rows of the load, or was changed
\* after its last page and is loaded next time.
WatermarkPassesOnlyTheRead ==
    [][cursor' # cursor => \A i \in Synced \cap Live :
            sync.from < jira[i] /\ jira[i] <= cursor' => jira[i] \in sync.rows[i]]_vars

\* If nothing was deleted in Jira while the ids were read, the cleanup leaves every
\* issue alone that existed when it began, whatever was created, changed and loaded
\* meanwhile.
CleanupSparesTheLiving ==
    [][DeleteGhosts /\ cleanup.live \subseteq Live =>
            \A i \in cleanup.live : raw'[i] = raw[i]]_vars

\* "Remove issues from raw layer that no longer exist in Jira API".
DeletesOnlyGhosts == [][DeleteGhosts => cleanup.ghosts \cap Live = {}]_vars

\* "We re-read a configurable lookback window to recover from incremental state
\* drift and out-of-order updates": after a load during which nobody touched Jira,
\* what was updated within the lookback window is in the raw layer.
LookbackRecovers ==
    [][Load /\ now = sync.began =>
            \A i \in Synced \cap Live :
                jira[i] + Lookback >= sync.from => raw'[i] = jira[i]]_vars
=============================================================================
