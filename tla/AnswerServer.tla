---------------------------- MODULE AnswerServer ----------------------------
(***************************************************************************)
(* The question routes of the web server (answerQuestion, getDatabaseSchema, *)
(* the deep health probe and the admin refresh in                            *)
(* apps/web/src/server/index.js) with the result cache (result-cache.js).    *)
(* Requests lease a runtime, share its memoized schema inspection, answer    *)
(* from the cache or run the pipeline, and write the cache; a refresh swaps  *)
(* the runtime and clears the cache; the database's tables change under all  *)
(* of them.                                                                  *)
(*                                                                         *)
(* The runtime manager is abstracted to what RuntimeManager proves of it: a  *)
(* lease stays usable until it is released.  The pipeline is abstracted to   *)
(* its outcome (QueryPipeline); a runner may answer after an abort.          *)
(***************************************************************************)
EXTENDS Naturals, FiniteSets, Sequences

CONSTANTS
    Requests,        \* questions and deep health probes
    Admins,          \* admin refreshes
    MaxVersion,      \* bound on the runtimes built
    MaxInspections,  \* bound on the schema inspections started
    Databases,       \* table sets the database goes through
    Ready,           \* those with every expected table
    SchemaVersion,   \* SchemaVersion[d]: table count and missing tables of d
    MaxEntries       \* cache size

Versions == 1 .. MaxVersion
Inspections == 1 .. MaxInspections
None == 0

VARIABLES
    database,    \* the tables the database has
    current,     \* runtime new requests lease
    refreshing,  \* runtime a refresh is building, or None
    admin,       \* an admin refresh: "idle", "waiting", "swapped", "done"
    memo,        \* memo.dbSchemaPromise of each runtime: an inspection or None
    inspection,  \* an inspection: "unborn", "inflight", "failed", or the tables seen
    cache,       \* ResultCache entries, in Map order
    generation,  \* ResultCache.#generation
    clearedFor,  \* runtime that was current when the cache was last cleared
    kind,        \* a request: "question", "debug" question or health "probe"; "none" when over
    phase,       \* the await a request is at
    lease,       \* runtime a request waits for or holds, or None
    late,        \* requests answered while their lease was still on its way
    awaits,      \* inspection a request waits for
    began,       \* cache generation a request saw first
    aborted,     \* the signal of a request that is still at work
    outcome      \* what the client gets

vars == <<database, current, refreshing, admin, memo, inspection, cache, generation,
          clearedFor, kind, phase, lease, late, awaits, began,
          aborted, outcome>>
refreshVars == <<current, refreshing, admin, clearedFor>>
schemaVars == <<memo, inspection>>
cacheVars == <<cache, generation>>
requestVars == <<kind, phase, lease, late, awaits, began, aborted, outcome>>

Kinds == {"question", "debug", "probe"}
Phases == {"idle", "acquiring", "pinging", "inspecting", "checking", "running", "done"}
Outcomes == {"none", "fresh", "hit", "failure", "schema-missing", "aborted", "healthy"}
Entries == [key : {SchemaVersion[d] : d \in Databases}, version : Versions]

ASSUME ReadyDatabases == Ready \subseteq Databases
ASSUME DatabaseNames == Databases \cap {"unborn", "inflight", "failed"} = {}
ASSUME AdminsFinite == IsFiniteSet(Admins)
ASSUME BoundsPositive == {MaxVersion, MaxInspections, MaxEntries} \subseteq Nat \ {0}

TypeOK ==
    /\ database \in Databases
    /\ current \in Versions
    /\ refreshing \in Versions \cup {None}
    /\ admin \in [Admins -> {"idle", "waiting", "swapped", "done"}]
    /\ memo \in [Versions -> Inspections \cup {None}]
    /\ inspection \in [Inspections -> {"unborn", "inflight", "failed"} \cup Databases]
    /\ cache \in Seq(Entries)
    /\ Len(cache) <= MaxEntries
    /\ generation \in Nat
    /\ clearedFor \in Versions
    /\ kind \in [Requests -> Kinds \cup {"none"}]
    /\ phase \in [Requests -> Phases]
    /\ lease \in [Requests -> Versions \cup {None}]
    /\ late \subseteq Requests
    /\ awaits \in [Requests -> Inspections \cup {None}]
    /\ began \in [Requests -> Nat]
    /\ aborted \in [Requests -> BOOLEAN]
    /\ outcome \in [Requests -> Outcomes]

Init ==
    /\ database \in Databases
    /\ current = 1
    /\ refreshing = None
    /\ admin = [a \in Admins |-> "idle"]
    /\ memo = [v \in Versions |-> None]
    /\ inspection = [i \in Inspections |-> "unborn"]
    /\ cache = <<>>
    /\ generation = 0
    /\ clearedFor = 1
    /\ kind = [r \in Requests |-> "none"]
    /\ phase = [r \in Requests |-> "idle"]
    /\ lease = [r \in Requests |-> None]
    /\ late = {}
    /\ awaits = [r \in Requests |-> None]
    /\ began = [r \in Requests |-> 0]
    /\ aborted = [r \in Requests |-> FALSE]
    /\ outcome = [r \in Requests |-> "none"]

-----------------------------------------------------------------------------
(* The result cache: keys are the one question of this model and a schema      *)
(* version; row limit and insights flag are the same for every request.        *)

Keys(c) == {c[n].key : n \in 1 .. Len(c)}
Place(c, key) == CHOOSE n \in 1 .. Len(c) : c[n].key = key
Without(c, key) == SubSeq(c, 1, Place(c, key) - 1) \o SubSeq(c, Place(c, key) + 1, Len(c))

\* get(): a hit moves to the end of the Map.
Touched(c, key) == Append(Without(c, key), c[Place(c, key)])

\* set(): overwriting keeps the place in the Map, a new key goes to the end and
\* the oldest entry makes room.
Stored(c, e) ==
    IF e.key \in Keys(c)
      THEN [n \in 1 .. Len(c) |-> IF c[n].key = e.key THEN e ELSE c[n]]
      ELSE IF Len(c) = MaxEntries THEN Append(Tail(c), e) ELSE Append(c, e)

-----------------------------------------------------------------------------
(* Shared steps *)

Goes(r, p) == phase' = [phase EXCEPT ![r] = p]

\* The request is over; its variables are gone.
Over(r, o) ==
    /\ Goes(r, "done")
    /\ outcome' = [outcome EXCEPT ![r] = o]
    /\ kind' = [kind EXCEPT ![r] = "none"]
    /\ aborted' = [aborted EXCEPT ![r] = FALSE]
    /\ awaits' = [awaits EXCEPT ![r] = None]
    /\ began' = [began EXCEPT ![r] = 0]

\* The request is answered and, in the finally block, gives its lease back.
Answer(r, o) == Over(r, o) /\ lease' = [lease EXCEPT ![r] = None]

\* getDatabaseSchema(): join the memoized inspection or start one and memoize it.
GetDatabaseSchema(r, refresh) ==
    /\ Goes(r, "inspecting")
    /\ IF refresh \/ memo[lease[r]] = None
         THEN \E i \in Inspections :
                /\ inspection[i] = "unborn"
                /\ \A j \in Inspections : j < i => inspection[j] # "unborn"
                /\ inspection' = [inspection EXCEPT ![i] = "inflight"]
                /\ memo' = [memo EXCEPT ![lease[r]] = i]
                /\ awaits' = [awaits EXCEPT ![r] = i]
         ELSE /\ awaits' = [awaits EXCEPT ![r] = memo[lease[r]]]
              /\ UNCHANGED schemaVars

-----------------------------------------------------------------------------
(* A request *)

\* The cache generation is read before the lease is asked for.
Ask(r) ==
    /\ phase[r] = "idle"
    /\ Goes(r, "acquiring")
    /\ \E k \in Kinds : kind' = [kind EXCEPT ![r] = k]
    /\ began' = [began EXCEPT ![r] = generation]
    /\ lease' = [lease EXCEPT ![r] = current]
    /\ UNCHANGED <<database, refreshVars, schemaVars, cacheVars, late, awaits, aborted, outcome>>

\* acquire() resolves: a probe pings the database first, a question goes on to
\* the schema.
AcquireReturns(r) ==
    /\ phase[r] = "acquiring"
    /\ IF kind[r] = "probe"
         THEN Goes(r, "pinging") /\ UNCHANGED <<schemaVars, awaits>>
         ELSE GetDatabaseSchema(r, FALSE)
    /\ UNCHANGED <<database, refreshVars, cacheVars, kind, lease, late, began,
                   aborted, outcome>>

\* acquire() settles after the request was answered: onLate releases the lease.
LateLease(r) ==
    /\ r \in late
    /\ late' = late \ {r}
    /\ lease' = [lease EXCEPT ![r] = None]
    /\ UNCHANGED <<database, refreshVars, schemaVars, cacheVars, kind, phase, awaits, began, aborted, outcome>>

\* The runtime cannot be loaded, or the probe's SELECT 1 fails.
SetupFails(r) ==
    /\ phase[r] \in {"acquiring", "pinging"}
    /\ Answer(r, "failure")
    /\ UNCHANGED <<database, refreshVars, schemaVars, cacheVars, late>>

Pinged(r) ==
    /\ phase[r] = "pinging"
    /\ GetDatabaseSchema(r, TRUE)
    /\ UNCHANGED <<database, refreshVars, cacheVars, kind, lease, late, began,
                   aborted, outcome>>

\* The inspection a request waits for has rejected, or found tables missing for
\* a question.
NotReady(r) ==
    LET d == inspection[awaits[r]]
    IN  /\ phase[r] = "inspecting"
        /\ \/ d = "failed" /\ Answer(r, "failure")
           \/ d \in Databases \ Ready /\ kind[r] # "probe" /\ Answer(r, "schema-missing")
    /\ UNCHANGED <<database, refreshVars, schemaVars, cacheVars, late>>

\* A probe reports any inspection; an authenticated one checks privileges first.
ProbeInspected(r) ==
    /\ phase[r] = "inspecting"
    /\ kind[r] = "probe"
    /\ inspection[awaits[r]] \in Databases
    /\ \/ Answer(r, "healthy")
       \/ Goes(r, "checking") /\ UNCHANGED <<lease, outcome, kind, awaits, began, aborted>>
    /\ UNCHANGED <<database, refreshVars, schemaVars, cacheVars, late>>

PrivilegesChecked(r) ==
    /\ phase[r] = "checking"
    /\ Answer(r, "healthy")
    /\ UNCHANGED <<database, refreshVars, schemaVars, cacheVars, late>>

\* The tables are there: a question is answered from the cache, or it finds no
\* entry or an expired one and is run.
SchemaReady(r) ==
    LET d == inspection[awaits[r]]
        cached == kind[r] = "question" /\ SchemaVersion[d] \in Keys(cache)
    IN  /\ phase[r] = "inspecting"
        /\ kind[r] # "probe"
        /\ d \in Ready
        /\ \/ /\ cached
              /\ cache' = Touched(cache, SchemaVersion[d])
              /\ Answer(r, "hit")
           \/ /\ cached
              /\ cache' = Without(cache, SchemaVersion[d])
              /\ Goes(r, "running")
              /\ UNCHANGED <<lease, outcome, kind, awaits, began, aborted>>
           \/ /\ ~cached
              /\ Goes(r, "running")
              /\ UNCHANGED <<cache, lease, outcome, kind, awaits, began, aborted>>
        /\ UNCHANGED <<database, refreshVars, schemaVars, generation, late>>

\* What the pipeline's result becomes: a success that comes after the abort is
\* reported as the abort.
Verdict(r, success) == IF ~success THEN "failure" ELSE IF aborted[r] THEN "aborted" ELSE "fresh"

\* Faulty: an entry is written whatever was cleared meanwhile.
StoreIgnoringGeneration(r, success) ==
    IF kind[r] = "question" /\ success /\ ~aborted[r]
      THEN cache' = Stored(cache, [key |-> SchemaVersion[inspection[awaits[r]]], version |-> lease[r]])
      ELSE UNCHANGED cache

\* set(): never a failure, nor a result computed before the last clear().
Store(r, success) ==
    IF kind[r] = "question" /\ success /\ ~aborted[r] /\ began[r] = generation
      THEN cache' = Stored(cache, [key |-> SchemaVersion[inspection[awaits[r]]], version |-> lease[r]])
      ELSE UNCHANGED cache

\* The pipeline returns.
RunEnds(r, success) ==
    /\ phase[r] = "running"
    /\ Store(r, success)
    /\ Answer(r, Verdict(r, success))
    /\ UNCHANGED <<database, refreshVars, schemaVars, generation, late>>

\* Faulty: the schema inspection is awaited without the signal.
AbortUnseenBySchemaWait(r) ==
    /\ ~aborted[r]
    /\ phase[r] \notin {"idle", "done"}
    /\ \/ /\ phase[r] \in {"running", "inspecting"}
          /\ aborted' = [aborted EXCEPT ![r] = TRUE]
          /\ UNCHANGED <<phase, outcome, kind, awaits, began, lease, late>>
       \/ /\ phase[r] = "acquiring"
          /\ Over(r, "aborted")
          /\ late' = late \cup {r}
          /\ UNCHANGED lease
       \/ phase[r] \in {"pinging", "checking"} /\ Answer(r, "aborted") /\ UNCHANGED late
    /\ UNCHANGED <<database, refreshVars, schemaVars, cacheVars>>

\* The client leaves or the deadline passes.  Setup waits end at once; a lease on
\* its way is left to onLate.  The pipeline sees the signal by itself.
Abort(r) ==
    /\ ~aborted[r]
    /\ phase[r] \notin {"idle", "done"}
    /\ \/ /\ phase[r] = "running"
          /\ aborted' = [aborted EXCEPT ![r] = TRUE]
          /\ UNCHANGED <<phase, outcome, kind, awaits, began, lease, late>>
       \/ /\ phase[r] = "acquiring"
          /\ Over(r, "aborted")
          /\ late' = late \cup {r}
          /\ UNCHANGED lease
       \/ /\ phase[r] \in {"pinging", "inspecting", "checking"}
          /\ Answer(r, "aborted")
          /\ UNCHANGED late
    /\ UNCHANGED <<database, refreshVars, schemaVars, cacheVars>>

-----------------------------------------------------------------------------
(* Inspections and the database (external) *)

\* An inspection that failed or found tables missing is forgotten, unless a
\* newer one has replaced it.
Forget(i, result) ==
    memo' = [v \in Versions |-> IF memo[v] = i /\ result \notin Ready THEN None ELSE memo[v]]

InspectionSettles(i, result) ==
    /\ inspection[i] = "inflight"
    /\ result \in {"failed", database}
    /\ inspection' = [inspection EXCEPT ![i] = result]
    /\ Forget(i, result)
    /\ UNCHANGED <<database, refreshVars, cacheVars, requestVars>>

\* Tables are created or dropped (bootstrap-db, seed-demo, an administrator).
DatabaseChanges ==
    /\ database' \in Databases \ {database}
    /\ UNCHANGED <<refreshVars, schemaVars, cacheVars, kind, phase, lease, late, awaits, began, aborted, outcome>>

-----------------------------------------------------------------------------
(* POST /api/admin/refresh-schema *)

\* Concurrent refreshes share one build.
Refresh(a) ==
    /\ admin[a] = "idle"
    /\ \/ refreshing # None /\ UNCHANGED refreshing
       \/ refreshing = None /\ current < MaxVersion /\ refreshing' = current + 1
    /\ admin' = [admin EXCEPT ![a] = "waiting"]
    /\ UNCHANGED <<database, current, clearedFor, schemaVars, cacheVars, requestVars>>

RefreshEnds(ok) ==
    /\ refreshing # None
    /\ refreshing' = None
    /\ current' = IF ok THEN refreshing ELSE current
    /\ admin' = [a \in Admins |->
                   IF admin[a] # "waiting" THEN admin[a] ELSE IF ok THEN "swapped" ELSE "done"]
    /\ UNCHANGED <<database, clearedFor, schemaVars, cacheVars, requestVars>>

\* Once its refresh has succeeded the handler clears the cache.
ClearCache(a) ==
    /\ admin[a] = "swapped"
    /\ admin' = [admin EXCEPT ![a] = "done"]
    /\ cache' = <<>>
    /\ generation' = generation + 1
    /\ clearedFor' = current
    /\ UNCHANGED <<database, current, refreshing, schemaVars, requestVars>>

-----------------------------------------------------------------------------
Next ==
    \/ \E r \in Requests :
         \/ Ask(r)
         \/ AcquireReturns(r)
         \/ LateLease(r)
         \/ SetupFails(r)
         \/ Pinged(r)
         \/ NotReady(r)
         \/ ProbeInspected(r)
         \/ PrivilegesChecked(r)
         \/ SchemaReady(r)
         \/ \E success \in BOOLEAN : RunEnds(r, success)
         \/ Abort(r)
    \/ \E i \in Inspections, result \in {"failed"} \cup Databases : InspectionSettles(i, result)
    \/ DatabaseChanges
    \/ \E a \in Admins : Refresh(a) \/ ClearCache(a)
    \/ \E ok \in BOOLEAN : RefreshEnds(ok)

Spec == Init /\ [][Next]_vars

\* The deadline timer fires, acquire() settles (the runtime manager loads or
\* fails) and a pipeline whose signal has fired returns (QueryPipeline's
\* AbortAnswers).  Nothing makes the database answer.
Fairness ==
    \A r \in Requests :
        /\ WF_vars(Abort(r))
        /\ WF_vars(LateLease(r))
        /\ WF_vars(aborted[r] /\ RunEnds(r, FALSE))

FairSpec == Spec /\ Fairness

-----------------------------------------------------------------------------
(* Properties *)

(* No answer computed on a runtime that a completed refresh replaced is left in *)
(* the cache or written to it later.                                           *)
CacheIsFresh == \A n \in 1 .. Len(cache) : cache[n].version >= clearedFor

(* A not-ready or failed inspection is re-run by the next request: what a new   *)
(* request would join is still in flight or ready.                             *)
NotReadyIsNotKept == \A v \in Versions : memo[v] # None => inspection[memo[v]] \in {"inflight"} \cup Ready

(* An answered request holds no lease, or one on its way that onLate returns.   *)
NoLeaseLeaked == \A r \in Requests : phase[r] = "done" => lease[r] = None \/ r \in late

(* A cancelled request is never reported as a fresh answer, nor cached, even    *)
(* if the runner ignored the signal.                                            *)
NoAnswerAfterAbort ==
    [][\A r \in Requests :
         phase[r] = "running" /\ phase'[r] = "done" /\ aborted[r]
           => outcome'[r] # "fresh" /\ cache' = cache]_vars

(* The deadline bounds every wait: whatever the database does, a request that   *)
(* came in is answered and its lease is given back.                            *)
DeadlineBoundsRequest ==
    \A r \in Requests : phase[r] # "idle" ~> phase[r] = "done" /\ lease[r] = None

(* "Adding/removing a table busts" the cache: an entry the next question would  *)
(* be answered from is keyed by the tables the database has.                   *)
TableChangeBusts ==
    memo[current] # None =>
        LET d == inspection[memo[current]]
        IN  d \in Databases /\ SchemaVersion[d] \in Keys(cache)
              => SchemaVersion[d] = SchemaVersion[database]
=============================================================================
