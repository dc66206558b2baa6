--------------------------- MODULE RuntimeManager ---------------------------
(***************************************************************************)
(* The runtime manager of the web server                                   *)
(* (apps/web/src/server/runtime-manager.js): requests lease the current    *)
(* query runtime, an admin refresh builds a new one and retires the old,   *)
(* shutdown closes them all.                                               *)
(*                                                                         *)
(* JavaScript runs each callback to completion, so an action is the code    *)
(* between two awaits.  The reactions to one promise run in the order they  *)
(* were registered and before any other event: the handlers that refresh()  *)
(* and currentEntry() put on a load run with the load itself.               *)
(***************************************************************************)
EXTENDS Naturals, FiniteSets

CONSTANTS
    Requests,      \* callers of acquire() and release()
    MaxRuntimes,   \* bound on nextId: runtimes built in one run
    HasGrace       \* retireGraceMs is finite

ASSUME RequestsFinite == IsFiniteSet(Requests)
ASSUME MaxRuntimesPositive == MaxRuntimes \in Nat \ {0}
ASSUME HasGraceBoolean == HasGrace \in BOOLEAN

Runtimes == 1 .. MaxRuntimes
None == 0

VARIABLES
    nextId,       \* id of the next entry
    load,         \* entry.promise: "none", "loading", "ready" or "failed"
    pool,         \* entry.runtime's pool: "none", "open" or "ended"
    inFlight,     \* entry.inFlight
    retired,      \* entry.retired
    timer,        \* entry.timer: "off", "armed" or "fired"
    closing,      \* entry.closing: "no", "requested" or "settled"
    current,      \* the runtime new requests get, or None
    refreshing,   \* the runtime a refresh is building, or None
    retiring,     \* the Set of replaced runtimes not closed yet
    closed,       \* shutdown has begun
    shutdown,     \* the promise close() returns: "no", "waiting", "returned"
    closeSet,     \* the entries close() waits for
    stage,        \* a request in acquire(): "idle", "loading" or "holding"
    uses          \* the entry a request awaits or holds

entryVars == <<nextId, load, pool, inFlight, retired, timer, closing>>
managerVars == <<current, refreshing, retiring, closed, shutdown, closeSet>>
requestVars == <<stage, uses>>
vars == <<nextId, load, pool, inFlight, retired, timer, closing,
          current, refreshing, retiring, closed, shutdown, closeSet,
          stage, uses>>

TypeOK ==
    /\ nextId \in 1 .. MaxRuntimes + 1
    /\ load \in [Runtimes -> {"none", "loading", "ready", "failed"}]
    /\ pool \in [Runtimes -> {"none", "open", "ended"}]
    /\ inFlight \in [Runtimes -> Nat]
    /\ retired \in [Runtimes -> BOOLEAN]
    /\ timer \in [Runtimes -> {"off", "armed", "fired"}]
    /\ closing \in [Runtimes -> {"no", "requested", "settled"}]
    /\ current \in Runtimes \cup {None}
    /\ refreshing \in Runtimes \cup {None}
    /\ retiring \subseteq Runtimes
    /\ closed \in BOOLEAN
    /\ shutdown \in {"no", "waiting", "returned"}
    /\ closeSet \subseteq Runtimes
    /\ stage \in [Requests -> {"idle", "loading", "holding"}]
    /\ uses \in [Requests -> Runtimes \cup {None}]

Init ==
    /\ nextId = 1
    /\ load = [e \in Runtimes |-> "none"]
    /\ pool = [e \in Runtimes |-> "none"]
    /\ inFlight = [e \in Runtimes |-> 0]
    /\ retired = [e \in Runtimes |-> FALSE]
    /\ timer = [e \in Runtimes |-> "off"]
    /\ closing = [e \in Runtimes |-> "no"]
    /\ current = None
    /\ refreshing = None
    /\ retiring = {}
    /\ closed = FALSE
    /\ shutdown = "no"
    /\ closeSet = {}
    /\ stage = [r \in Requests |-> "idle"]
    /\ uses = [r \in Requests |-> None]

-----------------------------------------------------------------------------
(* createEntry, closeEntry and retire *)

CreateEntry(e) ==
    /\ e = nextId
    /\ e \in Runtimes
    /\ nextId' = e + 1
    /\ load' = [load EXCEPT ![e] = "loading"]

\* A request's share in inFlight, or its lease, is given back, once.
GiveBack(r) ==
    /\ inFlight' = [inFlight EXCEPT ![uses[r]] = @ - 1]
    /\ stage' = [stage EXCEPT ![r] = "idle"]
    /\ uses' = [uses EXCEPT ![r] = None]

\* closeEntry() of every entry of S: idempotent, and the grace timer is cleared.
CloseEntries(S) ==
    /\ closing' = [e \in Runtimes |->
                     IF e \in S /\ closing[e] = "no" THEN "requested" ELSE closing[e]]
    /\ timer' = [e \in Runtimes |->
                   IF e \in S /\ closing[e] = "no" /\ timer[e] = "armed" THEN "off" ELSE timer[e]]

\* Faulty variants of Retire: it does not look at inFlight; it leaves an idle
\* entry to a release() that never comes; it forgets the grace timer.
RetireAtOnce(e) ==
    /\ retired' = [retired EXCEPT ![e] = TRUE]
    /\ retiring' = retiring \cup {e}
    /\ CloseEntries({e})

RetireWaits(e) ==
    /\ retired' = [retired EXCEPT ![e] = TRUE]
    /\ retiring' = retiring \cup {e}
    /\ UNCHANGED <<timer, closing>>

RetireUntimed(e) ==
    /\ retired' = [retired EXCEPT ![e] = TRUE]
    /\ retiring' = retiring \cup {e}
    /\ IF inFlight[e] = 0 THEN CloseEntries({e}) ELSE UNCHANGED <<timer, closing>>

\* The entry is closed at once when it is idle, else after the grace period.
\* (retire() returns early for a retired entry: the current one never is.)
Retire(e) ==
    /\ retired' = [retired EXCEPT ![e] = TRUE]
    /\ retiring' = retiring \cup {e}
    /\ IF inFlight[e] = 0
         THEN CloseEntries({e})
         ELSE /\ timer' = IF HasGrace THEN [timer EXCEPT ![e] = "armed"] ELSE timer
              /\ UNCHANGED closing

-----------------------------------------------------------------------------
(* acquire() and release() *)

\* acquire() up to its await: the lease is counted before the load is awaited.
Acquire(r) ==
    /\ stage[r] = "idle"
    /\ ~closed
    /\ \E e \in Runtimes :
         /\ IF current = None
              THEN CreateEntry(e) /\ current' = e
              ELSE e = current /\ UNCHANGED <<nextId, load, current>>
         /\ inFlight' = [inFlight EXCEPT ![e] = @ + 1]
         /\ uses' = [uses EXCEPT ![r] = e]
    /\ stage' = [stage EXCEPT ![r] = "loading"]
    /\ UNCHANGED <<pool, retired, timer, closing, refreshing, retiring, closed,
                   shutdown, closeSet>>

\* acquire() gives its lease back without release(): the load failed, or
\* shutdown began while it was awaited.
AcquireFails(r) ==
    /\ stage[r] = "loading"
    /\ \/ load[uses[r]] = "failed"
       \/ load[uses[r]] = "ready" /\ closed
    /\ GiveBack(r)
    /\ UNCHANGED <<nextId, load, pool, retired, timer, closing>>
    /\ UNCHANGED managerVars

AcquireReturns(r) ==
    /\ stage[r] = "loading"
    /\ load[uses[r]] = "ready"
    /\ ~closed
    /\ stage' = [stage EXCEPT ![r] = "holding"]
    /\ UNCHANGED entryVars
    /\ UNCHANGED managerVars
    /\ UNCHANGED uses

\* release(), once per lease; the last one closes a retired runtime.
Release(r) ==
    /\ stage[r] = "holding"
    /\ GiveBack(r)
    /\ IF retired[uses[r]] /\ inFlight[uses[r]] = 1
         THEN CloseEntries({uses[r]})
         ELSE UNCHANGED <<timer, closing>>
    /\ UNCHANGED <<nextId, load, pool, retired>>
    /\ UNCHANGED managerVars

-----------------------------------------------------------------------------
(* Loads and refreshes *)

\* refresh(): concurrent callers share the load in progress (a stutter here).
StartRefresh ==
    /\ ~closed
    /\ refreshing = None
    /\ \E e \in Runtimes : CreateEntry(e) /\ refreshing' = e
    /\ UNCHANGED <<pool, inFlight, retired, timer, closing, current, retiring,
                   closed, shutdown, closeSet>>
    /\ UNCHANGED requestVars

\* The factory of the current runtime (or one no longer wanted) succeeds.
LoadOk(e) ==
    /\ load[e] = "loading"
    /\ e # refreshing
    /\ load' = [load EXCEPT ![e] = "ready"]
    /\ pool' = [pool EXCEPT ![e] = "open"]
    /\ UNCHANGED <<nextId, inFlight, retired, timer, closing>>
    /\ UNCHANGED managerVars
    /\ UNCHANGED requestVars

\* The new runtime of a refresh loads: it is swapped in and the previous one
\* retired, unless shutdown began meanwhile, when it is closed instead.
RefreshOk(e) ==
    /\ load[e] = "loading"
    /\ e = refreshing
    /\ load' = [load EXCEPT ![e] = "ready"]
    /\ pool' = [pool EXCEPT ![e] = "open"]
    /\ refreshing' = None
    /\ IF closed
         THEN /\ CloseEntries({e})
              /\ UNCHANGED <<current, retired, retiring>>
         ELSE /\ current' = e
              /\ IF current = None
                   THEN UNCHANGED <<retired, retiring, timer, closing>>
                   ELSE Retire(current)
    /\ UNCHANGED <<nextId, inFlight, closed, shutdown, closeSet>>
    /\ UNCHANGED requestVars

\* The factory fails: a failed load is not kept as the current runtime.
LoadFails(e) ==
    /\ load[e] = "loading"
    /\ load' = [load EXCEPT ![e] = "failed"]
    /\ current' = IF current = e THEN None ELSE current
    /\ refreshing' = IF refreshing = e THEN None ELSE refreshing
    /\ UNCHANGED <<nextId, pool, inFlight, retired, timer, closing, retiring,
                   closed, shutdown, closeSet>>
    /\ UNCHANGED requestVars

-----------------------------------------------------------------------------
(* Closing *)

GraceExpires(e) ==
    /\ timer[e] = "armed"
    /\ timer' = [timer EXCEPT ![e] = "fired"]
    /\ closing' = [closing EXCEPT ![e] = IF @ = "no" THEN "requested" ELSE @]
    /\ UNCHANGED <<nextId, load, pool, inFlight, retired>>
    /\ UNCHANGED managerVars
    /\ UNCHANGED requestVars

\* closeEntry()'s reaction to the load calls runtime.close(); requests that
\* awaited the load before it have been answered by then.
EndPool(e) ==
    /\ closing[e] = "requested"
    /\ pool[e] = "open"
    /\ \A r \in Requests : ~(stage[r] = "loading" /\ uses[r] = e)
    /\ pool' = [pool EXCEPT ![e] = "ended"]
    /\ UNCHANGED <<nextId, load, inFlight, retired, timer, closing>>
    /\ UNCHANGED managerVars
    /\ UNCHANGED requestVars

\* runtime.close() settles, or there was nothing to close.
CloseSettles(e) ==
    /\ closing[e] = "requested"
    /\ pool[e] = "ended" \/ load[e] = "failed"
    /\ closing' = [closing EXCEPT ![e] = "settled"]
    /\ retiring' = retiring \ {e}
    /\ UNCHANGED <<nextId, load, pool, inFlight, retired, timer, current,
                   refreshing, closed, shutdown, closeSet>>
    /\ UNCHANGED requestVars

\* Every runtime that close() must wait for and close.
Open == (retiring \cup {current, refreshing}) \ {None}

\* close() up to its await.
Shutdown ==
    /\ ~closed
    /\ closed' = TRUE
    /\ closeSet' = Open
    /\ CloseEntries(Open)
    /\ current' = None
    /\ shutdown' = "waiting"
    /\ UNCHANGED <<nextId, load, pool, inFlight, retired, refreshing, retiring>>
    /\ UNCHANGED requestVars

\* close() returns: everything is closed, or closeTimeoutMs has passed.
ShutdownReturns(timedOut) ==
    /\ shutdown = "waiting"
    /\ timedOut \/ \A e \in closeSet : closing[e] = "settled"
    /\ shutdown' = "returned"
    /\ UNCHANGED entryVars
    /\ UNCHANGED <<current, refreshing, retiring, closed, closeSet>>
    /\ UNCHANGED requestVars

-----------------------------------------------------------------------------
RequestStep(r) == Acquire(r) \/ AcquireFails(r) \/ AcquireReturns(r) \/ Release(r)

RuntimeStep(e) ==
    \/ LoadOk(e)
    \/ RefreshOk(e)
    \/ LoadFails(e)
    \/ GraceExpires(e)
    \/ EndPool(e)
    \/ CloseSettles(e)

Next ==
    \/ \E r \in Requests : RequestStep(r)
    \/ \E e \in Runtimes : RuntimeStep(e)
    \/ StartRefresh
    \/ Shutdown
    \/ \E timedOut \in BOOLEAN : ShutdownReturns(timedOut)

Spec == Init /\ [][Next]_vars

(* Timers fire and callbacks run.  Nothing obliges a load to finish, a pool   *)
(* to finish closing or a request to end: none of those is fair.              *)
Fairness ==
    /\ \A r \in Requests : WF_vars(AcquireFails(r)) /\ WF_vars(AcquireReturns(r))
    /\ \A e \in Runtimes : WF_vars(GraceExpires(e)) /\ WF_vars(EndPool(e))
    /\ WF_vars(ShutdownReturns(TRUE))

FairSpec == Spec /\ Fairness

-----------------------------------------------------------------------------
(* Properties *)

Users(e) == {r \in Requests : stage[r] # "idle" /\ uses[r] = e}
Born(e) == e < nextId

(* entry.inFlight is exactly the number of requests that await or hold the   *)
(* runtime, through failed loads, late loads and shutdown: on it rest both    *)
(* the early close of an idle runtime and the close by the last release().    *)
LeaseCount == \A e \in Runtimes : inFlight[e] = Cardinality(Users(e))

(* The header of runtime-manager.js: "A refresh therefore never closes a pool *)
(* under a running query", except after the grace period, and only shutdown   *)
(* closes a runtime in use otherwise.                                         *)
NoCloseUnderLease ==
    \A r \in Requests :
        stage[r] = "holding" /\ pool[uses[r]] = "ended" =>
            closed \/ timer[uses[r]] = "fired"

(* New requests are never handed a runtime that failed to load, was replaced  *)
(* or has begun to close (currentEntry() does not cache a failed load).       *)
CurrentServes ==
    current # None =>
        /\ load[current] \in {"loading", "ready"}
        /\ ~retired[current]
        /\ closing[current] = "no"
        /\ ~closed

(* No pool is lost: whatever is open and not being closed is the current      *)
(* runtime, or a retired one that a user or a grace timer will close.         *)
NoOrphanPool ==
    \A e \in Runtimes :
        pool[e] = "open" /\ closing[e] = "no" =>
            \/ e = current
            \/ e \in retiring /\ inFlight[e] > 0 /\ (HasGrace => timer[e] = "armed")

(* close() "closes every runtime, including the one a refresh is still        *)
(* building": once it has begun, every runtime ever built is being closed,    *)
(* unless its load failed.                                                    *)
ShutdownReachesAll ==
    closed => \A e \in Runtimes : Born(e) => closing[e] # "no" \/ load[e] = "failed"

(* acquire() throws SHUTTING_DOWN once close() has begun, also to the requests *)
(* that were waiting for a load at that moment.                               *)
NoLeaseAfterShutdown ==
    [][\A r \in Requests :
          stage[r] # "holding" /\ stage'[r] = "holding" => ~closed]_vars

(* Every runtime keeps the promise of RuntimeContract.                        *)
Holders(e) == {r \in Requests : stage[r] = "holding" /\ uses[r] = e}
Leases == [e \in Runtimes |-> Holders(e)]
Replaced == {e \in Runtimes : retired[e]}
Expired == {e \in Runtimes : timer[e] = "fired"}

Contract ==
    INSTANCE RuntimeContract WITH
        pool <- pool, leases <- Leases, replaced <- Replaced, expired <- Expired,
        shutdown <- closed

ImplementsContract == Contract!Spec

(* close() "waits at most closeTimeoutMs": it returns even when a load or the *)
(* closing of a pool never finishes.  And with a finite grace period the pool  *)
(* of a replaced runtime is ended, however long its requests run ("or after    *)
(* retireGraceMs").                                                          *)
ClosingEnds ==
    /\ shutdown = "waiting" ~> shutdown = "returned"
    /\ \A e \in Runtimes : (retired[e] /\ pool[e] = "open") ~> pool[e] = "ended"

(* retire(), line 104: without a grace limit a retired runtime is "closed by  *)
(* the last release()".                                                       *)
LastUserClosesRetired ==
    \A e \in Runtimes : retired[e] /\ inFlight[e] = 0 => closing[e] # "no"
=============================================================================
