-------------------------- MODULE RuntimeContract --------------------------
(***************************************************************************)
(* What the runtime manager of the web server promises its users, without  *)
(* saying how: a runtime (schema, LLM client, MariaDB pool) is opened once, *)
(* may be leased, is replaced by a schema refresh, and its pool is ended    *)
(* only when nobody leases it, when its grace period has expired, or when   *)
(* the server shuts down.                                                   *)
(***************************************************************************)
EXTENDS Naturals, FiniteSets

CONSTANTS
    Requests,   \* callers that lease a runtime
    Runtimes    \* identities of the runtimes ever built

VARIABLES
    pool,       \* pool of each runtime: "none", "open" or "ended"
    leases,     \* the requests that hold each runtime
    replaced,   \* runtimes a refresh has swapped out
    expired,    \* replaced runtimes whose grace period is over
    shutdown    \* the server is closing

vars == <<pool, leases, replaced, expired, shutdown>>

Init ==
    /\ pool = [e \in Runtimes |-> "none"]
    /\ leases = [e \in Runtimes |-> {}]
    /\ replaced = {}
    /\ expired = {}
    /\ shutdown = FALSE

\* A runtime finishes loading; when a refresh built it, it replaces others.
Open(e) ==
    /\ pool[e] = "none"
    /\ pool' = [pool EXCEPT ![e] = "open"]
    /\ \E old \in SUBSET (Runtimes \ {e}) : replaced' = replaced \cup old
    /\ UNCHANGED <<leases, expired, shutdown>>

\* A request only ever gets a runtime whose pool is open.
Lease(r, e) ==
    /\ pool[e] = "open"
    /\ \A f \in Runtimes : r \notin leases[f]
    /\ ~shutdown
    /\ leases' = [leases EXCEPT ![e] = @ \cup {r}]
    /\ UNCHANGED <<pool, replaced, expired, shutdown>>

Return(r, e) ==
    /\ r \in leases[e]
    /\ leases' = [leases EXCEPT ![e] = @ \ {r}]
    /\ UNCHANGED <<pool, replaced, expired, shutdown>>

Expire(e) ==
    /\ e \in replaced
    /\ expired' = expired \cup {e}
    /\ UNCHANGED <<pool, leases, replaced, shutdown>>

\* The promise: a runtime in service is never ended under its users.
End(e) ==
    /\ pool[e] = "open"
    /\ \/ shutdown
       \/ e \in replaced /\ leases[e] = {}
       \/ e \in expired
    /\ pool' = [pool EXCEPT ![e] = "ended"]
    /\ UNCHANGED <<leases, replaced, expired, shutdown>>

Shutdown ==
    /\ shutdown' = TRUE
    /\ UNCHANGED <<pool, leases, replaced, expired>>

Next ==
    \/ \E e \in Runtimes : Open(e) \/ Expire(e) \/ End(e)
    \/ \E e \in Runtimes, r \in Requests : Lease(r, e) \/ Return(r, e)
    \/ Shutdown

Spec == Init /\ [][Next]_vars
=============================================================================
