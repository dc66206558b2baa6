----------------------------- MODULE WebAdmission -----------------------------
(***************************************************************************)
(* What a request passes before a route handler works on it: the host and   *)
(* origin guards, the JSON parser, the API token and the fixed-window rate   *)
(* limiter (security.js and the middleware of createApp in                   *)
(* apps/web/src/server/index.js).                                            *)
(*                                                                         *)
(* A host, an origin or a token is the class the guards sort it into; what   *)
(* an answer says, and the checks of a body by its route, are left out.      *)
(***************************************************************************)
EXTENDS Integers, FiniteSets, Sequences

CONSTANTS
    Clients,      \* keys of the limiter: source addresses
    MaxRequests,  \* requests per window; 0 or less disables the limiter
    Window,       \* windowMs
    MaxKeys,      \* maxKeys of the limiter's map
    MaxTime,      \* bound on the clock
    HostCheck,    \* config.hostCheck
    AuthEnabled   \* a token is configured

ASSUME AdmissionAssumption ==
    /\ IsFiniteSet(Clients) /\ MaxRequests \in Int /\ MaxTime \in Nat
    /\ {Window, MaxKeys} \subseteq Nat \ {0}
    /\ {HostCheck, AuthEnabled} \subseteq BOOLEAN

VARIABLES
    clock,    \* Date.now()
    hits,     \* hits: from keys to [count, resetAt]
    passed,   \* history: per client, when the limiter let its requests through
    inserted  \* history: when the map last got an entry

admissionVars == <<clock, hits, passed, inserted>>

Hosts == {"loopback", "listed", "other"}
Origins == {"none", "listed", "own", "other"}
Routes == {"question", "insights", "refresh"}
Requests == [client : Clients, host : Hosts, origin : Origins, token : BOOLEAN,
             route : Routes, json : BOOLEAN]

Times == 0 .. MaxTime
Entries == [count : Nat, resetAt : Nat]

AdmissionTypeOK ==
    /\ clock \in Times
    /\ DOMAIN hits \subseteq Clients
    /\ \A k \in DOMAIN hits : hits[k] \in Entries
    /\ passed \in [Clients -> Seq(Times)]
    /\ inserted \in Times

AdmissionInit ==
    /\ clock = 0
    /\ hits = [k \in {} |-> 0]
    /\ passed = [k \in Clients |-> <<>>]
    /\ inserted = 0

-----------------------------------------------------------------------------
IsHostAllowed(host) == host \in {"loopback", "listed"}

\* The same-origin exemption needs a Host header that the guard has validated.
IsOriginAllowed(origin) == origin \in {"none", "listed"} \/ (origin = "own" /\ HostCheck)

IsAuthorized(rq) == AuthEnabled => rq.token

\* The middleware in its order; a request that it stops is answered and not counted.
PassesGuards(rq) ==
    /\ HostCheck => IsHostAllowed(rq.host)
    /\ IsOriginAllowed(rq.origin)
    /\ rq.json
    /\ rq.route = "refresh" => AuthEnabled
    /\ IsAuthorized(rq)

\* The client's window is open: its entry exists and has not expired.
Live(k) == k \in DOMAIN hits /\ clock < hits[k].resetAt
Put(map, k, entry) == [x \in DOMAIN map \cup {k} |-> IF x = k THEN entry ELSE map[x]]

\* Faulty: notices the cap only when the map is already past it.
PrunedLate ==
    [k \in {x \in DOMAIN hits : Cardinality(DOMAIN hits) > MaxKeys => Live(x)} |-> hits[k]]

\* The map before an insertion: without its expired entries (pruneExpired) if it is at its cap.
Pruned ==
    [k \in {x \in DOMAIN hits : Cardinality(DOMAIN hits) >= MaxKeys => Live(x)} |-> hits[k]]

Count(k) == [hits EXCEPT ![k].count = @ + 1]

\* check(): the first request of a window.
OpenWindow(k) ==
    /\ MaxRequests > 0 /\ ~Live(k)
    /\ hits' = Put(Pruned, k, [count |-> 1, resetAt |-> clock + Window])
    /\ passed' = [passed EXCEPT ![k] = Append(@, clock)]
    /\ inserted' = clock

CountRequest(k) ==
    /\ MaxRequests > 0 /\ Live(k) /\ hits[k].count < MaxRequests
    /\ hits' = Count(k)
    /\ passed' = [passed EXCEPT ![k] = Append(@, clock)]
    /\ UNCHANGED inserted

\* The window is used up (RATE_LIMITED), or there is no limit.
RefuseOrIgnore(k) ==
    /\ MaxRequests > 0 => Live(k) /\ hits[k].count >= MaxRequests
    /\ UNCHANGED <<hits, passed, inserted>>

Arrive(rq) ==
    /\ PassesGuards(rq)
    /\ OpenWindow(rq.client) \/ CountRequest(rq.client) \/ RefuseOrIgnore(rq.client)
    /\ UNCHANGED clock

Tick ==
    /\ clock < MaxTime
    /\ clock' = clock + 1
    /\ UNCHANGED <<hits, passed, inserted>>

AdmissionNext == Tick \/ \E rq \in Requests : Arrive(rq)

AdmissionSpec == AdmissionInit /\ [][AdmissionNext]_admissionVars

-----------------------------------------------------------------------------
(* Correctness.                                                             *)

PassedIn(k, from, to) == Cardinality({n \in DOMAIN passed[k] : passed[k][n] \in from .. to})

\* check(): the count of a live window is the number of requests let through since it opened,
\* never above MaxRequests, so a client is refused only after that many requests in the last
\* Window; across the boundary of two windows at most twice as many pass within any Window.
WindowsKept ==
    MaxRequests > 0 =>
        /\ \A k \in DOMAIN hits : Live(k) =>
              /\ hits[k].count = PassedIn(k, hits[k].resetAt - Window, clock)
              /\ hits[k].count \in 1 .. MaxRequests
        /\ \A k \in Clients, t \in Times : PassedIn(k, t, t + Window - 1) <= 2 * MaxRequests

\* The cap bounds the map by the clients of one window: it is past MaxKeys only with entries
\* that were all live when the last of them was put in (pruneExpired runs before the insertion).
MapBounded ==
    Cardinality(DOMAIN hits) > MaxKeys => \A k \in DOMAIN hits : hits[k].resetAt > inserted

\* The limiter keeps its promise to clients without growing past what the promise needs.
LimitKept == WindowsKept /\ MapBounded
=============================================================================
