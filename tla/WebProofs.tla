----------------------------- MODULE WebProofs -----------------------------
(*****************************************************************************)
(* Proofs about the web: ServerLifecycle for every finite set of             *)
(* connections, WebAdmission for all clients, limits, windows and caps, and  *)
(* QueryStream for any number of questions, under any network and rendering. *)
(*****************************************************************************)
EXTENDS ServerLifecycle, WebAdmission, QueryStream, FiniteSetTheorems, SequenceTheorems, WellFoundedInduction, TLAPS

-----------------------------------------------------------------------------
(* The shutdown of the server.                                               *)

Uncounted == {c \in Conns : res[c] \in {"running", "cut"}}

\* A running response has its connection: what destroys the connection cuts it.
Attached == \A c \in Conns : res[c] = "running" => conn[c] = "busy"

\* Before the first signal nothing is armed.
Unsignalled == received = "never" => phase = "serving" /\ timer = "off"

\* server.close() has called back only when no connection was left, and none comes after it.
ClosedForGood ==
    phase \in {"waiting", "closing", "stopped"} => \A c \in Conns : conn[c] \in {"new", "gone"}

\* Only the force timer destroys a connection whose request is running.
ForcedOnly == killed # {} => timer = "fired"

LifecycleIInv ==
    /\ LifecycleTypeOK
    /\ InFlightExact
    /\ Attached
    /\ Unsignalled
    /\ ClosedForGood
    /\ ForcedOnly
    /\ ZeroIsClean

-----------------------------------------------------------------------------
LEMMA LifecycleInitImpliesIInv == LifecycleInit => LifecycleIInv
<1> SUFFICES ASSUME LifecycleInit PROVE LifecycleIInv
    OBVIOUS
<1> USE DEF LifecycleInit
<1>1. LifecycleTypeOK
    <2>1. conn \in [Conns -> {"new", "idle", "busy", "gone"}]
        OBVIOUS
    <2>2. res \in [Conns -> {"none", "running", "finished", "cut"}]
        OBVIOUS
    <2>3. sweep \in BOOLEAN
        OBVIOUS
    <2>4. inFlight \in Int /\ killed \subseteq Conns
        OBVIOUS
    <2> QED
        BY <2>1, <2>2, <2>3, <2>4 DEF LifecycleTypeOK
<1>2. InFlightExact
    <2>1. {c \in Conns : res[c] \in {"running", "cut"}} = {}
        OBVIOUS
    <2> QED
        BY <2>1, FS_EmptySet DEF InFlightExact
<1>3. Attached /\ Unsignalled /\ ClosedForGood /\ ForcedOnly /\ ZeroIsClean
    BY DEF Attached, Unsignalled, ClosedForGood, ForcedOnly, ZeroIsClean
<1> QED
    BY <1>1, <1>2, <1>3 DEF LifecycleIInv

\* Destroying connections leaves the counted responses as they are.
LEMMA DestroyAllKeeps ==
    ASSUME NEW cs \in SUBSET Conns, LifecycleIInv, DestroyAll(cs)
    PROVE  /\ conn' \in [Conns -> {"new", "idle", "busy", "gone"}]
           /\ res' \in [Conns -> {"none", "running", "finished", "cut"}]
           /\ killed' \subseteq Conns
           /\ Uncounted' = Uncounted
           /\ Attached'
           /\ \A c \in Conns : conn[c] \in {"new", "gone"} => conn'[c] \in {"new", "gone"}
           /\ (\A c \in cs : conn[c] # "busy") => killed' = killed
    BY DEF LifecycleIInv, LifecycleTypeOK, Uncounted, Attached, DestroyAll

\* The set of responses to count out changes by one element, and so does its size.
LEMMA CountChanges ==
    ASSUME LifecycleIInv, NEW c \in Conns
    PROVE  /\ c \notin Uncounted => Cardinality(Uncounted \cup {c}) = inFlight + 1
           /\ c \in Uncounted => Cardinality(Uncounted \ {c}) = inFlight - 1
<1>1. IsFiniteSet(Uncounted)
    BY ConnsFinite, FS_Subset DEF Uncounted
<1>2. inFlight = Cardinality(Uncounted) /\ inFlight \in Int
    BY DEF LifecycleIInv, InFlightExact, Uncounted, LifecycleTypeOK
<1> QED
    BY <1>1, <1>2, FS_AddElement, FS_RemoveElement

LEMMA ConnectionStep ==
    ASSUME LifecycleIInv, NEW c \in Conns,
           Connect(c) \/ Request(c) \/ Finish(c) \/ ResponseCloses(c) \/ Leave(c)
    PROVE  LifecycleIInv'
<1> USE DEF LifecycleIInv
<1>1. CASE Connect(c)
    <2> USE <1>1 DEF Connect
    <2>1. LifecycleTypeOK'
        BY DEF LifecycleTypeOK
    <2>2. InFlightExact'
        BY DEF InFlightExact
    <2>3. Attached' /\ Unsignalled' /\ ClosedForGood' /\ ForcedOnly' /\ ZeroIsClean'
        BY DEF LifecycleTypeOK, Attached, Unsignalled, ClosedForGood, ForcedOnly, ZeroIsClean
    <2> QED
        BY <2>1, <2>2, <2>3
<1>2. CASE Request(c)
    <2> USE <1>2 DEF Request
    <2>1. LifecycleTypeOK'
        BY DEF LifecycleTypeOK
    <2>2. InFlightExact'
        <3>1. c \notin Uncounted /\ Uncounted' = Uncounted \cup {c}
            BY DEF Uncounted, LifecycleTypeOK
        <3> QED
            BY <3>1, CountChanges DEF InFlightExact, Uncounted
    <2>3. Attached' /\ Unsignalled' /\ ClosedForGood' /\ ForcedOnly' /\ ZeroIsClean'
        BY DEF LifecycleTypeOK, Attached, Unsignalled, ClosedForGood, ForcedOnly, ZeroIsClean
    <2> QED
        BY <2>1, <2>2, <2>3
<1>3. CASE Finish(c)
    <2> USE <1>3 DEF Finish, CountOut
    <2>1. LifecycleTypeOK'
        BY DEF LifecycleTypeOK, Draining
    <2>2. InFlightExact'
        <3>1. c \in Uncounted /\ Uncounted' = Uncounted \ {c}
            BY DEF Uncounted, LifecycleTypeOK
        <3> QED
            BY <3>1, CountChanges DEF InFlightExact, Uncounted
    <2>3. conn[c] = "busy"
        BY DEF Attached
    <2>4. Attached' /\ Unsignalled' /\ ClosedForGood' /\ ForcedOnly' /\ ZeroIsClean'
        BY <2>3 DEF LifecycleTypeOK, Attached, Unsignalled, ClosedForGood, ForcedOnly, ZeroIsClean
    <2> QED
        BY <2>1, <2>2, <2>4
<1>4. CASE ResponseCloses(c)
    <2> USE <1>4 DEF ResponseCloses, CountOut
    <2>1. LifecycleTypeOK'
        <3>1. sweep' \in BOOLEAN
            BY Zenon DEF LifecycleTypeOK
        <3>2. inFlight' \in Int
            BY DEF LifecycleTypeOK
        <3> QED
            BY <3>1, <3>2 DEF LifecycleTypeOK
    <2>2. InFlightExact'
        <3>1. CASE res[c] = "cut"
            <4>1. c \in Uncounted /\ Uncounted' = Uncounted \ {c}
                BY <3>1 DEF Uncounted, LifecycleTypeOK
            <4> QED
                BY <3>1, <4>1, CountChanges DEF InFlightExact, Uncounted
        <3>2. CASE res[c] = "finished"
            <4>1. Uncounted' = Uncounted
                BY <3>2 DEF Uncounted, LifecycleTypeOK
            <4> QED
                BY <3>2, <4>1 DEF InFlightExact, Uncounted
        <3> QED
            BY <3>1, <3>2
    <2>3. Attached' /\ Unsignalled' /\ ClosedForGood' /\ ForcedOnly' /\ ZeroIsClean'
        BY DEF LifecycleTypeOK, Attached, Unsignalled, ClosedForGood, ForcedOnly, ZeroIsClean
    <2> QED
        BY <2>1, <2>2, <2>3
<1>5. CASE Leave(c)
    <2> USE <1>5 DEF Leave, Alive
    <2>1. LifecycleTypeOK'
        BY DEF LifecycleTypeOK
    <2>2. InFlightExact'
        <3>1. Uncounted' = Uncounted
            BY DEF Uncounted, LifecycleTypeOK
        <3> QED
            BY <3>1 DEF InFlightExact, Uncounted
    <2>3. Attached' /\ Unsignalled' /\ ClosedForGood' /\ ForcedOnly' /\ ZeroIsClean'
        BY DEF LifecycleTypeOK, Attached, Unsignalled, ClosedForGood, ForcedOnly, ZeroIsClean
    <2> QED
        BY <2>1, <2>2, <2>3
<1> QED
    BY <1>1, <1>2, <1>3, <1>4, <1>5

\* The three actions that destroy connections; only the force timer may cut requests off.
LEMMA DestroyStep ==
    ASSUME LifecycleIInv, CloseIdle \/ FirstSignal \/ ForceTimer
    PROVE  LifecycleIInv'
<1> DEFINE cs == IF ForceTimer THEN Alive ELSE Idle
<1>1. cs \in SUBSET Conns /\ DestroyAll(cs)
    BY DEF Alive, Idle, CloseIdle, FirstSignal, ForceTimer
<1>2. /\ conn' \in [Conns -> {"new", "idle", "busy", "gone"}]
      /\ res' \in [Conns -> {"none", "running", "finished", "cut"}]
      /\ killed' \subseteq Conns
      /\ Uncounted' = Uncounted
      /\ Attached'
      /\ \A d \in Conns : conn[d] \in {"new", "gone"} => conn'[d] \in {"new", "gone"}
      /\ (\A d \in cs : conn[d] # "busy") => killed' = killed
    BY <1>1, DestroyAllKeeps
<1> HIDE DEF cs
<1>3. ForceTimer \/ killed' = killed
    <2>1. CASE ~ForceTimer
        BY <2>1, <1>2 DEF cs, Idle
    <2> QED
        BY <2>1
<1>4. LifecycleTypeOK'
    BY <1>2 DEF LifecycleIInv, LifecycleTypeOK, CloseIdle, FirstSignal, ForceTimer
<1>5. InFlightExact'
    BY <1>2 DEF LifecycleIInv, InFlightExact, Uncounted, CloseIdle, FirstSignal, ForceTimer
<1>6. Unsignalled' /\ ForcedOnly' /\ ZeroIsClean'
    BY <1>3 DEF LifecycleIInv, Unsignalled, ForcedOnly, ZeroIsClean, CloseIdle, FirstSignal, ForceTimer
<1>7. ClosedForGood'
    BY <1>2 DEF LifecycleIInv, Unsignalled, ClosedForGood, CloseIdle, FirstSignal, ForceTimer
<1> QED
    BY <1>2, <1>4, <1>5, <1>6, <1>7 DEF LifecycleIInv

\* The steps of the signal handler and of shutdown() that touch no connection.
LEMMA HandlerStep ==
    ASSUME LifecycleIInv, WindowPasses \/ NextSignal \/ ServerClosed \/ WaitEnds \/ PoolsClosed
    PROVE  LifecycleIInv'
<1> USE DEF LifecycleIInv, WindowPasses, NextSignal, ServerClosed, WaitEnds, PoolsClosed
<1>1. LifecycleTypeOK'
    BY DEF LifecycleTypeOK
<1>2. InFlightExact' /\ Attached'
    BY DEF InFlightExact, Attached
<1>3. Unsignalled'
    BY DEF Unsignalled
<1>4. ClosedForGood'
    BY DEF ClosedForGood, Alive, LifecycleTypeOK
<1>5. ForcedOnly' /\ ZeroIsClean'
    BY DEF ForcedOnly, ZeroIsClean
<1> QED
    BY <1>1, <1>2, <1>3, <1>4, <1>5

LEMMA LifecycleInvariance == LifecycleSpec => []LifecycleIInv
<1>1. LifecycleIInv /\ [LifecycleNext]_lifecycleVars => LifecycleIInv'
    <2> SUFFICES ASSUME LifecycleIInv, [LifecycleNext]_lifecycleVars PROVE LifecycleIInv'
        OBVIOUS
    <2>1. CASE LifecycleNext
        BY <2>1, ConnectionStep, DestroyStep, HandlerStep DEF LifecycleNext
    <2>2. CASE UNCHANGED lifecycleVars
        BY <2>2 DEF lifecycleVars, LifecycleIInv, LifecycleTypeOK, InFlightExact, Attached, Unsignalled,
                    ClosedForGood, ForcedOnly, ZeroIsClean
    <2> QED
        BY <2>1, <2>2
<1> QED
    BY <1>1, LifecycleInitImpliesIInv, PTL DEF LifecycleSpec

\* The counter of running responses is exact whatever the order of 'finish' and 'close'.
THEOREM CounterCorrect == LifecycleSpec => []InFlightExact
<1>1. LifecycleIInv => InFlightExact
    BY DEF LifecycleIInv
<1> QED
    BY <1>1, LifecycleInvariance, PTL

\* A shutdown closes the pools under no running request and exits with 0 only when the server
\* cut none off, for any number of connections, signals and requests.
THEOREM ExitIsClean == LifecycleSpec => []CleanExit
<1>1. LifecycleIInv => CleanExit
    BY DEF LifecycleIInv, Attached, ClosedForGood, CleanExit, PoolsCloseLast
<1> QED
    BY <1>1, LifecycleInvariance, PTL

-----------------------------------------------------------------------------
(* The map of the rate limiter.                                              *)

\* The limiter's map holds entries of clients.
MapOK ==
    /\ clock \in Nat /\ inserted \in Nat
    /\ DOMAIN hits \subseteq Clients
    /\ \A k \in DOMAIN hits : hits[k] \in [count : Int, resetAt : Int]

\* No client's count passes the limit, be its window open or over.
CountBounded == \A k \in DOMAIN hits : hits[k].count <= MaxRequests

MapIInv == MapOK /\ MapBounded /\ CountBounded

-----------------------------------------------------------------------------
LEMMA MapInit == AdmissionInit => MapIInv
<1> SUFFICES ASSUME AdmissionInit PROVE MapIInv
    OBVIOUS
<1>1. DOMAIN hits = {} /\ clock = 0 /\ inserted = 0
    BY DEF AdmissionInit
<1> QED
    BY <1>1 DEF MapIInv, MapOK, MapBounded, CountBounded

LEMMA MapFinite ==
    ASSUME MapOK
    PROVE  IsFiniteSet(DOMAIN hits) /\ Cardinality(DOMAIN hits) \in Nat
    BY AdmissionAssumption, FS_Subset, FS_CardinalityType DEF MapOK

\* The map after an insertion: entries that were there, without the expired ones if the map
\* was at its cap, and the new one.
LEMMA OpenWindowStep ==
    ASSUME MapIInv, NEW k \in Clients, OpenWindow(k), UNCHANGED clock
    PROVE  MapIInv'
<1> DEFINE entry == [count |-> 1, resetAt |-> clock + Window]
<1>1. /\ DOMAIN Pruned \subseteq DOMAIN hits
      /\ \A x \in DOMAIN Pruned : Pruned[x] = hits[x]
      /\ Cardinality(DOMAIN hits) >= MaxKeys => \A x \in DOMAIN Pruned : Live(x)
    BY DEF Pruned
<1>2. /\ DOMAIN hits' = DOMAIN Pruned \cup {k}
      /\ hits'[k] = entry
      /\ \A x \in DOMAIN Pruned : x # k => hits'[x] = hits[x]
    BY <1>1 DEF OpenWindow, Put
<1> HIDE DEF entry
<1>3. entry \in [count : Int, resetAt : Int] /\ entry.count = 1 /\ entry.resetAt > clock
    BY AdmissionAssumption DEF entry, MapIInv, MapOK
<1>4. inserted' = clock /\ MaxRequests >= 1
    BY AdmissionAssumption DEF OpenWindow
<1>5. MapOK'
    BY <1>1, <1>2, <1>3, <1>4 DEF MapIInv, MapOK
<1>6. CountBounded'
    BY <1>1, <1>2, <1>3, <1>4, AdmissionAssumption DEF MapIInv, CountBounded
<1>7. MapBounded'
    <2>1. CASE Cardinality(DOMAIN hits) >= MaxKeys
        BY <2>1, <1>1, <1>2, <1>3, <1>4 DEF MapBounded, Live
    <2>2. CASE ~(Cardinality(DOMAIN hits) >= MaxKeys)
        <3>1. Cardinality(DOMAIN hits \cup {k}) <= MaxKeys
            <4>1. IsFiniteSet(DOMAIN hits) /\ Cardinality(DOMAIN hits) \in Nat
                BY MapFinite DEF MapIInv
            <4>2. \/ Cardinality(DOMAIN hits \cup {k}) = Cardinality(DOMAIN hits)
                  \/ Cardinality(DOMAIN hits \cup {k}) = Cardinality(DOMAIN hits) + 1
                BY <4>1, FS_AddElement
            <4> QED
                BY <2>2, <4>1, <4>2, AdmissionAssumption
        <3>2. IsFiniteSet(DOMAIN hits \cup {k})
            BY MapFinite, FS_AddElement DEF MapIInv
        <3>3. DOMAIN hits' \in SUBSET (DOMAIN hits \cup {k})
            BY <1>1, <1>2
        <3>4. Cardinality(DOMAIN hits') <= Cardinality(DOMAIN hits \cup {k})
            BY <3>2, <3>3, FS_Subset
        <3>5. Cardinality(DOMAIN hits') \in Nat /\ Cardinality(DOMAIN hits \cup {k}) \in Nat
            BY <3>2, <3>3, FS_Subset, FS_CardinalityType
        <3>6. ~(Cardinality(DOMAIN hits') > MaxKeys)
            BY <3>1, <3>4, <3>5, AdmissionAssumption
        <3> QED
            BY <3>6 DEF MapBounded
    <2> QED
        BY <2>1, <2>2
<1> QED
    BY <1>5, <1>6, <1>7 DEF MapIInv

LEMMA CountRequestStep ==
    ASSUME MapIInv, NEW k \in Clients, CountRequest(k), UNCHANGED clock
    PROVE  MapIInv'
<1>1. k \in DOMAIN hits /\ hits[k].count < MaxRequests
    BY DEF CountRequest, Live
<1>2. /\ DOMAIN hits' = DOMAIN hits
      /\ hits'[k] = [hits[k] EXCEPT !.count = @ + 1]
      /\ \A x \in DOMAIN hits : x # k => hits'[x] = hits[x]
    BY <1>1 DEF CountRequest, Count
<1>3. /\ hits'[k] \in [count : Int, resetAt : Int]
      /\ hits'[k].resetAt = hits[k].resetAt
      /\ hits'[k].count <= MaxRequests
    BY <1>1, <1>2, AdmissionAssumption DEF MapIInv, MapOK
<1>4. inserted' = inserted
    BY DEF CountRequest
<1>5. \A x \in DOMAIN hits : hits'[x].resetAt = hits[x].resetAt
    BY <1>2, <1>3
<1>6. MapOK' /\ CountBounded'
    BY <1>2, <1>3, <1>4 DEF MapIInv, MapOK, CountBounded
<1>7. MapBounded'
    BY <1>2, <1>4, <1>5 DEF MapIInv, MapBounded
<1> QED
    BY <1>6, <1>7 DEF MapIInv

LEMMA MapStep ==
    ASSUME MapIInv, [AdmissionNext]_admissionVars
    PROVE  MapIInv'
<1>1. CASE Tick
    <2>1. clock' \in Nat /\ UNCHANGED <<hits, inserted>>
        BY <1>1 DEF Tick, MapIInv, MapOK
    <2> QED
        BY <2>1 DEF MapIInv, MapOK, MapBounded, CountBounded
<1>2. ASSUME NEW rq \in Requests, Arrive(rq)
      PROVE  MapIInv'
    <2>1. rq.client \in Clients /\ UNCHANGED clock
        BY <1>2 DEF Requests, Arrive
    <2>2. CASE RefuseOrIgnore(rq.client)
        BY <2>1, <2>2 DEF RefuseOrIgnore, MapIInv, MapOK, MapBounded, CountBounded
    <2> QED
        BY <1>2, <2>1, <2>2, OpenWindowStep, CountRequestStep DEF Arrive
<1>3. CASE UNCHANGED admissionVars
    BY <1>3 DEF admissionVars, MapIInv, MapOK, MapBounded, CountBounded
<1> QED
    BY <1>1, <1>2, <1>3 DEF AdmissionNext

LEMMA MapInvariance == AdmissionSpec => []MapIInv
<1>1. MapIInv /\ [AdmissionNext]_admissionVars => MapIInv'
    BY MapStep
<1> QED
    BY <1>1, MapInit, PTL DEF AdmissionSpec

\* The limiter's map is past its cap only with entries that were live when the last one came:
\* clients of past windows never make it grow, however many there are.
THEOREM MapStaysBounded == AdmissionSpec => []MapBounded
<1>1. MapIInv => MapBounded
    BY DEF MapIInv
<1> QED
    BY <1>1, MapInvariance, PTL

-----------------------------------------------------------------------------
(* The windows of the rate limiter.                                          *)

\* The positions of the times within a span.
Within(p, from, to) == {n \in DOMAIN p : p[n] \in from .. to}

LEMMA WithinFinite ==
    ASSUME NEW p \in Seq(Int), NEW from \in Int, NEW to \in Int
    PROVE  IsFiniteSet(Within(p, from, to)) /\ Cardinality(Within(p, from, to)) \in Nat
<1>1. IsFiniteSet(DOMAIN p) /\ Within(p, from, to) \subseteq DOMAIN p
    <2>1. DOMAIN p = 1 .. Len(p) /\ Len(p) \in Nat
        OBVIOUS
    <2> QED
        BY <2>1, FS_Interval DEF Within
<1> QED
    BY <1>1, FS_Subset, FS_CardinalityType

\* Times of one span that are all in another, or in two others.
LEMMA WithinMonotone ==
    ASSUME NEW p \in Seq(Int), NEW a \in Int, NEW b \in Int, NEW c \in Int, NEW d \in Int,
           \A n \in DOMAIN p : p[n] \in a .. b => p[n] \in c .. d
    PROVE  Cardinality(Within(p, a, b)) <= Cardinality(Within(p, c, d))
<1>1. Within(p, a, b) \subseteq Within(p, c, d)
    BY DEF Within
<1> QED
    BY <1>1, WithinFinite, FS_Subset

LEMMA WithinSplit ==
    ASSUME NEW p \in Seq(Int), NEW a \in Int, NEW b \in Int, NEW c \in Int, NEW d \in Int,
           NEW e \in Int, NEW f \in Int,
           \A n \in DOMAIN p : p[n] \in a .. b => p[n] \in c .. d \/ p[n] \in e .. f
    PROVE  Cardinality(Within(p, a, b)) <= Cardinality(Within(p, c, d)) + Cardinality(Within(p, e, f))
<1> DEFINE left == Within(p, c, d)
           right == Within(p, e, f)
<1>1. Within(p, a, b) \subseteq left \cup right
    BY DEF Within
<1>2. /\ IsFiniteSet(left) /\ IsFiniteSet(right)
      /\ Cardinality(left) \in Nat /\ Cardinality(right) \in Nat
    BY WithinFinite
<1> HIDE DEF left, right
<1>3. /\ IsFiniteSet(left \cup right)
      /\ Cardinality(left \cup right) = Cardinality(left) + Cardinality(right) - Cardinality(left \cap right)
    BY <1>2, FS_Union
<1>4. Cardinality(left \cap right) \in Nat
    BY <1>2, FS_Intersection, FS_CardinalityType
<1>5. Cardinality(Within(p, a, b)) <= Cardinality(left \cup right)
    BY <1>1, <1>3, FS_Subset
<1>6. Cardinality(left \cup right) <= Cardinality(left) + Cardinality(right)
    BY <1>2, <1>3, <1>4
<1>7. Cardinality(Within(p, a, b)) \in Nat /\ Cardinality(left \cup right) \in Nat
    BY <1>3, WithinFinite, FS_CardinalityType
<1> QED
    BY <1>2, <1>5, <1>6, <1>7 DEF left, right

\* One more time counts in the spans it lies in.
LEMMA WithinAppend ==
    ASSUME NEW p \in Seq(Int), NEW t \in Int, NEW a \in Int, NEW b \in Int
    PROVE  Cardinality(Within(Append(p, t), a, b)) =
               Cardinality(Within(p, a, b)) + (IF t \in a .. b THEN 1 ELSE 0)
<1> DEFINE q == Append(p, t)
           old == Within(p, a, b)
<1>1. /\ DOMAIN q = DOMAIN p \cup {Len(p) + 1} /\ Len(p) + 1 \notin DOMAIN p
      /\ q[Len(p) + 1] = t
      /\ \A n \in DOMAIN p : q[n] = p[n]
    OBVIOUS
<1>2. IsFiniteSet(old) /\ Cardinality(old) \in Nat /\ Len(p) + 1 \notin old
    BY <1>1, WithinFinite DEF Within
<1>3. Within(q, a, b) = IF t \in a .. b THEN old \cup {Len(p) + 1} ELSE old
    <2> HIDE DEF q
    <2> QED
        BY <1>1 DEF Within
<1> HIDE DEF q, old
<1>4. Cardinality(old \cup {Len(p) + 1}) = Cardinality(old) + 1
    BY <1>2, FS_AddElement
<1> QED
    BY <1>2, <1>3, <1>4 DEF q, old

\* How many of the times lie within a span.
Passes(p, from, to) == Cardinality(Within(p, from, to))

LEMMA PassesAre ==
    /\ \A p \in Seq(Int), a, b \in Int : Passes(p, a, b) \in Nat
    /\ \A k, a, b : PassedIn(k, a, b) = Passes(passed[k], a, b)
    BY WithinFinite DEF Passes, PassedIn, Within

-----------------------------------------------------------------------------
Opened(k) == hits[k].resetAt - Window

PassesOK ==
    /\ passed \in [Clients -> Seq(Int)]
    /\ \A k \in Clients : \A n \in DOMAIN passed[k] : passed[k][n] <= clock

\* The window that is open counts its own requests, and no more than MaxRequests passed in the
\* Window before it.
OpenFact(opened, count, now, p) ==
    /\ opened <= now /\ now < opened + Window
    /\ count = Passes(p, opened, now) /\ count \in 1 .. MaxRequests
    /\ Passes(p, opened - Window + 1, opened - 1) <= MaxRequests

\* Once it is over, no more than MaxRequests passed in the last Window, and none just now.
OverFact(now, p) ==
    /\ Passes(p, now - Window + 1, now) <= MaxRequests
    /\ \A n \in DOMAIN p : p[n] < now

TwiceAtMost(p) == \A t \in Int : Passes(p, t, t + Window - 1) <= 2 * MaxRequests

\* What the limiter knows of a client tells how many of its requests passed in any Window.
WindowOK(k) ==
    /\ Live(k) => OpenFact(Opened(k), hits[k].count, clock, passed[k])
    /\ ~Live(k) => OverFact(clock, passed[k])
    /\ TwiceAtMost(passed[k])

LimitIInv == MapOK /\ PassesOK /\ (MaxRequests > 0 => \A k \in Clients : WindowOK(k))

LEMMA LimitInit == AdmissionInit => LimitIInv
<1> SUFFICES ASSUME AdmissionInit PROVE LimitIInv
    OBVIOUS
<1>1. DOMAIN hits = {} /\ clock = 0 /\ \A k \in Clients : passed[k] = <<>>
    BY DEF AdmissionInit
<1>2. MapOK
    BY MapInit DEF MapIInv
<1>3. PassesOK
    BY <1>1 DEF PassesOK, AdmissionInit
<1>4. ASSUME MaxRequests > 0, NEW k \in Clients
      PROVE  WindowOK(k)
    <2>1. ~Live(k)
        BY <1>1 DEF Live
    <2>2. \A a, b : Passes(passed[k], a, b) = 0
        <3>1. \A a, b : Within(passed[k], a, b) = {}
            BY <1>1 DEF Within
        <3> QED
            BY <3>1, FS_EmptySet DEF Passes
    <2> QED
        BY <1>1, <1>4, <2>1, <2>2, AdmissionAssumption DEF WindowOK, OverFact, TwiceAtMost
<1> QED
    BY <1>2, <1>3, <1>4 DEF LimitIInv

\* A request of another client leaves the client's window as it is.
LEMMA OtherClient ==
    ASSUME NEW k \in Clients, WindowOK(k), Live(k)' <=> Live(k), Live(k) => hits'[k] = hits[k],
           passed'[k] = passed[k], clock' = clock
    PROVE  WindowOK(k)'
<1>1. Live(k) => Opened(k)' = Opened(k)
    BY DEF Opened
<1> QED
    BY <1>1 DEF WindowOK

\* The first request of a window.
LEMMA WindowOpens ==
    ASSUME NEW p \in Seq(Int), NEW now \in Int, MaxRequests > 0, OverFact(now, p), TwiceAtMost(p)
    PROVE  OpenFact(now, 1, now, Append(p, now)) /\ TwiceAtMost(Append(p, now))
<1> DEFINE q == Append(p, now)
           from == now - Window + 1
           before == now - 1
<1>1. MaxRequests \in Int /\ Window \in Int /\ Window > 0
    BY AdmissionAssumption
<1>2. \A n \in DOMAIN p : p[n] \in Int /\ p[n] < now
    <2>1. \A n \in DOMAIN p : p[n] \in Int
        OBVIOUS
    <2> QED
        BY <2>1 DEF OverFact
<1>3. Passes(p, from, now) <= MaxRequests
    BY DEF OverFact
<1>4. \A a, b \in Int : Passes(q, a, b) = Passes(p, a, b) + (IF now \in a .. b THEN 1 ELSE 0)
    BY WithinAppend DEF Passes
<1>5. from \in Int /\ before \in Int /\ now \notin from .. before /\ now \in now .. now
    BY <1>1
<1>6. \A n \in DOMAIN p : p[n] \in from .. before => p[n] \in from .. now
    BY <1>2
<1>7. ASSUME NEW t \in Int
      PROVE  Passes(q, t, t + Window - 1) <= 2 * MaxRequests
    <2> DEFINE to == t + Window - 1
    <2>1. to \in Int
        BY <1>1
    <2>2. ASSUME now \in t .. to PROVE \A n \in DOMAIN p : p[n] \in t .. to => p[n] \in from .. now
        BY <1>1, <1>2, <2>2
    <2>3. Passes(p, t, to) <= 2 * MaxRequests
        BY DEF TwiceAtMost
    <2> HIDE DEF q, from, to
    <2>4. ASSUME now \in t .. to PROVE Passes(p, t, to) <= Passes(p, from, now)
        BY <1>5, <2>1, <2>2, <2>4, WithinMonotone DEF Passes
    <2>5. Passes(p, t, to) \in Nat /\ Passes(p, from, now) \in Nat
        BY <1>5, <2>1, PassesAre
    <2>6. Passes(q, t, to) <= 2 * MaxRequests
        BY <1>1, <1>3, <1>4, <2>1, <2>3, <2>4, <2>5
    <2> QED
        BY <2>6 DEF to
<1> HIDE DEF q, from, before
<1>8. Passes(q, now, now) = 1
    <2>1. Within(p, now, now) = {}
        BY <1>2 DEF Within
    <2>2. Passes(p, now, now) = 0
        BY <2>1, FS_EmptySet DEF Passes
    <2> QED
        BY <1>4, <1>5, <2>2
<1>9. Passes(q, from, before) <= MaxRequests
    <2>1. Passes(p, from, before) <= Passes(p, from, now)
        BY <1>5, <1>6, WithinMonotone DEF Passes
    <2>2. Passes(p, from, before) \in Nat /\ Passes(p, from, now) \in Nat
        BY <1>5, PassesAre
    <2> QED
        BY <1>1, <1>3, <1>4, <1>5, <2>1, <2>2
<1> QED
    BY <1>1, <1>7, <1>8, <1>9 DEF OpenFact, TwiceAtMost, q, from, before

\* A further request of a window.
LEMMA WindowCounts ==
    ASSUME NEW p \in Seq(Int), NEW now \in Int, NEW opened \in Int, NEW count \in Int, MaxRequests > 0,
           \A n \in DOMAIN p : p[n] <= now,
           OpenFact(opened, count, now, p), count < MaxRequests, TwiceAtMost(p)
    PROVE  OpenFact(opened, count + 1, now, Append(p, now)) /\ TwiceAtMost(Append(p, now))
<1> DEFINE q == Append(p, now)
           from == opened - Window + 1
           before == opened - 1
<1>1. MaxRequests \in Int /\ Window \in Int /\ Window > 0
    BY AdmissionAssumption
<1>2. \A n \in DOMAIN p : p[n] \in Int /\ p[n] <= now
    OBVIOUS
<1>3. /\ opened <= now /\ now < opened + Window /\ count >= 1
      /\ count = Passes(p, opened, now) /\ Passes(p, from, before) <= MaxRequests
    BY DEF OpenFact
<1>4. \A a, b \in Int : Passes(q, a, b) = Passes(p, a, b) + (IF now \in a .. b THEN 1 ELSE 0)
    BY WithinAppend DEF Passes
<1>5. from \in Int /\ before \in Int /\ now \notin from .. before /\ now \in opened .. now
    BY <1>1, <1>3
<1>6. Passes(p, from, before) \in Nat
    BY <1>5, PassesAre
<1>7. ASSUME NEW t \in Int
      PROVE  Passes(q, t, t + Window - 1) <= 2 * MaxRequests
    <2> DEFINE to == t + Window - 1
    <2>1. to \in Int
        BY <1>1
    <2>2. ASSUME now \in t .. to
          PROVE  \A n \in DOMAIN p : p[n] \in t .. to => p[n] \in from .. before \/ p[n] \in opened .. now
        BY <1>1, <1>2, <1>3, <2>2
    <2>3. Passes(p, t, to) <= 2 * MaxRequests
        BY DEF TwiceAtMost
    <2> HIDE DEF q, from, before, to
    <2>4. ASSUME now \in t .. to PROVE Passes(p, t, to) <= Passes(p, from, before) + Passes(p, opened, now)
        BY <1>5, <2>1, <2>2, <2>4, WithinSplit DEF Passes
    <2>5. Passes(p, t, to) \in Nat
        BY <2>1, PassesAre
    <2>6. Passes(q, t, to) <= 2 * MaxRequests
        BY <1>1, <1>3, <1>4, <1>6, <2>1, <2>3, <2>4, <2>5
    <2> QED
        BY <2>6 DEF to
<1> HIDE DEF q, from, before
<1>8. Passes(q, opened, now) = count + 1 /\ Passes(q, from, before) <= MaxRequests
    BY <1>3, <1>4, <1>5, <1>6
<1>9. TwiceAtMost(q)
    BY <1>7 DEF TwiceAtMost, q
<1>10. OpenFact(opened, count + 1, now, q)
    <2>1. count + 1 \in 1 .. MaxRequests
        BY <1>1, <1>3
    <2> QED
        BY <1>3, <1>8, <2>1 DEF OpenFact, from, before
<1> QED
    BY <1>9, <1>10 DEF q

\* Time passes: within a window, and past its end.
LEMMA WindowGoesOn ==
    ASSUME NEW p \in Seq(Int), NEW now \in Int, NEW opened \in Int, NEW count \in Int, MaxRequests > 0,
           \A n \in DOMAIN p : p[n] <= now, OpenFact(opened, count, now, p)
    PROVE  IF now + 1 < opened + Window THEN OpenFact(opened, count, now + 1, p) ELSE OverFact(now + 1, p)
<1> DEFINE next == now + 1
           from == next - Window + 1
<1>1. MaxRequests \in Int /\ Window \in Int /\ Window > 0
    BY AdmissionAssumption
<1>2. \A n \in DOMAIN p : p[n] \in Int /\ p[n] <= now
    OBVIOUS
<1>3. /\ opened <= now /\ count = Passes(p, opened, now) /\ count <= MaxRequests
    BY <1>1 DEF OpenFact
<1>4. Passes(p, opened, next) = Passes(p, opened, now)
    <2>1. Within(p, opened, next) = Within(p, opened, now)
        BY <1>2 DEF Within
    <2> QED
        BY <2>1 DEF Passes
<1>5. ASSUME ~(next < opened + Window) PROVE Passes(p, from, next) <= MaxRequests
    <2>1. next \in Int /\ from \in Int
        BY <1>1
    <2>2. \A n \in DOMAIN p : p[n] \in from .. next => p[n] \in opened .. now
        BY <1>1, <1>2, <1>5
    <2> HIDE DEF next, from
    <2>3. Passes(p, from, next) <= Passes(p, opened, now)
        BY <2>1, <2>2, WithinMonotone DEF Passes
    <2>4. Passes(p, from, next) \in Nat
        BY <2>1, PassesAre
    <2> QED
        BY <1>1, <1>3, <2>3, <2>4
<1>6. \A n \in DOMAIN p : p[n] < next
    BY <1>2
<1> QED
    BY <1>3, <1>4, <1>5, <1>6 DEF OpenFact, OverFact

LEMMA StaysOver ==
    ASSUME NEW p \in Seq(Int), NEW now \in Int, MaxRequests > 0, OverFact(now, p)
    PROVE  OverFact(now + 1, p)
<1> DEFINE next == now + 1
           from == next - Window + 1
           last == now - Window + 1
<1>1. MaxRequests \in Int /\ Window \in Int /\ Window > 0
    BY AdmissionAssumption
<1>2. \A n \in DOMAIN p : p[n] \in Int /\ p[n] < now
    <2>1. \A n \in DOMAIN p : p[n] \in Int
        OBVIOUS
    <2> QED
        BY <2>1 DEF OverFact
<1>3. \A n \in DOMAIN p : p[n] < next
    BY <1>2
<1>4. next \in Int /\ from \in Int /\ last \in Int
    BY <1>1
<1>5. \A n \in DOMAIN p : p[n] \in from .. next => p[n] \in last .. now
    BY <1>1, <1>2
<1>6. Passes(p, last, now) <= MaxRequests
    BY DEF OverFact
<1> HIDE DEF next, from, last
<1>7. Passes(p, from, next) <= Passes(p, last, now)
    BY <1>4, <1>5, WithinMonotone DEF Passes
<1>8. Passes(p, from, next) \in Nat /\ Passes(p, last, now) \in Nat
    BY <1>4, PassesAre
<1>9. Passes(p, from, next) <= MaxRequests
    BY <1>1, <1>6, <1>7, <1>8
<1> QED
    BY <1>3, <1>9 DEF OverFact, next, from

-----------------------------------------------------------------------------
LEMMA TimePasses ==
    ASSUME LimitIInv, MaxRequests > 0, NEW k \in Clients, Tick
    PROVE  WindowOK(k)'
<1>1. passed[k] \in Seq(Int) /\ clock \in Int /\ \A n \in DOMAIN passed[k] : passed[k][n] <= clock
    BY DEF LimitIInv, PassesOK, MapOK
<1>2. clock' = clock + 1 /\ hits' = hits /\ passed' = passed
    BY DEF Tick
<1>3. TwiceAtMost(passed[k])
    BY DEF LimitIInv, WindowOK
<1>4. CASE Live(k)
    <2>1. Opened(k) \in Int /\ hits[k].count \in Int /\ hits[k].resetAt = Opened(k) + Window
        <3>1. hits[k] \in [count : Int, resetAt : Int]
            BY <1>4 DEF LimitIInv, MapOK, Live
        <3> QED
            BY <3>1, AdmissionAssumption DEF Opened
    <2>2. OpenFact(Opened(k), hits[k].count, clock, passed[k])
        BY <1>4 DEF LimitIInv, WindowOK
    <2>3. Opened(k)' = Opened(k) /\ (Live(k)' <=> clock + 1 < Opened(k) + Window)
        BY <1>2, <1>4, <2>1 DEF Opened, Live
    <2>4. IF clock + 1 < Opened(k) + Window THEN OpenFact(Opened(k), hits[k].count, clock + 1, passed[k])
          ELSE OverFact(clock + 1, passed[k])
        BY <1>1, <2>1, <2>2, WindowGoesOn
    <2> QED
        BY <1>2, <1>3, <2>3, <2>4 DEF WindowOK
<1>5. CASE ~Live(k)
    <2>1. ~Live(k)'
        <3>1. k \in DOMAIN hits => hits[k].resetAt \in Int
            BY DEF LimitIInv, MapOK
        <3> QED
            BY <1>1, <1>2, <1>5, <3>1 DEF Live
    <2>2. OverFact(clock + 1, passed[k])
        BY <1>1, <1>5, StaysOver DEF LimitIInv, WindowOK
    <2> QED
        BY <1>2, <1>3, <2>1, <2>2 DEF WindowOK
<1> QED
    BY <1>4, <1>5

LEMMA PassesStep ==
    ASSUME LimitIInv, [AdmissionNext]_admissionVars
    PROVE  PassesOK'
<1>1. passed \in [Clients -> Seq(Int)] /\ clock \in Int
    BY DEF LimitIInv, PassesOK, MapOK
<1>2. CASE Tick
    BY <1>1, <1>2 DEF Tick, LimitIInv, PassesOK
<1>3. ASSUME NEW k \in Clients, passed' = [passed EXCEPT ![k] = Append(@, clock)], clock' = clock
      PROVE  PassesOK'
    <2>1. passed' \in [Clients -> Seq(Int)]
        BY <1>1, <1>3
    <2>2. ASSUME NEW x \in Clients, NEW n \in DOMAIN passed'[x]
          PROVE  passed'[x][n] <= clock'
        <3>1. CASE x = k
            <4>1. passed'[x] = Append(passed[k], clock) /\ passed[k] \in Seq(Int)
                BY <1>1, <1>3, <3>1
            <4>2. passed'[x][n] = clock \/ (n \in DOMAIN passed[k] /\ passed'[x][n] = passed[k][n])
                BY <2>2, <4>1
            <4> QED
                BY <1>1, <1>3, <4>2 DEF LimitIInv, PassesOK
        <3>2. CASE x # k
            BY <1>1, <1>3, <2>2, <3>2 DEF LimitIInv, PassesOK
        <3> QED
            BY <3>1, <3>2
    <2> QED
        BY <2>1, <2>2 DEF PassesOK
<1>4. CASE UNCHANGED <<clock, passed>>
    BY <1>4 DEF LimitIInv, PassesOK
<1>5. ASSUME NEW rq \in Requests, Arrive(rq)
      PROVE  PassesOK'
    <2>1. rq.client \in Clients /\ clock' = clock
        BY <1>5 DEF Requests, Arrive
    <2> QED
        BY <1>3, <1>4, <1>5, <2>1 DEF Arrive, OpenWindow, CountRequest, RefuseOrIgnore
<1> QED
    BY <1>2, <1>4, <1>5 DEF AdmissionNext, admissionVars

LEMMA LimitStep ==
    ASSUME LimitIInv, MaxRequests > 0, NEW k \in Clients, [AdmissionNext]_admissionVars
    PROVE  WindowOK(k)'
<1>1. WindowOK(k) /\ passed \in [Clients -> Seq(Int)]
    BY DEF LimitIInv, PassesOK
<1>6. clock \in Int /\ passed[k] \in Seq(Int) /\ \A n \in DOMAIN passed[k] : passed[k][n] <= clock
    BY DEF LimitIInv, PassesOK, MapOK
<1>2. CASE UNCHANGED <<clock, hits, passed>>
    <2>1. Live(k)' <=> Live(k)
        BY <1>2 DEF Live
    <2> QED
        BY <1>1, <1>2, <2>1, OtherClient
<1>3. ASSUME NEW c \in Clients, OpenWindow(c), clock' = clock
      PROVE  WindowOK(k)'
    <2> DEFINE entry == [count |-> 1, resetAt |-> clock + Window]
    <2>1. /\ DOMAIN Pruned \subseteq DOMAIN hits
          /\ \A x \in DOMAIN Pruned : Pruned[x] = hits[x]
          /\ \A x \in DOMAIN hits : Live(x) => x \in DOMAIN Pruned
        BY DEF Pruned
    <2>2. /\ DOMAIN hits' = DOMAIN Pruned \cup {c}
          /\ hits'[c] = entry
          /\ \A x \in DOMAIN Pruned : x # c => hits'[x] = hits[x]
        BY <1>3, <2>1 DEF OpenWindow, Put
    <2>3. passed'[c] = Append(passed[c], clock) /\ \A x \in Clients : x # c => passed'[x] = passed[x]
        BY <1>1, <1>3 DEF OpenWindow
    <2>4. CASE k = c
        <3>1. Live(k)' /\ Opened(k)' = clock /\ hits'[k].count = 1
            BY <1>3, <2>2, <2>4, <1>6, AdmissionAssumption DEF Live, Opened
        <3>2. OpenFact(clock, 1, clock, passed'[k]) /\ TwiceAtMost(passed'[k])
            BY <1>1, <1>3, <1>6, <2>3, <2>4, WindowOpens DEF OpenWindow, WindowOK
        <3> QED
            BY <1>3, <3>1, <3>2 DEF WindowOK
    <2>5. CASE k # c
        <3>1. /\ Live(k)' <=> Live(k)
              /\ Live(k) => hits'[k] = hits[k]
            <4> HIDE DEF entry
            <4> QED
                BY <1>3, <2>1, <2>2, <2>5 DEF Live
        <3> QED
            BY <1>1, <1>3, <2>3, <2>5, <3>1, OtherClient
    <2> QED
        BY <2>4, <2>5
<1>4. ASSUME NEW c \in Clients, CountRequest(c), clock' = clock
      PROVE  WindowOK(k)'
    <2>1. c \in DOMAIN hits /\ hits[c] \in [count : Int, resetAt : Int] /\ hits[c].count < MaxRequests /\ Live(c)
        BY <1>4 DEF CountRequest, Live, LimitIInv, MapOK
    <2>2. /\ DOMAIN hits' = DOMAIN hits
          /\ hits'[c] = [hits[c] EXCEPT !.count = @ + 1]
          /\ \A x \in DOMAIN hits : x # c => hits'[x] = hits[x]
        BY <1>4, <2>1 DEF CountRequest, Count
    <2>3. passed'[c] = Append(passed[c], clock) /\ \A x \in Clients : x # c => passed'[x] = passed[x]
        BY <1>1, <1>4 DEF CountRequest
    <2>4. CASE k = c
        <3>1. hits'[c].count = hits[c].count + 1 /\ hits'[c].resetAt = hits[c].resetAt
            BY <2>1, <2>2
        <3>2. Live(k)' /\ Opened(k)' = Opened(k)
            BY <1>4, <2>1, <2>2, <2>4, <3>1 DEF Live, Opened
        <3>3. Opened(k) \in Int /\ hits[k].count \in Int
            BY <2>1, <2>4, AdmissionAssumption DEF Opened
        <3>4. OpenFact(Opened(k), hits[k].count + 1, clock, passed'[k]) /\ TwiceAtMost(passed'[k])
            BY <1>1, <1>6, <2>1, <2>3, <2>4, <3>3, WindowCounts DEF WindowOK
        <3> QED
            BY <1>4, <2>4, <3>1, <3>2, <3>4 DEF WindowOK
    <2>5. CASE k # c
        <3>1. /\ Live(k)' <=> Live(k)
              /\ Live(k) => hits'[k] = hits[k]
            BY <1>4, <2>2, <2>5 DEF Live
        <3> QED
            BY <1>1, <1>4, <2>3, <2>5, <3>1, OtherClient
    <2> QED
        BY <2>4, <2>5
<1>5. ASSUME NEW rq \in Requests, Arrive(rq)
      PROVE  WindowOK(k)'
    <2>1. rq.client \in Clients /\ clock' = clock
        BY <1>5 DEF Requests, Arrive
    <2> QED
        BY <1>2, <1>3, <1>4, <1>5, <2>1 DEF Arrive, RefuseOrIgnore
<1> QED
    BY <1>2, <1>5, TimePasses DEF AdmissionNext, admissionVars

\* MapOK is kept by MapIInv's proof; with the passes' times and the windows it is inductive.
LEMMA LimitInvariance == AdmissionSpec => [](MapIInv /\ LimitIInv)
<1>1. MapIInv /\ LimitIInv /\ [AdmissionNext]_admissionVars => (MapIInv /\ LimitIInv)'
    <2>1. MapIInv /\ [AdmissionNext]_admissionVars => MapIInv'
        BY MapStep
    <2>2. LimitIInv /\ [AdmissionNext]_admissionVars => PassesOK'
        BY PassesStep
    <2>3. LimitIInv /\ [AdmissionNext]_admissionVars => (MaxRequests > 0 => \A k \in Clients : WindowOK(k)')
        BY LimitStep
    <2> QED
        BY <2>1, <2>2, <2>3 DEF MapIInv, LimitIInv
<1> QED
    BY <1>1, MapInit, LimitInit, PTL DEF AdmissionSpec

\* check(): an open window counts exactly the requests it let through, no more than MaxRequests
\* of them, and no stretch of one Window's length, wherever it begins, sees more than twice as
\* many pass; and the map of windows does not outgrow the clients of one window.
THEOREM LimitIsKept == AdmissionSpec => []LimitKept
<1>1. MapIInv /\ LimitIInv => LimitKept
    <2> SUFFICES ASSUME MapIInv, LimitIInv PROVE WindowsKept
        BY DEF MapIInv, LimitKept
    <2>1. \A k \in DOMAIN hits : k \in Clients
        BY DEF LimitIInv, MapOK
    <2>2. \A t \in Times : t \in Int
        BY DEF Times
    <2>3. ASSUME MaxRequests > 0, NEW k \in DOMAIN hits, Live(k)
          PROVE  hits[k].count = PassedIn(k, hits[k].resetAt - Window, clock) /\ hits[k].count \in 1 .. MaxRequests
        BY <2>1, <2>3, PassesAre DEF LimitIInv, WindowOK, OpenFact, Opened
    <2>4. ASSUME MaxRequests > 0, NEW k \in Clients, NEW t \in Times
          PROVE  PassedIn(k, t, t + Window - 1) <= 2 * MaxRequests
        BY <2>2, <2>4, PassesAre DEF LimitIInv, WindowOK, TwiceAtMost
    <2> QED
        BY <2>3, <2>4 DEF WindowsKept
<1> QED
    BY <1>1, LimitInvariance, PTL

-----------------------------------------------------------------------------
(* The client's stream.  First, what the reducer makes of a list of actions.  *)

LEMMA LeastNumber ==
    ASSUME NEW S \in SUBSET Nat, S # {}
    PROVE  \E m \in S : \A n \in S : m <= n
<1>1. \E m \in S : \A n \in S : ~(<<n, m>> \in OpToRel(<, Nat))
    BY NatLessThanWellFounded, WFMin
<1>2. \A n, m \in S : ~(<<n, m>> \in OpToRel(<, Nat)) => m <= n
    BY DEF OpToRel
<1> QED
    BY <1>1, <1>2

Then(s, a, deferred) == IF a.event \in deferred THEN s ELSE Reduce(s, a)
IsFold(f, s, q, deferred, n) ==
    f = [i \in 0 .. n |-> IF i = 0 THEN s ELSE Then(f[i - 1], q[i], deferred)]

LEMMA FoldExists ==
    ASSUME NEW s, NEW q, NEW deferred, NEW n \in Nat
    PROVE  \E f : IsFold(f, s, q, deferred, n)
<1> DEFINE Has(m) == \E f : IsFold(f, s, q, deferred, m)
           Lacking == {m \in Nat : ~Has(m)}
<1>1. SUFFICES ASSUME Lacking # {} PROVE FALSE
    OBVIOUS
<1>2. PICK m \in Lacking : \A k \in Lacking : m <= k
    BY <1>1, LeastNumber
<1>3. Has(0)
    <2>1. IsFold([i \in 0 .. 0 |-> s], s, q, deferred, 0)
        BY DEF IsFold
    <2> QED
        BY <2>1
<1>4. m # 0 /\ m - 1 \in Nat /\ Has(m - 1)
    BY <1>2, <1>3
<1>5. PICK f : IsFold(f, s, q, deferred, m - 1)
    BY <1>4
<1> DEFINE g == [i \in 0 .. m |-> IF i = m THEN Then(f[m - 1], q[m], deferred) ELSE f[i]]
<1>6. ASSUME NEW i \in 0 .. m
      PROVE  g[i] = IF i = 0 THEN s ELSE Then(g[i - 1], q[i], deferred)
    <2>1. CASE i = m
        <3>1. g[i] = Then(f[m - 1], q[m], deferred) /\ g[m - 1] = f[m - 1]
            BY <1>4, <2>1
        <3> QED
            BY <3>1, <2>1, <1>4
    <2>2. CASE i # m
        <3>1. i \in 0 .. m - 1 /\ g[i] = f[i]
            BY <2>2, <1>4
        <3>2. f[i] = IF i = 0 THEN s ELSE Then(f[i - 1], q[i], deferred)
            BY <1>5, <3>1 DEF IsFold
        <3>3. i # 0 => g[i - 1] = f[i - 1]
            BY <3>1
        <3> QED
            BY <3>1, <3>2, <3>3
    <2> QED
        BY <2>1, <2>2
<1>7. g = [i \in 0 .. m |-> g[i]]
    OBVIOUS
<1>8. IsFold(g, s, q, deferred, m)
    <2> HIDE DEF g
    <2>1. [i \in 0 .. m |-> g[i]] = [i \in 0 .. m |-> IF i = 0 THEN s ELSE Then(g[i - 1], q[i], deferred)]
        BY <1>6
    <2> QED
        BY <1>7, <2>1 DEF IsFold
<1> QED
    BY <1>2, <1>8

LEMMA AppliedIsFold ==
    ASSUME NEW s, NEW q, Len(q) \in Nat, NEW deferred
    PROVE  \E f : IsFold(f, s, q, deferred, Len(q)) /\ Applied(s, q, deferred) = f[Len(q)]
<1> DEFINE after == CHOOSE f : IsFold(f, s, q, deferred, Len(q))
<1>1. IsFold(after, s, q, deferred, Len(q))
    BY FoldExists
<1>2. Applied(s, q, deferred) = after[Len(q)]
    BY DEF Applied, IsFold, Then
<1> QED
    BY <1>1, <1>2

SameUpTo(p, q, n) == \A i \in 1 .. n : p[i] = q[i]

LEMMA FoldsAgree ==
    ASSUME NEW s, NEW deferred, NEW p, NEW q, NEW n \in Nat, NEW m \in Nat, NEW f, NEW g,
           IsFold(f, s, p, deferred, n), IsFold(g, s, q, deferred, m),
           NEW l \in Nat, 0 .. l \subseteq 0 .. n, 0 .. l \subseteq 0 .. m, SameUpTo(p, q, l)
    PROVE  f[l] = g[l]
<1> DEFINE Differ == {i \in 0 .. l : f[i] # g[i]}
<1>1. SUFFICES ASSUME Differ # {} PROVE FALSE
    BY l \in 0 .. l
<1>2. PICK i \in Differ : \A k \in Differ : i <= k
    <2>1. Differ \in SUBSET Nat
        OBVIOUS
    <2> HIDE DEF Differ
    <2> QED
        BY <1>1, <2>1, LeastNumber
<1>3. i \in 0 .. l /\ f[i] # g[i]
    BY <1>2
<1>4. /\ f[i] = IF i = 0 THEN s ELSE Then(f[i - 1], p[i], deferred)
      /\ g[i] = IF i = 0 THEN s ELSE Then(g[i - 1], q[i], deferred)
    <2>1. i \in 0 .. n /\ i \in 0 .. m
        BY <1>3
    <2> QED
        BY <2>1 DEF IsFold
<1>5. i # 0
    BY <1>3, <1>4
<1>6. i - 1 \in 0 .. l /\ i \in 1 .. l /\ i - 1 \notin Differ
    BY <1>2, <1>3, <1>5
<1>7. f[i - 1] = g[i - 1] /\ p[i] = q[i]
    BY <1>6 DEF SameUpTo
<1> QED
    BY <1>3, <1>4, <1>5, <1>7

LEMMA AppliedNone ==
    ASSUME NEW s, NEW deferred
    PROVE  Applied(s, <<>>, deferred) = s
<1> DEFINE q == <<>>
<1>1. Len(q) = 0
    OBVIOUS
<1> HIDE DEF q
<1>2. PICK f : IsFold(f, s, q, deferred, 0) /\ Applied(s, q, deferred) = f[0]
    <2>1. 0 \in Nat
        OBVIOUS
    <2> QED
        BY <1>1, <2>1, AppliedIsFold, Zenon
<1> QED
    BY <1>2 DEF IsFold, q

LEMMA AppliedConcat ==
    ASSUME NEW A, NEW s, NEW p \in Seq(A), NEW q \in Seq(A), NEW deferred
    PROVE  Applied(s, p \o q, deferred) = Applied(Applied(s, p, deferred), q, deferred)
<1> DEFINE n == Len(p)
           m == Len(q)
           r == p \o q
           both == n + m
           mid == Applied(s, p, deferred)
<1>1. n \in Nat /\ m \in Nat /\ both \in Nat /\ Len(r) = both /\ both = n + m /\ n <= both
    OBVIOUS
<1>2. /\ \A i \in 1 .. n : p[i] = r[i]
      /\ \A i \in 1 .. m : r[n + i] = q[i]
    OBVIOUS
<1>3. Len(p) = n /\ Len(q) = m /\ mid = Applied(s, p, deferred)
    OBVIOUS
<1>4. Applied(s, r, deferred) = Applied(mid, q, deferred)
    <2> HIDE DEF n, m, r, both, mid
    <2>1. PICK f : IsFold(f, s, p, deferred, n) /\ mid = f[n]
        BY <1>1, <1>3, AppliedIsFold
    <2>2. PICK g : IsFold(g, mid, q, deferred, m) /\ Applied(mid, q, deferred) = g[m]
        BY <1>1, <1>3, AppliedIsFold
    <2>3. PICK h : IsFold(h, s, r, deferred, both) /\ Applied(s, r, deferred) = h[both]
        BY <1>1, AppliedIsFold
    <2>4. h[n] = mid
        <3>1. 0 .. n \subseteq 0 .. n /\ 0 .. n \subseteq 0 .. both /\ n \in Nat /\ both \in Nat
            BY <1>1
        <3>2. SameUpTo(p, r, n)
            BY <1>2 DEF SameUpTo
        <3>3. f[n] = h[n]
            BY <2>1, <2>3, <3>1, <3>2, FoldsAgree
        <3> QED
            BY <2>1, <3>3
    <2> DEFINE rest == [i \in 0 .. m |-> h[n + i]]
    <2>5. ASSUME NEW i \in 0 .. m
          PROVE  rest[i] = IF i = 0 THEN mid ELSE Then(rest[i - 1], q[i], deferred)
        <3>1. CASE i = 0
            BY <3>1, <1>1, <2>4
        <3>2. CASE i # 0
            <4>1. i - 1 \in 0 .. m /\ i \in 1 .. m
                BY <1>1, <3>2
            <4>2. PICK k \in 0 .. both : k = n + i
                BY <1>1
            <4>3. k # 0 /\ k - 1 = n + (i - 1)
                BY <1>1, <4>1, <4>2
            <4>4. h[k] = Then(h[k - 1], r[k], deferred)
                BY <2>3, <4>3 DEF IsFold
            <4>5. r[k] = q[i] /\ rest[i] = h[k] /\ rest[i - 1] = h[k - 1]
                BY <1>2, <4>1, <4>2, <4>3
            <4> QED
                BY <3>2, <4>4, <4>5
        <3> QED
            BY <3>1, <3>2
    <2>6. IsFold(rest, mid, q, deferred, m)
        <3>1. rest = [i \in 0 .. m |-> rest[i]]
            OBVIOUS
        <3> HIDE DEF rest
        <3>2. [i \in 0 .. m |-> rest[i]] = [i \in 0 .. m |-> IF i = 0 THEN mid ELSE Then(rest[i - 1], q[i], deferred)]
            BY <2>5
        <3> QED
            BY <3>1, <3>2 DEF IsFold
    <2>7. rest[m] = g[m]
        <3> HIDE DEF rest
        <3>1. m \in Nat /\ 0 .. m \subseteq 0 .. m /\ SameUpTo(q, q, m)
            BY <1>1 DEF SameUpTo
        <3> QED
            BY <2>2, <2>6, <3>1, FoldsAgree
    <2>8. rest[m] = h[both]
        BY <1>1
    <2> QED
        BY <2>2, <2>3, <2>7, <2>8
<1> QED
    BY <1>4

LEMMA AppliedOne ==
    ASSUME NEW s, NEW a, NEW deferred
    PROVE  Applied(s, <<a>>, deferred) = Then(s, a, deferred)
<1> DEFINE q == <<a>>
<1>1. Len(q) = 1 /\ q[1] = a
    OBVIOUS
<1> HIDE DEF q
<1>2. PICK f : IsFold(f, s, q, deferred, Len(q)) /\ Applied(s, q, deferred) = f[Len(q)]
    <2>1. Len(q) \in Nat
        BY <1>1
    <2> QED
        BY <2>1, AppliedIsFold
<1>3. f[1] = Then(f[0], q[1], deferred) /\ f[0] = s
    BY <1>1, <1>2 DEF IsFold
<1> QED
    BY <1>1, <1>2, <1>3 DEF q

LEMMA AppliedStays ==
    ASSUME NEW S, NEW A, NEW s \in S, NEW q \in Seq(A), NEW deferred,
           \A x \in S, a \in A : Reduce(x, a) \in S
    PROVE  Applied(s, q, deferred) \in S
<1>1. PICK f : IsFold(f, s, q, deferred, Len(q)) /\ Applied(s, q, deferred) = f[Len(q)]
    <2>1. Len(q) \in Nat
        OBVIOUS
    <2> QED
        BY <2>1, AppliedIsFold
<1> DEFINE Out == {i \in 0 .. Len(q) : f[i] \notin S}
<1>2. SUFFICES ASSUME Out # {} PROVE FALSE
    BY <1>1
<1>3. PICK i \in Out : \A k \in Out : i <= k
    <2>1. Out \in SUBSET Nat
        OBVIOUS
    <2> HIDE DEF Out
    <2> QED
        BY <1>2, <2>1, LeastNumber
<1>4. i \in 0 .. Len(q) /\ f[i] = IF i = 0 THEN s ELSE Then(f[i - 1], q[i], deferred)
    BY <1>1, <1>3 DEF IsFold
<1>5. i # 0 /\ i - 1 \in 0 .. Len(q) /\ i \in 1 .. Len(q)
    BY <1>3, <1>4
<1>6. f[i - 1] \in S
    BY <1>3, <1>5
<1>7. q[i] \in A
    BY <1>5
<1> QED
    BY <1>3, <1>4, <1>5, <1>6, <1>7 DEF Then

-----------------------------------------------------------------------------
(* What one action does to the state.                                        *)

Statuses == {"idle", "streaming", "done", "error"}
States == [id : Nat, status : Statuses, success : BOOLEAN, parts : SUBSET (Parts \X Nat)]
FrameEvents == Parts \cup {"metrics", "error", "done"}
RunEvents == FrameEvents \cup {"transportError"}
Actions == [event : RunEvents \cup {"cancelled", "reset", "start"}, id : Nat]

LEMMA StateFields ==
    ASSUME NEW s \in States
    PROVE  /\ s.id \in Nat /\ s.status \in Statuses /\ s.success \in BOOLEAN /\ s.parts \in SUBSET (Parts \X Nat)
           /\ \A i \in Nat :
                 /\ [s EXCEPT !.id = i] \in States /\ [s EXCEPT !.id = i].id = i
                 /\ [s EXCEPT !.id = i].status = s.status
                 /\ [s EXCEPT !.id = i].success = s.success /\ [s EXCEPT !.id = i].parts = s.parts
           /\ \A v \in Statuses :
                 /\ [s EXCEPT !.status = v] \in States /\ [s EXCEPT !.status = v].status = v
                 /\ [s EXCEPT !.status = v].id = s.id
                 /\ [s EXCEPT !.status = v].success = s.success /\ [s EXCEPT !.status = v].parts = s.parts
           /\ \A b \in BOOLEAN :
                 /\ [s EXCEPT !.success = b] \in States /\ [s EXCEPT !.success = b].success = b
                 /\ [s EXCEPT !.success = b].id = s.id
                 /\ [s EXCEPT !.success = b].status = s.status /\ [s EXCEPT !.success = b].parts = s.parts
           /\ \A q \in SUBSET (Parts \X Nat) :
                 /\ [s EXCEPT !.parts = q] \in States /\ [s EXCEPT !.parts = q].parts = q
                 /\ [s EXCEPT !.parts = q].id = s.id
                 /\ [s EXCEPT !.parts = q].status = s.status /\ [s EXCEPT !.parts = q].success = s.success
BY DEF States

\* The fields of the state that a frame, a failure or a click leaves.
LEMMA FilledFields ==
    ASSUME NEW s \in States, NEW a \in Actions, a.event \notin {"reset", "start"}, a.id = s.id
    PROVE  /\ Filled(s, a) \in States
           /\ Filled(s, a).id = s.id
           /\ Filled(s, a).parts \subseteq s.parts \cup {<<a.event, a.id>>}
           /\ a.event \in Parts \cup {"metrics"} => Filled(s, a).status = s.status
           /\ a.event \in {"error", "transportError"} =>
                  Filled(s, a).status = "error" /\ Filled(s, a).success = FALSE
           /\ a.event = "done" =>
                  /\ Filled(s, a).status = IF s.status = "error" THEN "error" ELSE "done"
                  /\ Filled(s, a).success <=> s.status # "error"
           /\ a.event = "cancelled" => Filled(s, a).status \in {"done", "idle"}
<1>1. a.event \in RunEvents \cup {"cancelled"} /\ a.id \in Nat
    BY DEF Actions
<1>2. CASE a.event \in Parts
    <2> DEFINE q == s.parts \cup {<<a.event, a.id>>}
    <2>1. Filled(s, a) = [s EXCEPT !.parts = q]
        BY <1>2 DEF Filled, Parts
    <2>2. q \in SUBSET (Parts \X Nat)
        BY <1>1, <1>2, StateFields DEF States
    <2>3. a.event \notin {"error", "transportError", "done", "cancelled"}
        BY <1>2 DEF Parts
    <2> HIDE DEF q
    <2>4. /\ Filled(s, a) \in States /\ Filled(s, a).id = s.id
          /\ Filled(s, a).parts = q /\ Filled(s, a).status = s.status
        BY <2>1, <2>2, StateFields
    <2> QED
        BY <2>3, <2>4 DEF q
<1>3. CASE a.event = "metrics"
    <2> DEFINE yes == TRUE
    <2>1. yes \in BOOLEAN
        OBVIOUS
    <2>2. Filled(s, a) = [s EXCEPT !.success = yes]
        BY <1>3 DEF Filled, Parts
    <2> HIDE DEF yes
    <2>3. /\ Filled(s, a) \in States /\ Filled(s, a).id = s.id
          /\ Filled(s, a).parts = s.parts /\ Filled(s, a).status = s.status
        BY <2>1, <2>2, StateFields
    <2> QED
        BY <1>3, <2>3
<1>4. CASE a.event \in {"error", "transportError"}
    <2> DEFINE no == FALSE
               bad == "error"
               t == [s EXCEPT !.status = bad]
    <2>1. no \in BOOLEAN /\ bad \in Statuses
        BY DEF Statuses
    <2>2. Filled(s, a) = [s EXCEPT !.status = bad, !.success = no]
        BY <1>4 DEF Filled, Parts
    <2> HIDE DEF no, bad
    <2>3. t \in States /\ t.id = s.id /\ t.status = bad /\ t.parts = s.parts
        BY <2>1, StateFields
    <2>4. Filled(s, a) = [t EXCEPT !.success = no]
        BY <2>2 DEF States
    <2> HIDE DEF t
    <2>5. /\ Filled(s, a) \in States /\ Filled(s, a).id = s.id /\ Filled(s, a).status = bad
          /\ Filled(s, a).success = no /\ Filled(s, a).parts = s.parts
        BY <2>1, <2>3, <2>4, StateFields
    <2> QED
        BY <1>4, <2>5 DEF no, bad, Parts
<1>5. CASE a.event = "done"
    <2> DEFINE well == s.status # "error"
               how == IF s.status = "error" THEN s.status ELSE "done"
               t == [s EXCEPT !.status = how]
    <2>1. well \in BOOLEAN /\ how \in Statuses
        BY DEF Statuses
    <2>2. Filled(s, a) = [s EXCEPT !.status = how, !.success = well]
        BY <1>5 DEF Filled, Parts, States
    <2> HIDE DEF well, how
    <2>3. t \in States /\ t.id = s.id /\ t.status = how /\ t.parts = s.parts
        BY <2>1, StateFields
    <2>4. Filled(s, a) = [t EXCEPT !.success = well]
        BY <2>2 DEF States
    <2> HIDE DEF t
    <2>5. /\ Filled(s, a) \in States /\ Filled(s, a).id = s.id /\ Filled(s, a).status = how
          /\ Filled(s, a).success = well /\ Filled(s, a).parts = s.parts
        BY <2>1, <2>3, <2>4, StateFields
    <2> QED
        BY <1>5, <2>5 DEF well, how, Parts
<1>6. CASE a.event = "cancelled"
    <2> DEFINE how == IF \E p \in s.parts : p[1] = "columns" THEN "done" ELSE "idle"
    <2>1. how \in Statuses /\ how \in {"done", "idle"}
        BY DEF Statuses
    <2>2. Filled(s, a) = [s EXCEPT !.status = how]
        BY <1>6 DEF Filled, Parts
    <2> HIDE DEF how
    <2>3. /\ Filled(s, a) \in States /\ Filled(s, a).id = s.id
          /\ Filled(s, a).parts = s.parts /\ Filled(s, a).status = how
        BY <2>1, <2>2, StateFields
    <2> QED
        BY <1>6, <2>1, <2>3 DEF Parts
<1> QED
    BY <1>1, <1>2, <1>3, <1>4, <1>5, <1>6 DEF RunEvents, FrameEvents

LEMMA FreshState ==
    ASSUME NEW i \in Nat
    PROVE  /\ [Idle0 EXCEPT !.id = i] \in States
           /\ [Idle0 EXCEPT !.id = i].id = i /\ [Idle0 EXCEPT !.id = i].status = "idle"
           /\ [Idle0 EXCEPT !.id = i].parts = {}
           /\ [Idle0 EXCEPT !.id = i, !.status = "streaming"] \in States
           /\ [Idle0 EXCEPT !.id = i, !.status = "streaming"].id = i
           /\ [Idle0 EXCEPT !.id = i, !.status = "streaming"].status = "streaming"
           /\ [Idle0 EXCEPT !.id = i, !.status = "streaming"].parts = {}
<1> DEFINE idle == "idle"
           on == "streaming"
           no == FALSE
           zero == 0
           none == {}
           s == [id |-> zero, status |-> idle, success |-> no, parts |-> none]
           t == [s EXCEPT !.id = i]
<1>1. idle \in Statuses /\ on \in Statuses /\ no \in BOOLEAN /\ zero \in Nat /\ none \in SUBSET (Parts \X Nat)
    BY DEF Statuses
<1>2. /\ [Idle0 EXCEPT !.id = i] = [s EXCEPT !.id = i]
      /\ [Idle0 EXCEPT !.id = i, !.status = "streaming"] = [s EXCEPT !.id = i, !.status = on]
    BY DEF Idle0
<1> HIDE DEF idle, on, no, zero, none
<1>3. s \in States /\ s.status = idle /\ s.parts = none
    BY <1>1 DEF States
<1>4. [s EXCEPT !.id = i, !.status = on] = [t EXCEPT !.status = on]
    BY <1>3 DEF States
<1> HIDE DEF s
<1>5. t \in States /\ t.id = i /\ t.status = idle /\ t.parts = none
    BY <1>3, StateFields
<1> HIDE DEF t
<1>6. /\ [t EXCEPT !.status = on] \in States /\ [t EXCEPT !.status = on].id = i
      /\ [t EXCEPT !.status = on].status = on /\ [t EXCEPT !.status = on].parts = none
    BY <1>1, <1>5, StateFields
<1> QED
    BY <1>2, <1>4, <1>5, <1>6 DEF t, idle, on, none

\* What one action does to the state that is shown.
LEMMA ReduceFields ==
    ASSUME NEW s \in States, NEW a \in Actions
    PROVE  /\ Reduce(s, a) \in States
           /\ \/ /\ a.event \in {"reset", "start"}
                 /\ Reduce(s, a).id = a.id /\ Reduce(s, a).parts = {}
                 /\ Reduce(s, a).status = IF a.event = "start" THEN "streaming" ELSE "idle"
              \/ a.event \notin {"reset", "start"} /\ a.id # s.id /\ Reduce(s, a) = s
              \/ a.event \notin {"reset", "start"} /\ a.id = s.id /\ Reduce(s, a) = Filled(s, a)
<1>1. a.id \in Nat
    BY DEF Actions
<1>2. CASE a.event = "reset"
    <2>1. Reduce(s, a) = [Idle0 EXCEPT !.id = a.id]
        BY <1>2 DEF Reduce
    <2> DEFINE t == [Idle0 EXCEPT !.id = a.id]
    <2>2. t \in States /\ t.id = a.id /\ t.status = "idle" /\ t.parts = {}
        BY <1>1, FreshState
    <2> HIDE DEF t
    <2> QED
        BY <1>2, <2>1, <2>2 DEF t
<1>3. CASE a.event = "start"
    <2>1. Reduce(s, a) = [Idle0 EXCEPT !.id = a.id, !.status = "streaming"]
        BY <1>3 DEF Reduce
    <2> DEFINE t == [Idle0 EXCEPT !.id = a.id, !.status = "streaming"]
    <2>2. t \in States /\ t.id = a.id /\ t.status = "streaming" /\ t.parts = {}
        BY <1>1, FreshState
    <2> HIDE DEF t
    <2> QED
        BY <1>3, <2>1, <2>2 DEF t
<1>4. CASE a.event \notin {"reset", "start"}
    <2>1. Reduce(s, a) = IF a.id = s.id THEN Filled(s, a) ELSE s
        BY <1>4 DEF Reduce
    <2> QED
        BY <1>4, <2>1, FilledFields
<1> QED
    BY <1>2, <1>3, <1>4

\* The sections of a state are those of the run that it shows.
OwnStates == {s \in States : \A p \in s.parts : p[2] = s.id}

LEMMA ReduceKeepsOwn ==
    ASSUME NEW s \in OwnStates, NEW a \in Actions
    PROVE  Reduce(s, a) \in OwnStates
<1>1. s \in States /\ \A p \in s.parts : p[2] = s.id
    BY DEF OwnStates
<1>2. Reduce(s, a) \in States
    BY <1>1, ReduceFields
<1>3. ASSUME NEW p \in Reduce(s, a).parts
      PROVE  p[2] = Reduce(s, a).id
    <2>1. CASE a.event \in {"reset", "start"}
        <3>1. Reduce(s, a).parts = {}
            BY <1>1, <2>1, ReduceFields
        <3> QED
            BY <3>1, <1>3
    <2>2. CASE a.event \notin {"reset", "start"} /\ a.id # s.id
        <3>1. Reduce(s, a) = s
            BY <1>1, <2>2, ReduceFields
        <3> QED
            BY <1>1, <1>3, <3>1
    <2>3. CASE a.event \notin {"reset", "start"} /\ a.id = s.id
        <3>1. Reduce(s, a) = Filled(s, a)
            BY <1>1, <2>3, ReduceFields
        <3>2. Filled(s, a).id = s.id /\ Filled(s, a).parts \subseteq s.parts \cup {<<a.event, a.id>>}
            BY <1>1, <2>3, FilledFields
        <3> QED
            BY <1>1, <1>3, <2>3, <3>1, <3>2
    <2> QED
        BY <2>1, <2>2, <2>3
<1> QED
    BY <1>2, <1>3 DEF OwnStates

-----------------------------------------------------------------------------
(* What the frames of an answer tell the page.  An answer that failed ends     *)
(* with an error and its done, any other with its done.                       *)

Ending(k) == IF k \in {"failure", "setupFailure"} THEN 2 ELSE 1

WellEnded(k, frames) == \A i \in 1 .. Len(frames) :
    /\ frames[i] = "done" <=> i = Len(frames)
    /\ frames[i] = "error" <=> Ending(k) = 2 /\ i = Len(frames) - 1

\* The state when all but the last "left" frames have been applied.
Told(s, k, left) ==
    IF left < Ending(k)
    THEN /\ s.status = IF Ending(k) = 2 THEN "error" ELSE "done"
         /\ s.success <=> Ending(k) = 1
    ELSE s.status = "streaming"

Emitted(r, events) == [i \in 1 .. Len(events) |-> [event |-> events[i], id |-> r]]

LEMMA EmittedActions ==
    ASSUME NEW r \in Nat, NEW events \in Seq(RunEvents)
    PROVE  /\ Emitted(r, events) \in Seq(Actions) /\ Len(Emitted(r, events)) = Len(events)
           /\ \A i \in 1 .. Len(events) :
                 /\ Emitted(r, events)[i] \in Actions
                 /\ Emitted(r, events)[i].event = events[i]
                 /\ Emitted(r, events)[i].id = r
<1>1. Len(events) \in Nat /\ \A i \in 1 .. Len(events) : events[i] \in RunEvents
    OBVIOUS
<1>2. \A e \in RunEvents : [event |-> e, id |-> r] \in Actions
    BY DEF Actions
<1>3. \A i \in 1 .. Len(events) : Emitted(r, events)[i] = [event |-> events[i], id |-> r]
    BY DEF Emitted
<1>4. \A i \in 1 .. Len(events) : Emitted(r, events)[i] \in Actions
    BY <1>1, <1>2, <1>3
<1>5. Emitted(r, events) \in [1 .. Len(events) -> Actions]
    <2>1. \A i \in 1 .. Len(events) : [event |-> events[i], id |-> r] \in Actions
        BY <1>1, <1>2
    <2> QED
        BY <2>1 DEF Emitted
<1>6. Emitted(r, events) \in Seq(Actions) /\ Len(Emitted(r, events)) = Len(events)
    BY <1>1, <1>5
<1>7. ASSUME NEW i \in 1 .. Len(events)
      PROVE  Emitted(r, events)[i].event = events[i] /\ Emitted(r, events)[i].id = r
    <2> DEFINE e == events[i]
    <2>1. Emitted(r, events)[i] = [event |-> e, id |-> r]
        BY <1>3
    <2> HIDE DEF e
    <2>2. Emitted(r, events)[i].event = e /\ Emitted(r, events)[i].id = r
        BY <2>1
    <2> QED
        BY <2>2 DEF e
<1> QED
    BY <1>4, <1>6, <1>7

\* One frame more.
LEMMA FrameTells ==
    ASSUME NEW s \in States, NEW k, NEW frames \in Seq(FrameEvents), WellEnded(k, frames),
           NEW i \in 1 .. Len(frames), NEW a \in Actions, a.event = frames[i], a.id = s.id,
           Told(s, k, Len(frames) - i + 1)
    PROVE  Filled(s, a).id = s.id /\ Filled(s, a) \in States /\ Told(Filled(s, a), k, Len(frames) - i)
<1> DEFINE n == Len(frames)
           t == Filled(s, a)
<1>1. n \in Nat /\ i \in 1 .. n /\ frames[i] \in FrameEvents
    OBVIOUS
<1>2. /\ frames[i] = "done" <=> i = n
      /\ frames[i] = "error" <=> Ending(k) = 2 /\ i = n - 1
    BY DEF WellEnded
<1>3. a.event \notin {"reset", "start", "cancelled", "transportError"}
    BY <1>1 DEF FrameEvents, Parts
<1>4. t \in States /\ t.id = s.id
    BY <1>3, FilledFields
<1>5. Ending(k) \in {1, 2}
    BY DEF Ending
<1>6. Told(t, k, n - i)
    <2>1. CASE a.event = "done"
        <3>1. n - i = 0 /\ n - i < Ending(k)
            BY <1>1, <1>2, <1>5, <2>1
        <3>2. /\ t.status = IF s.status = "error" THEN "error" ELSE "done"
              /\ t.success <=> s.status # "error"
            BY <1>3, <2>1, FilledFields
        <3>3. s.status = IF Ending(k) = 2 THEN "error" ELSE "streaming"
            BY <1>1, <1>2, <1>5, <2>1 DEF Told
        <3> QED
            BY <1>5, <3>1, <3>2, <3>3 DEF Told
    <2>2. CASE a.event = "error"
        <3>1. n - i < Ending(k) /\ Ending(k) = 2
            BY <1>1, <1>2, <2>2
        <3>2. t.status = "error" /\ t.success = FALSE
            BY <1>3, <2>2, FilledFields
        <3> QED
            BY <3>1, <3>2 DEF Told
    <2>3. CASE a.event \notin {"done", "error"}
        <3>1. ~(n - i < Ending(k)) /\ ~(n - i + 1 < Ending(k))
            BY <1>1, <1>2, <1>5, <2>3
        <3>2. s.status = "streaming"
            BY <3>1 DEF Told
        <3>3. a.event \in Parts \cup {"metrics"}
            BY <1>1, <2>3 DEF FrameEvents
        <3>4. t.status = s.status
            BY <1>3, <3>3, FilledFields
        <3> QED
            BY <3>1, <3>2, <3>4 DEF Told
    <2> QED
        BY <2>1, <2>2, <2>3
<1> QED
    BY <1>4, <1>6

\* The first frames, or all.
LEMMA FramesTell ==
    ASSUME NEW s \in States, NEW k, NEW frames \in Seq(FrameEvents), WellEnded(k, frames),
           Told(s, k, Len(frames)), NEW n \in 0 .. Len(frames)
    PROVE  LET t == Applied(s, Emitted(s.id, SubSeq(frames, 1, n)), {}) IN
           t.id = s.id /\ Told(t, k, Len(frames) - n)
<1> DEFINE events == SubSeq(frames, 1, n)
           acts == Emitted(s.id, events)
<1>1. n \in Nat /\ Len(frames) \in Nat /\ s.id \in Nat
    BY DEF States
<1>2. events \in Seq(FrameEvents) /\ Len(events) = n /\ \A i \in 1 .. n : events[i] = frames[i]
    BY <1>1
<1>3. events \in Seq(RunEvents)
    <2>1. FrameEvents \subseteq RunEvents
        BY DEF RunEvents
    <2> HIDE DEF events
    <2> QED
        BY <1>2, <2>1
<1>4. /\ Len(acts) = n
      /\ \A i \in 1 .. n : acts[i] \in Actions /\ acts[i].event = frames[i] /\ acts[i].id = s.id
    <2> HIDE DEF events
    <2> QED
        BY <1>1, <1>2, <1>3, EmittedActions
<1> HIDE DEF acts
<1>5. PICK f : IsFold(f, s, acts, {}, n) /\ Applied(s, acts, {}) = f[n]
    <2>1. Len(acts) \in Nat
        BY <1>1, <1>4
    <2>2. PICK f : IsFold(f, s, acts, {}, Len(acts)) /\ Applied(s, acts, {}) = f[Len(acts)]
        BY <2>1, AppliedIsFold
    <2> QED
        BY <1>4, <2>2
<1> DEFINE Off == {i \in 0 .. n : ~(f[i] \in States /\ f[i].id = s.id /\ Told(f[i], k, Len(frames) - i))}
<1>6. SUFFICES ASSUME Off # {} PROVE FALSE
    <2>1. n \in 0 .. n
        BY <1>1
    <2> QED
        BY <1>5, <2>1 DEF acts
<1>7. PICK i \in Off : \A j \in Off : i <= j
    <2>1. Off \in SUBSET Nat
        OBVIOUS
    <2> HIDE DEF Off
    <2> QED
        BY <1>6, <2>1, LeastNumber
<1>8. i \in 0 .. n /\ ~(f[i] \in States /\ f[i].id = s.id /\ Told(f[i], k, Len(frames) - i))
    BY <1>7
<1>9. f[i] = IF i = 0 THEN s ELSE Then(f[i - 1], acts[i], {})
    BY <1>5, <1>8 DEF IsFold
<1>10. i # 0
    <2>1. ASSUME i = 0 PROVE FALSE
        <3>1. f[i] = s /\ Len(frames) - i = Len(frames)
            BY <1>1, <1>9, <2>1
        <3> QED
            BY <1>8, <3>1
    <2> QED
        BY <2>1
<1>11. i \in 1 .. n /\ i - 1 \in 0 .. n /\ i - 1 \notin Off
    BY <1>1, <1>7, <1>8, <1>10
<1>12. f[i - 1] \in States /\ f[i - 1].id = s.id /\ Told(f[i - 1], k, Len(frames) - (i - 1))
    BY <1>11
<1>13. f[i] = Reduce(f[i - 1], acts[i])
    BY <1>9, <1>10 DEF Then
<1>14. acts[i] \in Actions /\ acts[i].event = frames[i] /\ acts[i].id = f[i - 1].id /\ i \in 1 .. Len(frames)
    BY <1>1, <1>4, <1>11, <1>12
<1>15. acts[i].event \notin {"reset", "start"}
    <2>1. frames[i] \in FrameEvents
        BY <1>14
    <2> QED
        BY <1>14, <2>1 DEF FrameEvents, Parts
<1>16. f[i] = Filled(f[i - 1], acts[i])
    BY <1>12, <1>13, <1>14, <1>15, ReduceFields
<1>17. Len(frames) - (i - 1) = Len(frames) - i + 1
    BY <1>1, <1>8
<1>18. f[i].id = f[i - 1].id /\ f[i] \in States /\ Told(f[i], k, Len(frames) - i)
    <2> DEFINE before == f[i - 1]
               a == acts[i]
    <2>1. /\ before \in States /\ a \in Actions /\ a.event = frames[i] /\ a.id = before.id
          /\ Told(before, k, Len(frames) - i + 1) /\ f[i] = Filled(before, a) /\ i \in 1 .. Len(frames)
        BY <1>12, <1>14, <1>16, <1>17
    <2> HIDE DEF before, a
    <2>2. Filled(before, a).id = before.id /\ Filled(before, a) \in States /\ Told(Filled(before, a), k, Len(frames) - i)
        BY <2>1, FrameTells
    <2> QED
        BY <2>1, <2>2 DEF before
<1> QED
    BY <1>8, <1>12, <1>18

\* The frames that the server sends end in that way.
AnswersWell(k, frames) ==
    frames \in Seq(FrameEvents) /\ WellEnded(k, frames) /\ Len(frames) >= Ending(k)

LEMMA AnswersEndWell ==
    ASSUME NEW k \in Kinds, k # "notOk"
    PROVE  AnswersWell(k, Frames[k]) /\ \A early \in EarlyFrames : AnswersWell(k, early \o Frames[k])
<1> DEFINE w == Frames[k]
<1>1. AnswersWell(k, w)
    <2>0. /\ "sql" \in FrameEvents /\ "columns" \in FrameEvents /\ "rows" \in FrameEvents
          /\ "viz" \in FrameEvents /\ "decision" \in FrameEvents /\ "metrics" \in FrameEvents
          /\ "error" \in FrameEvents /\ "done" \in FrameEvents
        BY DEF FrameEvents, Parts
    <2>1. CASE k = "result"
        <3>1. w = <<"sql", "columns", "rows", "viz", "metrics", "done">>
            BY <2>1 DEF Frames, Kinds
        <3>2. Ending(k) = 1
            BY <2>1 DEF Ending
        <3>3. Len(w) = 6 /\ w \in Seq(FrameEvents)
            BY <2>0, <3>1
        <3>4. WellEnded(k, w)
            BY <3>1, <3>2, <3>3 DEF WellEnded
        <3> QED
            BY <3>2, <3>3, <3>4 DEF AnswersWell
    <2>2. CASE k = "decision"
        <3>1. w = <<"decision", "metrics", "done">>
            BY <2>2 DEF Frames, Kinds
        <3>2. Ending(k) = 1
            BY <2>2 DEF Ending
        <3>3. Len(w) = 3 /\ w \in Seq(FrameEvents)
            BY <2>0, <3>1
        <3>4. WellEnded(k, w)
            BY <3>1, <3>2, <3>3 DEF WellEnded
        <3> QED
            BY <3>2, <3>3, <3>4 DEF AnswersWell
    <2>3. CASE k = "failure"
        <3>1. w = <<"sql", "columns", "rows", "viz", "metrics", "error", "done">>
            BY <2>3 DEF Frames, Kinds
        <3>2. Ending(k) = 2
            BY <2>3 DEF Ending
        <3>3. Len(w) = 7 /\ w \in Seq(FrameEvents)
            BY <2>0, <3>1
        <3>4. WellEnded(k, w)
            BY <3>1, <3>2, <3>3 DEF WellEnded
        <3> QED
            BY <3>2, <3>3, <3>4 DEF AnswersWell
    <2>4. CASE k = "setupFailure"
        <3>1. w = <<"error", "done">>
            BY <2>4 DEF Frames, Kinds
        <3>2. Ending(k) = 2
            BY <2>4 DEF Ending
        <3>3. Len(w) = 2 /\ w \in Seq(FrameEvents)
            BY <2>0, <3>1
        <3>4. WellEnded(k, w)
            BY <3>1, <3>2, <3>3 DEF WellEnded
        <3> QED
            BY <3>2, <3>3, <3>4 DEF AnswersWell
    <2> QED
        BY <2>1, <2>2, <2>3, <2>4 DEF Kinds
<1> HIDE DEF w
<1>2. ASSUME NEW early \in EarlyFrames
      PROVE  AnswersWell(k, early \o w)
    <2>0. Ending(k) \in {1, 2}
        BY DEF Ending
    <2>1. /\ w \in Seq(FrameEvents) /\ Len(w) \in Nat /\ Len(w) >= Ending(k) /\ Ending(k) \in {1, 2}
          /\ WellEnded(k, w)
        BY <1>1, <2>0 DEF AnswersWell
    <2>2. CASE early = <<>>
        <3>1. early \o w = w
            BY <2>1, <2>2
        <3> QED
            BY <1>1, <3>1
    <2>3. CASE early = <<"sql">>
        <3> DEFINE v == early \o w
        <3>1. "sql" \in FrameEvents
            BY DEF FrameEvents, Parts
        <3>2. /\ v \in Seq(FrameEvents) /\ Len(v) = Len(w) + 1 /\ v[1] = "sql"
              /\ \A i \in 2 .. Len(w) + 1 : v[i] = w[i - 1]
            BY <2>1, <2>3, <3>1
        <3> HIDE DEF v
        <3>3. ASSUME NEW i \in 1 .. Len(v)
              PROVE  /\ v[i] = "done" <=> i = Len(v)
                     /\ v[i] = "error" <=> Ending(k) = 2 /\ i = Len(v) - 1
            <4>1. CASE i = 1
                BY <2>1, <3>2, <4>1
            <4>2. CASE i # 1
                <5>1. i - 1 \in 1 .. Len(w) /\ v[i] = w[i - 1]
                    BY <2>1, <3>2, <4>2
                <5>2. /\ w[i - 1] = "done" <=> i - 1 = Len(w)
                      /\ w[i - 1] = "error" <=> Ending(k) = 2 /\ i - 1 = Len(w) - 1
                    BY <2>1, <5>1 DEF WellEnded
                <5> QED
                    BY <2>1, <3>2, <5>1, <5>2
            <4> QED
                BY <4>1, <4>2
        <3>4. WellEnded(k, v)
            BY <3>3 DEF WellEnded
        <3>5. Len(v) >= Ending(k)
            BY <2>1, <3>2
        <3>6. AnswersWell(k, v)
            BY <3>2, <3>4, <3>5 DEF AnswersWell
        <3> QED
            BY <3>6 DEF v
    <2> QED
        BY <2>2, <2>3 DEF EarlyFrames
<1> QED
    BY <1>1, <1>2 DEF w

-----------------------------------------------------------------------------
(* The inductive invariant.                                                  *)

StreamTyped ==
    /\ lastId \in 0 .. MaxId /\ active \in {0, lastId} /\ cleared \in 0 .. lastId
    /\ aborted \subseteq 1 .. lastId /\ mounted \in BOOLEAN
    /\ pc \in [Runs -> {"none", "fetching", "errorBody", "reading", "over"}]
    /\ kind \in [Runs -> Kinds] /\ wire \in [Runs -> Seq(FrameEvents)]
    /\ terminal \subseteq Runs /\ recent \subseteq Runs
    /\ dispatched \in Seq(Actions) /\ baseState \in OwnStates /\ shown \in OwnStates

\* A controller that was aborted is not the active one; a run that is not asked has done nothing.
RunsInOrder ==
    /\ active \notin aborted
    /\ \A r \in Runs : r > lastId => pc[r] = "none"
    /\ \A r \in terminal : pc[r] \in {"reading", "over"}
    /\ \A r \in recent : r > cleared /\ pc[r] = "over"

\* The page is on its way to the last question, or to the empty page of the last clear.
DueIsLast ==
    /\ Due.id = lastId
    /\ lastId = cleared => active = 0 /\ Due.parts = {}
    /\ mounted /\ active = 0 => Due.status # "streaming"

\* How a run that has ended is shown.
ShownAsEnded(r) ==
    LET complete == kind[r] \in {"result", "decision"} /\ wire[r] = <<>> IN
    /\ Due.status \in {"done", "error"}
    /\ Due.success <=> Due.status = "done"
    /\ Due.success => complete /\ r \in terminal
    /\ r \in recent => (Due.success <=> complete)

\* The page is on its way to what the run in hand has been told.
Follows(r) ==
    /\ pc[r] # "none"
    /\ pc[r] \in {"fetching", "errorBody"} => Due.status = "streaming" /\ r \notin terminal
    /\ pc[r] = "errorBody" => kind[r] = "notOk"
    /\ pc[r] = "reading" =>
          /\ kind[r] # "notOk" /\ WellEnded(kind[r], wire[r]) /\ Told(Due, kind[r], Len(wire[r]))
          /\ r \in terminal <=> Len(wire[r]) < Ending(kind[r])
    /\ pc[r] = "over" => ShownAsEnded(r)

StreamIInv == StreamTyped /\ RunsInOrder /\ DueIsLast /\ (active # 0 => Follows(active))

-----------------------------------------------------------------------------
LEMMA DueTyped ==
    ASSUME StreamTyped
    PROVE  Due \in OwnStates /\ Due \in States
<1>1. Due \in OwnStates
    BY ReduceKeepsOwn, AppliedStays DEF StreamTyped, Due
<1> QED
    BY <1>1 DEF OwnStates

LEMMA DueAfter ==
    ASSUME StreamTyped, UNCHANGED baseState, NEW q \in Seq(Actions), dispatched' = dispatched \o q
    PROVE  Due' = Applied(Due, q, {}) /\ dispatched' \in Seq(Actions)
<1>1. dispatched \in Seq(Actions)
    BY DEF StreamTyped
<1>2. Applied(baseState, dispatched \o q, {}) = Applied(Applied(baseState, dispatched, {}), q, {})
    BY <1>1, AppliedConcat
<1>3. Due' = Applied(baseState, dispatched \o q, {})
    BY DEF Due
<1>4. dispatched' \in Seq(Actions)
    BY <1>1
<1> QED
    BY <1>2, <1>3, <1>4 DEF Due

LEMMA DueAfterOne ==
    ASSUME StreamTyped, UNCHANGED baseState, NEW a \in Actions, dispatched' = Append(dispatched, a)
    PROVE  Due' = Reduce(Due, a) /\ dispatched' \in Seq(Actions)
<1> DEFINE q == <<a>>
<1>1. q \in Seq(Actions) /\ dispatched' = dispatched \o q
    <2>1. dispatched \in Seq(Actions)
        BY DEF StreamTyped
    <2>2. Append(dispatched, a) = dispatched \o <<a>>
        BY <2>1
    <2> QED
        BY <2>2
<1>2. Applied(Due, q, {}) = Reduce(Due, a)
    BY AppliedOne DEF Then
<1> HIDE DEF q
<1> QED
    BY <1>1, <1>2, DueAfter

LEMMA DueUnchanged ==
    ASSUME UNCHANGED <<baseState, dispatched>>
    PROVE  Due' = Due
    BY DEF Due

LEMMA StreamInitSound == StreamInit => StreamIInv
<1> SUFFICES ASSUME StreamInit PROVE StreamIInv
    OBVIOUS
<1> USE StreamAssumption DEF StreamInit
<1>1. /\ Idle0 \in States /\ Idle0.id = 0 /\ Idle0.parts = {} /\ Idle0.status = "idle"
    <2> DEFINE zero == 0
               idle == "idle"
               no == FALSE
               none == {}
    <2>1. zero \in Nat /\ idle \in Statuses /\ no \in BOOLEAN /\ none \in SUBSET (Parts \X Nat)
        BY DEF Statuses
    <2>2. Idle0 = [id |-> zero, status |-> idle, success |-> no, parts |-> none]
        BY DEF Idle0
    <2> HIDE DEF zero, idle, no, none
    <2>3. Idle0 \in States /\ Idle0.id = zero /\ Idle0.parts = none /\ Idle0.status = idle
        BY <2>1, <2>2 DEF States
    <2> QED
        BY <2>3 DEF zero, none, idle
<1>2. Idle0 \in OwnStates
    BY <1>1 DEF OwnStates
<1>3. Due = Idle0
    BY AppliedNone DEF Due
<1>4. StreamTyped
    <2>1. <<>> \in Seq(Actions) /\ <<>> \in Seq(FrameEvents)
        OBVIOUS
    <2>2. wire \in [Runs -> Seq(FrameEvents)]
        BY <2>1
    <2>3. pc \in [Runs -> {"none", "fetching", "errorBody", "reading", "over"}]
        OBVIOUS
    <2> QED
        BY <1>2, <2>1, <2>2, <2>3 DEF StreamTyped
<1>5. RunsInOrder
    BY DEF RunsInOrder
<1>6. DueIsLast
    BY <1>1, <1>3 DEF DueIsLast
<1> QED
    BY <1>4, <1>5, <1>6 DEF StreamIInv

\* A run that was stopped or overtaken ends without a word.
LEMMA StaleEnds ==
    ASSUME StreamIInv, NEW r \in Runs, pc[r] # "none", ~Current(r), pc' = [pc EXCEPT ![r] = "over"],
           UNCHANGED <<active, aborted, lastId, kind, wire, terminal, dispatched, baseState, shown, recent,
                       mounted, cleared>>
    PROVE  StreamIInv'
<1>1. Due' = Due
    BY DueUnchanged
<1>2. active # r
    BY DEF StreamIInv, RunsInOrder, Current
<1>3. StreamTyped'
    BY DEF StreamIInv, StreamTyped
<1>4. RunsInOrder'
    BY DEF StreamIInv, RunsInOrder, StreamTyped
<1>5. DueIsLast'
    BY <1>1 DEF StreamIInv, DueIsLast
<1>6. active' # 0 => Follows(active)'
    <2>1. active # 0 => active \in Runs /\ pc'[active] = pc[active]
        BY <1>2, StreamAssumption DEF StreamIInv, StreamTyped, Runs
    <2> QED
        BY <1>1, <2>1 DEF StreamIInv, Follows, ShownAsEnded
<1> QED
    BY <1>3, <1>4, <1>5, <1>6 DEF StreamIInv

\* The run in hand ends, and the page will show how.
LEMMA CurrentEnds ==
    ASSUME StreamIInv, NEW r \in Runs, pc[r] # "none", Current(r), pc' = [pc EXCEPT ![r] = "over"],
           recent' \in {recent, recent \cup {r}},
           UNCHANGED <<active, aborted, lastId, kind, wire, terminal, baseState, shown, mounted, cleared>>,
           dispatched' \in Seq(Actions), Due'.id = lastId, ShownAsEnded(r)'
    PROVE  StreamIInv'
<1>1. active = r /\ r = lastId /\ active # 0 /\ lastId # cleared /\ r > cleared
    BY StreamAssumption DEF StreamIInv, StreamTyped, Current, Runs, DueIsLast
<1>2. StreamTyped'
    BY DEF StreamIInv, StreamTyped
<1>3. RunsInOrder'
    BY <1>1 DEF StreamIInv, RunsInOrder, StreamTyped
<1>4. DueIsLast'
    BY <1>1 DEF DueIsLast
<1>5. Follows(active)'
    <2>1. pc'[r] = "over" /\ active' = r
        BY <1>1 DEF StreamIInv, StreamTyped
    <2> QED
        BY <1>1, <2>1 DEF Follows
<1> QED
    BY <1>2, <1>3, <1>4, <1>5 DEF StreamIInv

LEMMA AskSound == ASSUME StreamIInv, Ask PROVE StreamIInv'
<1> DEFINE n == lastId + 1
           go == "start"
           a == [event |-> go, id |-> n]
<1>1. n \in Nat /\ n \in Runs /\ go \in RunEvents \cup {"cancelled", "reset", "start"} /\ dispatched' = Append(dispatched, a)
    BY StreamAssumption DEF StreamIInv, StreamTyped, Ask, Runs
<1> HIDE DEF go
<1>2. a \in Actions /\ a.event = go /\ a.id = n
    BY <1>1 DEF Actions
<1> HIDE DEF a
<1>3. Due' = Reduce(Due, a) /\ dispatched' \in Seq(Actions)
    BY <1>1, <1>2, DueAfterOne DEF StreamIInv, Ask
<1>4. Due'.id = n /\ Due'.status = "streaming" /\ Due'.parts = {}
    <2>1. Due \in States
        BY DueTyped DEF StreamIInv
    <2> QED
        BY <1>2, <1>3, <2>1, ReduceFields DEF go
<1>5. StreamTyped'
    BY <1>1, <1>3, StreamAssumption DEF StreamIInv, StreamTyped, Ask, Abort, Runs
<1>6. n \notin terminal /\ n \notin aborted /\ n \notin recent /\ pc[n] = "none"
    <2>1. lastId \in Nat /\ n > lastId /\ n \notin 1 .. lastId
        BY DEF StreamIInv, StreamTyped
    <2>2. pc[n] = "none"
        BY <1>1, <2>1 DEF StreamIInv, RunsInOrder
    <2>3. n \notin terminal /\ n \notin recent
        BY <2>2 DEF StreamIInv, RunsInOrder
    <2>4. n \notin aborted
        BY <2>1 DEF StreamIInv, StreamTyped
    <2> QED
        BY <2>2, <2>3, <2>4
<1>7. RunsInOrder'
    <2>1. active' \notin aborted'
        BY <1>1, <1>6 DEF StreamIInv, StreamTyped, Ask, Abort
    <2>2. \A r \in Runs : r # n => pc'[r] = pc[r]
        BY DEF StreamIInv, StreamTyped, Ask
    <2>3. \A r \in Runs : r > lastId' => pc'[r] = "none"
        BY <2>2 DEF StreamIInv, StreamTyped, RunsInOrder, Ask, Runs
    <2> QED
        BY <1>6, <2>1, <2>2, <2>3 DEF StreamIInv, StreamTyped, RunsInOrder, Ask
<1>8. DueIsLast'
    BY <1>1, <1>4 DEF StreamIInv, StreamTyped, DueIsLast, Ask
<1>9. Follows(active)'
    <2>1. active' = n /\ pc'[n] = "fetching" /\ n \notin terminal'
        BY <1>1, <1>6 DEF StreamIInv, StreamTyped, Ask
    <2> QED
        BY <1>4, <2>1 DEF Follows
<1> QED
    BY <1>5, <1>7, <1>8, <1>9 DEF StreamIInv

LEMMA CancelSound == ASSUME StreamIInv, Cancel PROVE StreamIInv'
<1> DEFINE stop == "cancelled"
           a == [event |-> stop, id |-> lastId]
<1>1. /\ lastId \in Nat /\ active = lastId /\ lastId # 0 /\ stop \in RunEvents \cup {"cancelled", "reset", "start"}
      /\ dispatched' = Append(dispatched, a)
    BY DEF StreamIInv, StreamTyped, Cancel
<1> HIDE DEF stop
<1>2. a \in Actions /\ a.event = stop /\ a.id = lastId
    BY <1>1 DEF Actions
<1> HIDE DEF a
<1>3. Due' = Reduce(Due, a) /\ dispatched' \in Seq(Actions)
    BY <1>1, <1>2, DueAfterOne DEF StreamIInv, Cancel
<1>4. Due \in States /\ Due.id = lastId /\ lastId # cleared
    BY <1>1, DueTyped DEF StreamIInv, DueIsLast
<1>5. Due'.id = lastId /\ Due'.status # "streaming"
    <2>1. a.event \notin {"reset", "start"} /\ a.event = "cancelled"
        BY <1>2 DEF stop
    <2>2. Reduce(Due, a) = Filled(Due, a)
        BY <1>2, <1>4, <2>1, ReduceFields
    <2>3. a.id = Due.id
        BY <1>2, <1>4
    <2>4. Filled(Due, a).id = Due.id /\ (a.event = "cancelled" => Filled(Due, a).status \in {"done", "idle"})
        BY <1>2, <1>4, <2>1, <2>3, FilledFields
    <2> QED
        BY <1>3, <1>4, <2>1, <2>2, <2>4
<1>6. StreamTyped'
    BY <1>1, <1>3 DEF StreamIInv, StreamTyped, Cancel, Abort
<1>7. RunsInOrder'
    BY DEF StreamIInv, StreamTyped, RunsInOrder, Cancel, Abort
<1>8. DueIsLast'
    BY <1>4, <1>5 DEF DueIsLast, Cancel
<1> QED
    BY <1>6, <1>7, <1>8 DEF StreamIInv, Cancel

LEMMA ClearSound == ASSUME StreamIInv, Clear PROVE StreamIInv'
<1> DEFINE n == lastId + 1
           again == "reset"
           a == [event |-> again, id |-> n]
<1>1. /\ n \in Nat /\ n \in Runs /\ again \in RunEvents \cup {"cancelled", "reset", "start"}
      /\ dispatched' = Append(dispatched, a)
    BY StreamAssumption DEF StreamIInv, StreamTyped, Clear, Runs
<1> HIDE DEF again
<1>2. a \in Actions /\ a.event = again /\ a.id = n
    BY <1>1 DEF Actions
<1> HIDE DEF a
<1>3. Due' = Reduce(Due, a) /\ dispatched' \in Seq(Actions)
    BY <1>1, <1>2, DueAfterOne DEF StreamIInv, Clear
<1>4. Due'.id = n /\ Due'.status = "idle" /\ Due'.parts = {}
    <2>1. Due \in States
        BY DueTyped DEF StreamIInv
    <2> QED
        BY <1>2, <1>3, <2>1, ReduceFields DEF again
<1>5. StreamTyped'
    BY <1>1, <1>3, StreamAssumption DEF StreamIInv, StreamTyped, Clear, Abort, Runs
<1>6. RunsInOrder'
    <2>1. active' = 0 /\ recent' = {} /\ pc' = pc /\ terminal' = terminal /\ lastId' = lastId + 1
        BY DEF Clear
    <2>2. active' \notin aborted'
        BY <2>1 DEF StreamIInv, StreamTyped, Clear, Abort
    <2>3. \A r \in Runs : r > lastId' => pc'[r] = "none"
        BY <2>1 DEF StreamIInv, StreamTyped, RunsInOrder, Runs
    <2> QED
        BY <2>1, <2>2, <2>3 DEF StreamIInv, RunsInOrder
<1>7. DueIsLast'
    BY <1>4 DEF DueIsLast, Clear
<1> QED
    BY <1>5, <1>6, <1>7 DEF StreamIInv, Clear

LEMMA DisposeSound == ASSUME StreamIInv, Dispose PROVE StreamIInv'
<1>1. Due' = Due
    BY DueUnchanged DEF Dispose
<1>2. StreamTyped'
    <2>1. aborted' \subseteq 1 .. lastId
        BY DEF StreamIInv, StreamTyped, Dispose, Abort
    <2>2. active' = 0 /\ mounted' = FALSE
        BY DEF Dispose
    <2> QED
        BY <2>1, <2>2 DEF StreamIInv, StreamTyped, Dispose
<1>3. RunsInOrder'
    BY DEF StreamIInv, StreamTyped, RunsInOrder, Dispose, Abort
<1>4. DueIsLast'
    BY <1>1 DEF StreamIInv, DueIsLast, Dispose
<1> QED
    BY <1>2, <1>3, <1>4 DEF StreamIInv, Dispose

LEMMA CurrentRun ==
    ASSUME StreamIInv, NEW r \in Runs, Current(r)
    PROVE  /\ r \in Nat /\ active = r /\ active # 0 /\ r = lastId /\ lastId # cleared
           /\ Due \in States /\ Due.id = r /\ Follows(r)
<1>1. active = r /\ r \in Nat /\ r # 0
    BY StreamAssumption DEF Current, Runs
<1>2. r = lastId /\ Due.id = lastId /\ lastId # cleared /\ Follows(r)
    BY <1>1 DEF StreamIInv, StreamTyped, DueIsLast
<1> QED
    BY <1>1, <1>2, DueTyped DEF StreamIInv

LEMMA DueAfterEmit ==
    ASSUME StreamIInv, NEW r \in Runs, Current(r), NEW events \in Seq(RunEvents), Emit(r, events), UNCHANGED baseState
    PROVE  Due' = Applied(Due, Emitted(r, events), {}) /\ dispatched' \in Seq(Actions)
<1>1. dispatched' = dispatched \o Emitted(r, events)
    BY DEF Emit, Emitted
<1>2. Emitted(r, events) \in Seq(Actions)
    BY CurrentRun, EmittedActions
<1> QED
    BY <1>1, <1>2, DueAfter DEF StreamIInv

\* The connection breaks, or the stream ends too early.
LEMMA BrokenEnds ==
    ASSUME StreamIInv, NEW r \in Runs, pc[r] \in {"fetching", "reading"}, Current(r),
           Emit(r, <<"transportError">>), Return(r, FALSE),
           UNCHANGED <<active, aborted, lastId, kind, wire, terminal, baseState, shown, mounted, cleared>>
    PROVE  StreamIInv'
<1> DEFINE broken == "transportError"
           events == <<broken>>
<1>1. broken \in RunEvents /\ Emit(r, events)
    BY DEF RunEvents
<1> HIDE DEF broken
<1>2. events \in Seq(RunEvents) /\ Len(events) = 1 /\ events[1] = broken
    BY <1>1
<1> HIDE DEF events
<1>3. Due \in States /\ Due.id = r /\ r \in Nat /\ r = lastId
    BY CurrentRun
<1>4. Due' = Applied(Due, Emitted(r, events), {}) /\ dispatched' \in Seq(Actions)
    BY <1>1, <1>2, DueAfterEmit
<1>5. PICK a \in Actions : Emitted(r, events) = <<a>> /\ a.event = broken /\ a.id = r
    <2> DEFINE a == Emitted(r, events)[1]
    <2>1. a \in Actions /\ a.event = broken /\ a.id = r
        BY <1>2, <1>3, EmittedActions
    <2>2. Emitted(r, events) \in Seq(Actions) /\ Len(Emitted(r, events)) = 1
        BY <1>2, <1>3, EmittedActions
    <2>3. Emitted(r, events) = <<a>>
        BY <2>2
    <2> QED
        BY <2>1, <2>3
<1>6. Due' = Reduce(Due, a)
    BY <1>4, <1>5, AppliedOne DEF Then
<1>7. a.event = "transportError" /\ a.event \notin {"reset", "start"}
    BY <1>5 DEF broken
<1>8. Due' = Filled(Due, a)
    BY <1>3, <1>5, <1>6, <1>7, ReduceFields
<1>9. Due'.id = Due.id /\ Due'.status = "error" /\ Due'.success = FALSE
    BY <1>3, <1>5, <1>7, <1>8, FilledFields
<1>10. pc' = [pc EXCEPT ![r] = "over"] /\ recent' = recent
    BY DEF Return
<1>11. r \notin recent
    BY DEF StreamIInv, RunsInOrder
<1>12. ShownAsEnded(r)'
    BY <1>9, <1>10, <1>11 DEF ShownAsEnded
<1> QED
    BY <1>3, <1>4, <1>9, <1>10, <1>12, CurrentEnds

LEMMA RespondSound == ASSUME StreamIInv, NEW r \in Runs, Respond(r) PROVE StreamIInv'
<1>1. CASE ~Current(r)
    <2>1. pc' = [pc EXCEPT ![r] = "over"] /\ recent' = recent /\ wire' = wire
        BY <1>1 DEF Respond, Return
    <2> QED
        BY <1>1, <2>1, StaleEnds DEF Respond
<1>2. CASE Current(r)
    <2>1. /\ r \in Nat /\ active = r /\ active # 0 /\ r = lastId /\ Due \in States /\ Due.id = r
          /\ Due.status = "streaming" /\ r \notin terminal /\ kind[r] \in Kinds
        BY <1>2, CurrentRun DEF Follows, Respond, StreamIInv, StreamTyped
    <2>2. Due' = Due
        BY DueUnchanged DEF Respond
    <2> DEFINE to == IF kind[r] = "notOk" THEN "errorBody" ELSE "reading"
    <2>3. pc' = [pc EXCEPT ![r] = to] /\ recent' = recent
        BY <1>2 DEF Respond
    <2>4. PICK frames \in Seq(FrameEvents) :
             /\ wire' = [wire EXCEPT ![r] = frames]
             /\ kind[r] # "notOk" => AnswersWell(kind[r], frames)
        <3>1. PICK early \in EarlyFrames :
                 wire' = [wire EXCEPT ![r] = IF kind[r] \in {"result", "failure"} THEN early \o Frames[kind[r]]
                                                                               ELSE Frames[kind[r]]]
            BY <1>2 DEF Respond
        <3> DEFINE frames == IF kind[r] \in {"result", "failure"} THEN early \o Frames[kind[r]] ELSE Frames[kind[r]]
        <3>2. CASE kind[r] = "notOk"
            <4>1. frames = <<>>
                BY <3>2 DEF Frames, Kinds
            <4>2. <<>> \in Seq(FrameEvents)
                OBVIOUS
            <4>3. wire' = [wire EXCEPT ![r] = frames]
                BY <3>1
            <4> HIDE DEF frames
            <4> QED
                BY <3>2, <4>1, <4>2, <4>3
        <3>3. CASE kind[r] # "notOk"
            <4>1. AnswersWell(kind[r], frames)
                BY <2>1, <3>3, AnswersEndWell
            <4>2. frames \in Seq(FrameEvents)
                BY <4>1 DEF AnswersWell
            <4> QED
                BY <3>1, <4>1, <4>2
        <3> QED
            BY <3>2, <3>3
    <2>5. StreamTyped'
        <3>1. pc' \in [Runs -> {"none", "fetching", "errorBody", "reading", "over"}]
            BY <2>3 DEF StreamIInv, StreamTyped
        <3>2. wire' \in [Runs -> Seq(FrameEvents)]
            BY <2>4 DEF StreamIInv, StreamTyped
        <3> QED
            BY <2>3, <3>1, <3>2 DEF StreamIInv, StreamTyped, Respond
    <2>6. pc'[r] = to /\ wire'[r] = frames /\ \A q \in Runs : q # r => pc'[q] = pc[q]
        BY <2>3, <2>4 DEF StreamIInv, StreamTyped
    <2>7. RunsInOrder'
        <3>1. r \notin recent /\ r \notin terminal
            BY <2>1 DEF StreamIInv, RunsInOrder, Respond
        <3>2. \A q \in Runs : q > lastId => pc'[q] = "none"
            BY <2>1, <2>6 DEF StreamIInv, RunsInOrder
        <3> QED
            BY <2>3, <2>6, <3>1, <3>2 DEF StreamIInv, StreamTyped, RunsInOrder, Respond
    <2>8. DueIsLast'
        BY <2>2 DEF StreamIInv, DueIsLast, Respond
    <2>9. Follows(r)'
        <3>1. CASE kind[r] = "notOk"
            <4>1. pc'[r] = "errorBody" /\ kind'[r] = "notOk" /\ r \notin terminal' /\ Due'.status = "streaming"
                BY <2>1, <2>2, <2>6, <3>1 DEF Respond
            <4> QED
                BY <4>1 DEF Follows
        <3>2. CASE kind[r] # "notOk"
            <4>1. pc'[r] = "reading" /\ kind' = kind /\ terminal' = terminal
                BY <2>6, <3>2 DEF Respond
            <4>2. WellEnded(kind[r], frames) /\ ~(Len(frames) < Ending(kind[r]))
                <5>1. Len(frames) \in Nat /\ Ending(kind[r]) \in Nat
                    BY DEF Ending
                <5> QED
                    BY <2>4, <3>2, <5>1 DEF AnswersWell
            <4>3. Told(Due, kind[r], Len(frames))
                BY <2>1, <4>2 DEF Told
            <4> QED
                BY <2>1, <2>2, <2>6, <3>2, <4>1, <4>2, <4>3 DEF Follows
        <3> QED
            BY <3>1, <3>2
    <2> QED
        BY <2>1, <2>5, <2>7, <2>8, <2>9 DEF StreamIInv, Respond
<1> QED
    BY <1>1, <1>2

LEMMA ErrorBodySound == ASSUME StreamIInv, NEW r \in Runs, ErrorBody(r) PROVE StreamIInv'
<1>1. CASE ~Current(r)
    <2>1. pc' = [pc EXCEPT ![r] = "over"] /\ recent' = recent /\ dispatched' = dispatched
        BY <1>1 DEF ErrorBody, Return, Emit
    <2> QED
        BY <1>1, <2>1, StaleEnds DEF ErrorBody
<1>2. CASE Current(r)
    <2> DEFINE k == "setupFailure"
               bad == "error"
               fin == "done"
               frames == <<bad, fin>>
    <2>1. /\ r \in Nat /\ r = lastId /\ Due \in States /\ Due.id = r
          /\ Due.status = "streaming" /\ kind[r] = "notOk"
        BY <1>2, CurrentRun DEF Follows, ErrorBody
    <2>2. Ending(k) = 2 /\ bad \in FrameEvents /\ fin \in FrameEvents /\ bad # fin /\ bad = "error" /\ fin = "done"
        BY DEF Ending, FrameEvents
    <2>3. Emit(r, frames)
        BY DEF ErrorBody
    <2> HIDE DEF k, bad, fin
    <2>4. frames \in Seq(FrameEvents) /\ Len(frames) = 2 /\ frames[1] = bad /\ frames[2] = fin
        BY <2>2
    <2> HIDE DEF frames
    <2>5. WellEnded(k, frames)
        BY <2>2, <2>4 DEF WellEnded
    <2>6. Told(Due, k, Len(frames))
        BY <2>1, <2>2, <2>4 DEF Told
    <2>7. SubSeq(frames, 1, 2) = frames
        BY <2>4
    <2> DEFINE t == Applied(Due, Emitted(Due.id, SubSeq(frames, 1, 2)), {})
    <2>8. t.id = Due.id /\ Told(t, k, Len(frames) - 2)
        <3>1. 2 \in 0 .. Len(frames)
            BY <2>4
        <3> QED
            BY <2>1, <2>4, <2>5, <2>6, <3>1, FramesTell
    <2>9. frames \in Seq(RunEvents)
        <3>1. FrameEvents \subseteq RunEvents
            BY DEF RunEvents
        <3> QED
            BY <2>4, <3>1
    <2>10. Due' = Applied(Due, Emitted(r, frames), {}) /\ dispatched' \in Seq(Actions)
        BY <1>2, <2>3, <2>9, DueAfterEmit DEF ErrorBody
    <2>11. Due'.id = Due.id /\ Told(Due', k, 0)
        <3>1. Due' = t
            BY <2>1, <2>7, <2>10
        <3>2. Len(frames) - 2 = 0
            BY <2>4
        <3> HIDE DEF t
        <3> QED
            BY <2>8, <3>1, <3>2
    <2>12. Due'.status = "error" /\ ~Due'.success
        BY <2>2, <2>11 DEF Told
    <2>13. pc' = [pc EXCEPT ![r] = "over"] /\ recent' = recent \cup {r}
        BY <1>2 DEF ErrorBody, Return
    <2>14. ShownAsEnded(r)'
        BY <2>1, <2>12 DEF ShownAsEnded, ErrorBody
    <2> QED
        BY <1>2, <2>1, <2>10, <2>11, <2>13, <2>14, CurrentEnds DEF ErrorBody
<1> QED
    BY <1>1, <1>2

\* What is left of the frames ends as they do, and the terminal frames are the last.
LEMMA RestEndsWell ==
    ASSUME NEW k, NEW frames \in Seq(FrameEvents), WellEnded(k, frames), NEW n \in 1 .. Len(frames)
    PROVE  LET rest == SubSeq(frames, n + 1, Len(frames)) IN
           /\ rest \in Seq(FrameEvents) /\ Len(rest) = Len(frames) - n /\ WellEnded(k, rest)
           /\ (Len(frames) < Ending(k) \/ \E i \in 1 .. n : SubSeq(frames, 1, n)[i] \in {"done", "error"})
                 <=> Len(frames) - n < Ending(k)
<1> DEFINE rest == SubSeq(frames, n + 1, Len(frames))
           first == SubSeq(frames, 1, n)
<1>1. n \in Nat /\ Len(frames) \in Nat /\ n >= 1 /\ n <= Len(frames) /\ Ending(k) \in {1, 2}
    BY DEF Ending
<1>2. /\ rest \in Seq(FrameEvents) /\ Len(rest) = Len(frames) - n
      /\ \A i \in 1 .. Len(frames) - n : rest[i] = frames[n + i]
    BY <1>1
<1>3. \A i \in 1 .. n : first[i] = frames[i]
    BY <1>1
<1> HIDE DEF rest, first
<1>4. ASSUME NEW i \in 1 .. Len(rest)
      PROVE  /\ rest[i] = "done" <=> i = Len(rest)
             /\ rest[i] = "error" <=> Ending(k) = 2 /\ i = Len(rest) - 1
    <2>1. PICK j \in 1 .. Len(frames) : j = n + i
        BY <1>1, <1>2
    <2>2. /\ frames[j] = "done" <=> j = Len(frames)
          /\ frames[j] = "error" <=> Ending(k) = 2 /\ j = Len(frames) - 1
        BY <2>1 DEF WellEnded
    <2>3. rest[i] = frames[j]
        BY <1>2, <2>1
    <2>4. /\ j = Len(frames) <=> i = Len(rest)
          /\ j = Len(frames) - 1 <=> i = Len(rest) - 1
        BY <1>1, <1>2, <2>1
    <2> QED
        BY <2>2, <2>3, <2>4
<1>5. (\E i \in 1 .. n : first[i] \in {"done", "error"})
         <=> n = Len(frames) \/ (Ending(k) = 2 /\ n >= Len(frames) - 1)
    <2>1. \A i \in 1 .. n : first[i] \in {"done", "error"}
                <=> i = Len(frames) \/ (Ending(k) = 2 /\ i = Len(frames) - 1)
        <3>1. \A i \in 1 .. n : i \in 1 .. Len(frames)
            BY <1>1
        <3> QED
            BY <1>3, <3>1 DEF WellEnded
    <2>2. ASSUME n = Len(frames) \/ (Ending(k) = 2 /\ n >= Len(frames) - 1)
          PROVE  \E i \in 1 .. n : i = Len(frames) \/ (Ending(k) = 2 /\ i = Len(frames) - 1)
        BY <1>1, <2>2
    <2>3. ASSUME NEW i \in 1 .. n, i = Len(frames) \/ (Ending(k) = 2 /\ i = Len(frames) - 1)
          PROVE  n = Len(frames) \/ (Ending(k) = 2 /\ n >= Len(frames) - 1)
        BY <1>1, <2>3
    <2> QED
        BY <2>1, <2>2, <2>3
<1>6. (Len(frames) < Ending(k) \/ n = Len(frames) \/ (Ending(k) = 2 /\ n >= Len(frames) - 1))
         <=> Len(frames) - n < Ending(k)
    BY <1>1
<1>7. WellEnded(k, rest)
    BY <1>4 DEF WellEnded
<1> QED
    BY <1>2, <1>5, <1>6, <1>7 DEF rest, first

LEMMA ReadSound == ASSUME StreamIInv, NEW r \in Runs, Read(r) PROVE StreamIInv'
<1>1. CASE ~Current(r)
    <2>1. /\ pc' = [pc EXCEPT ![r] = "over"] /\ recent' = recent
          /\ dispatched' = dispatched /\ wire' = wire /\ terminal' = terminal
        BY <1>1 DEF Read, Return
    <2> QED
        BY <1>1, <2>1, StaleEnds DEF Read
<1>2. CASE Current(r)
    <2>1. /\ r \in Nat /\ active = r /\ active # 0 /\ r = lastId /\ Due \in States /\ Due.id = r
          /\ lastId # cleared /\ Follows(r) /\ pc[r] = "reading"
        BY <1>2, CurrentRun DEF Read
    <2> DEFINE k == kind[r]
               frames == wire[r]
    <2>2. /\ k # "notOk" /\ WellEnded(k, frames) /\ Told(Due, k, Len(frames))
          /\ r \in terminal <=> Len(frames) < Ending(k)
        BY <2>1 DEF Follows
    <2>3. frames \in Seq(FrameEvents) /\ Len(frames) \in Nat
        BY DEF StreamIInv, StreamTyped
    <2>4. PICK n \in 1 .. Len(frames) :
             /\ wire' = [wire EXCEPT ![r] = SubSeq(frames, n + 1, Len(frames))]
             /\ terminal' = IF \E i \in 1 .. n : SubSeq(frames, 1, n)[i] \in {"done", "error"}
                            THEN terminal \cup {r} ELSE terminal
             /\ Emit(r, SubSeq(frames, 1, n))
             /\ pc' = pc /\ recent' = recent
        BY <1>2 DEF Read
    <2> HIDE DEF k, frames
    <2> DEFINE first == SubSeq(frames, 1, n)
               rest == SubSeq(frames, n + 1, Len(frames))
               seen == \E i \in 1 .. n : first[i] \in {"done", "error"}
               t == Applied(Due, Emitted(Due.id, first), {})
    <2>5. t.id = Due.id /\ Told(t, k, Len(frames) - n)
        <3>1. n \in 0 .. Len(frames)
            BY <2>3
        <3> QED
            BY <2>1, <2>2, <2>3, <3>1, FramesTell
    <2>6. /\ rest \in Seq(FrameEvents) /\ Len(rest) = Len(frames) - n /\ WellEnded(k, rest)
          /\ (Len(frames) < Ending(k) \/ seen) <=> Len(frames) - n < Ending(k)
        BY <2>2, <2>3, RestEndsWell
    <2>7. first \in Seq(RunEvents)
        <3>1. FrameEvents \subseteq RunEvents
            BY DEF RunEvents
        <3>2. first \in Seq(FrameEvents)
            BY <2>3
        <3> HIDE DEF first
        <3> QED
            BY <3>1, <3>2
    <2>8. wire' = [wire EXCEPT ![r] = rest] /\ Emit(r, first)
          /\ terminal' = IF seen THEN terminal \cup {r} ELSE terminal
        BY <2>4
    <2> HIDE DEF first, rest, seen
    <2>9. Due' = t /\ dispatched' \in Seq(Actions)
        BY <1>2, <2>1, <2>7, <2>8, DueAfterEmit DEF Read
    <2> HIDE DEF t
    <2>10. wire'[r] = rest /\ wire' \in [Runs -> Seq(FrameEvents)]
        BY <2>6, <2>8 DEF StreamIInv, StreamTyped
    <2>11. r \in terminal' <=> Len(rest) < Ending(k)
        BY <2>2, <2>6, <2>8
    <2>12. StreamTyped'
        <3>1. terminal' \subseteq Runs
            BY <2>8 DEF StreamIInv, StreamTyped
        <3> QED
            BY <2>4, <2>9, <2>10, <3>1 DEF StreamIInv, StreamTyped, Read
    <2>13. RunsInOrder'
        <3>1. \A q \in terminal' : pc[q] \in {"reading", "over"}
            BY <2>1, <2>8 DEF StreamIInv, RunsInOrder
        <3> QED
            BY <2>4, <3>1 DEF StreamIInv, RunsInOrder, Read
    <2>14. Due'.id = r /\ Told(Due', k, Len(rest))
        BY <2>1, <2>5, <2>6, <2>9
    <2>15. DueIsLast'
        BY <2>1, <2>14 DEF DueIsLast, Read
    <2>16. Follows(r)'
        <3>1. pc'[r] = "reading" /\ kind'[r] = k
            BY <2>1, <2>4 DEF Read, k
        <3> QED
            BY <2>2, <2>6, <2>10, <2>11, <2>14, <3>1 DEF Follows
    <2> QED
        BY <2>1, <2>12, <2>13, <2>15, <2>16 DEF StreamIInv, Read
<1> QED
    BY <1>1, <1>2

LEMMA EndOfStreamSound == ASSUME StreamIInv, NEW r \in Runs, EndOfStream(r) PROVE StreamIInv'
<1>1. CASE ~Current(r)
    <2>1. pc' = [pc EXCEPT ![r] = "over"] /\ recent' = recent /\ dispatched' = dispatched
        BY <1>1 DEF EndOfStream, Return, Emit
    <2> QED
        BY <1>1, <2>1, StaleEnds DEF EndOfStream
<1>2. CASE Current(r) /\ r \notin terminal
    <2>1. Emit(r, <<"transportError">>) /\ Return(r, FALSE) /\ pc[r] = "reading"
        BY <1>2 DEF EndOfStream, Return
    <2> QED
        BY <1>2, <2>1, BrokenEnds DEF EndOfStream
<1>3. CASE Current(r) /\ r \in terminal
    <2>1. /\ r \in Nat /\ r = lastId /\ Due \in States /\ Due.id = r /\ Follows(r) /\ pc[r] = "reading"
        BY <1>3, CurrentRun DEF EndOfStream
    <2> DEFINE none == <<>>
    <2>2. Emit(r, none)
        BY <1>3 DEF EndOfStream
    <2>3. none \in Seq(RunEvents) /\ Len(none) = 0
        OBVIOUS
    <2> HIDE DEF none
    <2>4. Due' = Applied(Due, Emitted(r, none), {}) /\ dispatched' \in Seq(Actions)
        BY <1>3, <2>2, <2>3, DueAfterEmit DEF EndOfStream
    <2>5. Emitted(r, none) = <<>>
        <3>1. Emitted(r, none) \in Seq(Actions) /\ Len(Emitted(r, none)) = 0
            BY <2>1, <2>3, EmittedActions
        <3> HIDE DEF Emitted
        <3> QED
            BY <3>1
    <2>6. Due' = Due
        BY <2>4, <2>5, AppliedNone
    <2> DEFINE k == kind[r]
               frames == wire[r]
    <2>7. Told(Due, k, Len(frames)) /\ Len(frames) < Ending(k) /\ k # "notOk"
        BY <1>3, <2>1 DEF Follows
    <2>8. k \in Kinds /\ frames \in Seq(FrameEvents) /\ Len(frames) \in Nat
        BY DEF StreamIInv, StreamTyped
    <2>9. Ending(k) \in {1, 2} /\ (Ending(k) = 1 <=> k \in {"result", "decision"})
        BY <2>7, <2>8 DEF Ending, Kinds
    <2> HIDE DEF k, frames
    <2>10. /\ Due.status = (IF Ending(k) = 2 THEN "error" ELSE "done")
           /\ Due.success <=> Ending(k) = 1
        BY <2>7 DEF Told
    <2>11. Ending(k) = 1 => frames = <<>>
        <3>1. Ending(k) = 1 => Len(frames) = 0
            BY <2>7, <2>8
        <3> QED
            BY <2>8, <3>1
    <2>12. pc' = [pc EXCEPT ![r] = "over"] /\ recent' = recent \cup {r}
        BY <1>3 DEF EndOfStream, Return
    <2>13. ShownAsEnded(r)'
        <3>1. wire'[r] = frames /\ kind'[r] = k /\ terminal' = terminal
            BY DEF EndOfStream, k, frames
        <3> QED
            BY <1>3, <2>6, <2>9, <2>10, <2>11, <2>12, <3>1 DEF ShownAsEnded
    <2> QED
        BY <1>3, <2>1, <2>4, <2>6, <2>12, <2>13, CurrentEnds DEF EndOfStream
<1> QED
    BY <1>1, <1>2, <1>3

LEMMA FailSound == ASSUME StreamIInv, NEW r \in Runs, Fail(r) PROVE StreamIInv'
<1>1. CASE ~Current(r)
    <2>1. pc' = [pc EXCEPT ![r] = "over"] /\ recent' = recent /\ dispatched' = dispatched
        BY <1>1 DEF Fail, Return, Emit
    <2> QED
        BY <1>1, <2>1, StaleEnds DEF Fail
<1>2. CASE Current(r)
    BY <1>2, BrokenEnds DEF Fail
<1> QED
    BY <1>1, <1>2

\* A render brings the page nearer to what is due, and changes nothing else.
LEMMA RenderedSound ==
    ASSUME StreamIInv, Due' = Due, baseState' \in OwnStates, shown' \in OwnStates, dispatched' \in Seq(Actions),
           UNCHANGED <<active, aborted, lastId, pc, kind, wire, terminal, recent, mounted, cleared>>
    PROVE  StreamIInv'
<1>1. StreamTyped'
    BY DEF StreamIInv, StreamTyped
<1>2. RunsInOrder'
    BY DEF StreamIInv, RunsInOrder
<1>3. DueIsLast'
    BY DEF StreamIInv, DueIsLast
<1>4. active' # 0 => Follows(active)'
    BY DEF StreamIInv, Follows, ShownAsEnded
<1> QED
    BY <1>1, <1>2, <1>3, <1>4 DEF StreamIInv

LEMMA RenderUrgentSound == ASSUME StreamIInv, RenderUrgent PROVE StreamIInv'
<1> DEFINE later == {i \in 1 .. Len(dispatched) : dispatched[i].event \in Transitions}
           n == IF later = {} THEN Len(dispatched) ELSE Min(later) - 1
           head == SubSeq(dispatched, 1, n)
           tail == SubSeq(dispatched, n + 1, Len(dispatched))
<1>1. /\ dispatched \in Seq(Actions) /\ Len(dispatched) \in Nat /\ baseState \in OwnStates
    BY DEF StreamIInv, StreamTyped
<1>2. /\ shown' = Applied(baseState, dispatched, Transitions)
      /\ baseState' = Applied(baseState, head, {}) /\ dispatched' = tail
    BY DEF RenderUrgent
<1>3. n \in 0 .. Len(dispatched)
    <2>1. CASE later = {}
        BY <1>1, <2>1
    <2>2. CASE later # {}
        <3>1. later \in SUBSET Nat /\ later \subseteq 1 .. Len(dispatched)
            OBVIOUS
        <3> HIDE DEF later
        <3>2. PICK m \in later : \A i \in later : m <= i
            BY <2>2, <3>1, LeastNumber
        <3>3. Min(later) \in later
            BY <3>2 DEF Min
        <3>4. PICK x \in 1 .. Len(dispatched) : x = Min(later)
            BY <3>1, <3>3
        <3>5. n = x - 1
            BY <2>2, <3>4
        <3> HIDE DEF n
        <3> QED
            BY <1>1, <3>5
    <2> QED
        BY <2>1, <2>2
<1> HIDE DEF later, n
<1>4. head \in Seq(Actions) /\ tail \in Seq(Actions) /\ dispatched = head \o tail
    <2>1. /\ head \in Seq(Actions) /\ Len(head) = n /\ \A i \in 1 .. n : head[i] = dispatched[i]
        BY <1>1, <1>3
    <2>2. /\ tail \in Seq(Actions) /\ Len(tail) = Len(dispatched) - n
          /\ \A i \in 1 .. Len(dispatched) - n : tail[i] = dispatched[n + i]
        BY <1>1, <1>3
    <2> HIDE DEF head, tail
    <2>3. /\ head \o tail \in Seq(Actions) /\ Len(head \o tail) = Len(dispatched)
          /\ \A i \in 1 .. Len(dispatched) : (head \o tail)[i] = IF i <= n THEN head[i] ELSE tail[i - n]
        BY <1>1, <1>3, <2>1, <2>2
    <2>4. ASSUME NEW i \in 1 .. Len(dispatched) PROVE (head \o tail)[i] = dispatched[i]
        <3>1. CASE i <= n
            BY <1>3, <2>1, <2>3, <3>1
        <3>2. CASE ~(i <= n)
            <4>1. i - n \in 1 .. Len(dispatched) - n /\ n + (i - n) = i
                BY <1>1, <1>3, <3>2
            <4>2. tail[i - n] = dispatched[n + (i - n)]
                BY <2>2, <4>1
            <4> QED
                BY <2>3, <3>2, <4>1, <4>2
        <3> QED
            BY <3>1, <3>2
    <2>5. head \o tail = dispatched
        BY <1>1, <2>3, <2>4, SeqEqual
    <2> QED
        BY <2>1, <2>2, <2>5
<1> HIDE DEF head, tail
<1>5. Due' = Due
    <2>1. Applied(baseState, head \o tail, {}) = Applied(Applied(baseState, head, {}), tail, {})
        BY <1>4, AppliedConcat
    <2> QED
        BY <1>2, <1>4, <2>1 DEF Due
<1>6. baseState' \in OwnStates /\ shown' \in OwnStates
    <2>1. \A x \in OwnStates, a \in Actions : Reduce(x, a) \in OwnStates
        BY ReduceKeepsOwn
    <2>2. Applied(baseState, dispatched, Transitions) \in OwnStates
        BY <1>1, <2>1, AppliedStays
    <2>3. Applied(baseState, head, {}) \in OwnStates
        BY <1>1, <1>4, <2>1, AppliedStays
    <2> QED
        BY <1>2, <2>2, <2>3
<1> QED
    BY <1>2, <1>4, <1>5, <1>6, RenderedSound DEF RenderUrgent

LEMMA RenderAllSound == ASSUME StreamIInv, RenderAll PROVE StreamIInv'
<1>1. baseState' = Due /\ shown' = Due /\ dispatched' = <<>>
    BY DEF RenderAll, Due
<1>2. Due' = Due
    <2>1. Due' = Applied(Due, <<>>, {})
        BY <1>1 DEF Due
    <2> QED
        BY <2>1, AppliedNone
<1>3. Due \in OwnStates
    BY DueTyped DEF StreamIInv
<1>4. dispatched' \in Seq(Actions)
    <2>1. <<>> \in Seq(Actions)
        OBVIOUS
    <2> QED
        BY <1>1, <2>1
<1> QED
    BY <1>1, <1>2, <1>3, <1>4, RenderedSound DEF RenderAll

\* createQueryStream, the reducer and the page: the inductive invariant of the question stream.
THEOREM StreamInvariance == StreamSpec => []StreamIInv
<1>1. StreamInit => StreamIInv
    BY StreamInitSound
<1>2. StreamIInv /\ [StreamNext]_streamVars => StreamIInv'
    <2> SUFFICES ASSUME StreamIInv, [StreamNext]_streamVars PROVE StreamIInv'
        OBVIOUS
    <2>1. CASE Ask
        BY <2>1, AskSound
    <2>2. CASE Cancel
        BY <2>2, CancelSound
    <2>3. CASE Clear
        BY <2>3, ClearSound
    <2>4. CASE Dispose
        BY <2>4, DisposeSound
    <2>5. ASSUME NEW r \in Runs, Respond(r) PROVE StreamIInv'
        BY <2>5, RespondSound
    <2>6. ASSUME NEW r \in Runs, ErrorBody(r) PROVE StreamIInv'
        BY <2>6, ErrorBodySound
    <2>7. ASSUME NEW r \in Runs, Read(r) PROVE StreamIInv'
        BY <2>7, ReadSound
    <2>8. ASSUME NEW r \in Runs, EndOfStream(r) PROVE StreamIInv'
        BY <2>8, EndOfStreamSound
    <2>9. ASSUME NEW r \in Runs, Fail(r) PROVE StreamIInv'
        BY <2>9, FailSound
    <2>10. CASE RenderUrgent
        BY <2>10, RenderUrgentSound
    <2>11. CASE RenderAll
        BY <2>11, RenderAllSound
    <2>12. CASE UNCHANGED streamVars
        <3>1. Due' = Due
            BY <2>12, DueUnchanged DEF streamVars
        <3>2. baseState' \in OwnStates /\ shown' \in OwnStates /\ dispatched' \in Seq(Actions)
            BY <2>12 DEF StreamIInv, StreamTyped, streamVars
        <3> QED
            BY <2>12, <3>1, <3>2, RenderedSound DEF streamVars
    <2> QED
        BY <2>1, <2>2, <2>3, <2>4, <2>5, <2>6, <2>7, <2>8, <2>9, <2>10, <2>11, <2>12 DEF StreamNext
<1> QED
    BY <1>1, <1>2, PTL DEF StreamSpec

LEMMA StreamIInvIsRight == StreamIInv => PageIsRight /\ StreamTypeOK
<1> SUFFICES ASSUME StreamIInv PROVE PageIsRight /\ StreamTypeOK
    OBVIOUS
<1>1. Due \in OwnStates /\ Due.id = lastId /\ shown \in OwnStates /\ baseState \in OwnStates
    BY DueTyped DEF StreamIInv, StreamTyped, DueIsLast
<1>2. ClearSticks
    <2>1. \A s \in {shown, Due} : \A p \in s.parts : p[2] = s.id
        BY <1>1 DEF OwnStates
    <2>2. ASSUME NEW p \in Due.parts PROVE p[2] > cleared
        <3>1. p[2] = lastId
            BY <1>1, <2>1
        <3>2. lastId # cleared
            BY DEF StreamIInv, DueIsLast
        <3> QED
            BY <3>1, <3>2, StreamAssumption DEF StreamIInv, StreamTyped
    <2> QED
        BY <2>1, <2>2 DEF ClearSticks, StreamIInv, RunsInOrder
<1>3. dispatched = <<>> => Due = baseState
    BY AppliedNone DEF Due
<1>4. NoStuckStream
    <2> SUFFICES ASSUME mounted, dispatched = <<>>, baseState.status = "streaming"
                 PROVE  active = baseState.id /\ pc[active] # "over"
        BY DEF NoStuckStream
    <2>1. Due.status = "streaming" /\ active # 0
        BY <1>3 DEF StreamIInv, DueIsLast
    <2>2. active = lastId /\ Follows(active)
        BY <2>1 DEF StreamIInv, StreamTyped
    <2>3. pc[active] # "over"
        BY <2>1, <2>2 DEF Follows, ShownAsEnded
    <2> QED
        BY <1>1, <1>3, <2>2, <2>3
<1>5. EndIsShown
    <2> SUFFICES ASSUME mounted, dispatched = <<>>, active # 0, pc[active] = "over", baseState.id = active
                 PROVE  ShownAsEnded(active) /\ Due = baseState
        BY DEF EndIsShown, ShownAsEnded
    <2> QED
        BY <1>3 DEF StreamIInv, Follows
<1>6. StreamTypeOK
    <2>1. \A s \in {baseState, shown} : s.status \in {"idle", "streaming", "done", "error"}
        <3>1. \A s \in OwnStates : s.status \in Statuses
            BY StateFields DEF OwnStates
        <3> QED
            BY <1>1, <3>1 DEF Statuses
    <2>2. /\ active \in 0 .. MaxId /\ aborted \subseteq Runs /\ lastId \in 0 .. MaxId
        BY StreamAssumption DEF StreamIInv, StreamTyped, Runs
    <2> QED
        BY <2>1, <2>2 DEF StreamTypeOK, StreamIInv, StreamTyped
<1> QED
    BY <1>2, <1>4, <1>5, <1>6 DEF PageIsRight, OutcomeShown

\* createQueryStream, streamReducer and App.tsx: whatever the network and React's scheduling do, what the
\* page shows was sent for the question it shows and not before the last clear, and says how that question ended.
THEOREM PageStaysRight == StreamSpec => []PageIsRight
    BY StreamInvariance, StreamIInvIsRight, PTL
=============================================================================
