-------------------------- MODULE RetrievalProofs --------------------------
(***************************************************************************)
(* Proofs about JoinPathSearch for every finite schema, its foreign keys and *)
(* every bound on the hops, and about TableRetrieval for every schema,       *)
(* scores, required tables, scope and rejections.                            *)
(***************************************************************************)
EXTENDS JoinPathSearch, TableRetrieval, FiniteSetTheorems, SequenceTheorems, WellFoundedInduction, TLAPS

-----------------------------------------------------------------------------
(* The search for the join path between two tables.                          *)

LEMMA LeastNumber ==
    ASSUME NEW S \in SUBSET Nat, S # {}
    PROVE  \E m \in S : \A n \in S : m <= n
<1>1. \E m \in S : \A n \in S : ~(<<n, m>> \in OpToRel(<, Nat))
    BY NatLessThanWellFounded, WFMin
<1>2. \A n, m \in S : ~(<<n, m>> \in OpToRel(<, Nat)) => m <= n
    BY DEF OpToRel
<1> QED
    BY <1>1, <1>2

\* What "within k hops" and "the shortest path" mean.

LEMMA LeastIsMin ==
    ASSUME NEW S \in SUBSET Nat, S # {}
    PROVE  Min(S) \in S /\ \A n \in S : Min(S) <= n
<1>1. \E m \in S : \A n \in S : m <= n
    BY LeastNumber
<1> QED
    BY <1>1 DEF Min

OneHopMore(g, ts, near) == near \cup {n \in ts : Neighbors(g, n) \cap near # {}}

IsReach(f, g, ts, t, k) ==
    f = [i \in 0 .. k |-> IF i = 0 THEN {t} ELSE OneHopMore(g, ts, f[i - 1])]

LEMMA ReachExists ==
    ASSUME NEW g, NEW ts, NEW t, NEW k \in Nat
    PROVE  \E f : IsReach(f, g, ts, t, k)
<1> DEFINE Has(m) == \E f : IsReach(f, g, ts, t, m)
           Lacking == {m \in Nat : ~Has(m)}
<1>1. SUFFICES ASSUME Lacking # {} PROVE FALSE
    OBVIOUS
<1>2. PICK m \in Lacking : \A n \in Lacking : m <= n
    BY <1>1, LeastNumber
<1>3. Has(0)
    <2>1. IsReach([i \in 0 .. 0 |-> {t}], g, ts, t, 0)
        BY DEF IsReach
    <2> QED
        BY <2>1
<1>4. m # 0 /\ m - 1 \in Nat /\ Has(m - 1)
    BY <1>2, <1>3
<1>5. PICK f : IsReach(f, g, ts, t, m - 1)
    BY <1>4
<1> DEFINE h == [i \in 0 .. m |-> IF i = m THEN OneHopMore(g, ts, f[m - 1]) ELSE f[i]]
<1>6. ASSUME NEW i \in 0 .. m
      PROVE  h[i] = IF i = 0 THEN {t} ELSE OneHopMore(g, ts, h[i - 1])
    <2>1. CASE i = m
        <3>1. h[i] = OneHopMore(g, ts, f[m - 1]) /\ h[m - 1] = f[m - 1]
            BY <1>4, <2>1
        <3> QED
            BY <3>1, <2>1, <1>4
    <2>2. CASE i # m
        <3>1. i \in 0 .. m - 1 /\ h[i] = f[i]
            BY <2>2, <1>4
        <3>2. f[i] = IF i = 0 THEN {t} ELSE OneHopMore(g, ts, f[i - 1])
            BY <1>5, <3>1 DEF IsReach
        <3>3. i # 0 => h[i - 1] = f[i - 1]
            BY <3>1
        <3> QED
            BY <3>1, <3>2, <3>3
    <2> QED
        BY <2>1, <2>2
<1>7. h = [i \in 0 .. m |-> h[i]]
    OBVIOUS
<1>8. IsReach(h, g, ts, t, m)
    <2> HIDE DEF h
    <2>1. [i \in 0 .. m |-> h[i]] = [i \in 0 .. m |-> IF i = 0 THEN {t} ELSE OneHopMore(g, ts, h[i - 1])]
        BY <1>6
    <2> QED
        BY <1>7, <2>1 DEF IsReach
<1> QED
    BY <1>2, <1>8

LEMMA TablesCounted == Cardinality(Tables) \in Nat /\ Hops = 0 .. Cardinality(Tables)
    BY TablesAssumption, FS_CardinalityType DEF Hops

LEMMA WithinSteps ==
    ASSUME NEW g, NEW ts, NEW t
    PROVE  /\ Within(g, ts, t)[0] = {t}
           /\ \A k \in Hops : k # 0 =>
                 Within(g, ts, t)[k] = OneHopMore(g, ts, Within(g, ts, t)[k - 1])
<1> DEFINE reach == CHOOSE f : IsReach(f, g, ts, t, Cardinality(Tables))
<1>1. IsReach(reach, g, ts, t, Cardinality(Tables))
    BY ReachExists, TablesCounted
<1>2. Within(g, ts, t) = reach
    BY TablesCounted DEF Within, IsReach, OneHopMore
<1> HIDE DEF reach
<1>3. \A i \in 0 .. Cardinality(Tables) : reach[i] = IF i = 0 THEN {t} ELSE OneHopMore(g, ts, reach[i - 1])
    BY <1>1 DEF IsReach
<1> QED
    BY <1>2, <1>3, TablesCounted

LEMMA StepWithin ==
    ASSUME NEW g, NEW ts, NEW t, NEW m \in Hops, m + 1 \in Hops
    PROVE  LET near == Within(g, ts, t) IN
           /\ near[m] \subseteq near[m + 1]
           /\ \A u \in ts, v \in near[m] : v \in Neighbors(g, u) => u \in near[m + 1]
           /\ \A u \in near[m + 1] : u \in near[m] \/ (u \in ts /\ \E v \in near[m] : v \in Neighbors(g, u))
<1> DEFINE near == Within(g, ts, t)
<1>1. near[m + 1] = OneHopMore(g, ts, near[m])
    <2>1. m \in Nat /\ m + 1 # 0 /\ (m + 1) - 1 = m
        BY TablesCounted
    <2>2. \A k \in Hops : k # 0 => near[k] = OneHopMore(g, ts, near[k - 1])
        BY WithinSteps
    <2> HIDE DEF near
    <2>3. near[m + 1] = OneHopMore(g, ts, near[(m + 1) - 1])
        BY <2>1, <2>2
    <2> QED
        BY <2>1, <2>3
<1> HIDE DEF near
<1>2. /\ near[m] \subseteq near[m + 1]
      /\ \A u \in ts, v \in near[m] : v \in Neighbors(g, u) => u \in near[m + 1]
      /\ \A u \in near[m + 1] : u \in near[m] \/ (u \in ts /\ \E v \in near[m] : v \in Neighbors(g, u))
    BY <1>1 DEF OneHopMore
<1> QED
    BY <1>2 DEF near

LEMMA WithinGrows ==
    ASSUME NEW g, NEW t, NEW m \in Hops, m + 1 \in Hops
    PROVE  LET near == Within(g, Tables, t) IN
           /\ near[m] \subseteq near[m + 1]
           /\ \A u, v \in Tables : v \in Neighbors(g, u) /\ v \in near[m] => u \in near[m + 1]
           /\ \A u \in near[m + 1] : u \in near[m] \/ \E v \in Neighbors(g, u) : v \in near[m]
    BY StepWithin

IsWay(f, g, near, a, d, k) ==
    f = [i \in 1 .. k |-> IF i = 1 THEN a ELSE Min(Neighbors(g, f[i - 1]) \cap near[d - i + 1])]

LEMMA WayExists ==
    ASSUME NEW g, NEW near, NEW a, NEW d, NEW k \in Nat
    PROVE  \E f : IsWay(f, g, near, a, d, k)
<1> DEFINE Has(m) == \E f : IsWay(f, g, near, a, d, m)
           Lacking == {m \in Nat : ~Has(m)}
<1>1. SUFFICES ASSUME Lacking # {} PROVE FALSE
    OBVIOUS
<1>2. PICK m \in Lacking : \A n \in Lacking : m <= n
    BY <1>1, LeastNumber
<1>3. Has(0)
    <2>1. IsWay([i \in 1 .. 0 |-> a], g, near, a, d, 0)
        BY DEF IsWay
    <2> QED
        BY <2>1
<1>4. m # 0 /\ m - 1 \in Nat /\ Has(m - 1)
    BY <1>2, <1>3
<1>5. PICK f : IsWay(f, g, near, a, d, m - 1)
    BY <1>4
<1> DEFINE Onward(p, i) == IF i = 1 THEN a ELSE Min(Neighbors(g, p[i - 1]) \cap near[d - i + 1])
           h == [i \in 1 .. m |-> IF i = m THEN Onward(f, m) ELSE f[i]]
<1>6. ASSUME NEW i \in 1 .. m
      PROVE  h[i] = Onward(h, i)
    <2>1. i # 1 => i - 1 \in 1 .. m - 1 /\ h[i - 1] = f[i - 1]
        BY <1>4
    <2>2. CASE i = m
        BY <1>4, <2>1, <2>2
    <2>3. CASE i # m
        <3>1. i \in 1 .. m - 1 /\ h[i] = f[i]
            BY <2>3, <1>4
        <3>2. f[i] = Onward(f, i)
            BY <1>5, <3>1 DEF IsWay
        <3> QED
            BY <2>1, <3>1, <3>2
    <2> QED
        BY <2>2, <2>3
<1>7. h = [i \in 1 .. m |-> h[i]]
    OBVIOUS
<1>8. IsWay(h, g, near, a, d, m)
    <2> HIDE DEF h
    <2>1. [i \in 1 .. m |-> h[i]] = [i \in 1 .. m |-> Onward(h, i)]
        BY <1>6
    <2> QED
        BY <1>7, <2>1 DEF IsWay
<1> QED
    BY <1>2, <1>8

\* The distance, one more than the bound if it is greater.
Distance(near, a, max) == Min({k \in Hops : a \in near[k]} \cup {max + 1})

LEMMA DistanceIsLeast ==
    ASSUME NEW near, NEW a, NEW max \in Nat
    PROVE  /\ Distance(near, a, max) \in Nat
           /\ \A m \in Hops : m < Distance(near, a, max) => a \notin near[m]
           /\ Distance(near, a, max) <= max =>
                 Distance(near, a, max) \in Hops /\ a \in near[Distance(near, a, max)]
           /\ Distance(near, a, max) <= max + 1
<1> DEFINE S == {k \in Hops : a \in near[k]} \cup {max + 1}
<1>1. S \in SUBSET Nat /\ S # {}
    BY TablesCounted
<1>2. Min(S) \in S /\ \A n \in S : Min(S) <= n
    BY <1>1, LeastIsMin
<1>3. Min(S) \in Nat
    BY <1>1, <1>2
<1>4. Distance(near, a, max) = Min(S)
    BY DEF Distance
<1>5. /\ \A n \in S : (n \in Hops /\ a \in near[n]) \/ n = max + 1
      /\ max + 1 \in S /\ \A n \in Hops : a \in near[n] => n \in S
    OBVIOUS
<1> DEFINE d == Min(S)
<1> HIDE DEF S
<1>6. d \in S /\ d \in Nat /\ \A n \in S : d <= n
    BY <1>2, <1>3
<1> HIDE DEF d
<1>7. d <= max + 1 /\ (d <= max => d \in Hops /\ a \in near[d])
    BY <1>5, <1>6
<1>8. \A m \in Hops : m < d => a \notin near[m]
    BY <1>5, <1>6, TablesCounted
<1> QED
    BY <1>4, <1>6, <1>7, <1>8 DEF d

\* The first of the shortest paths, step by step.
FirstWay(p, g, near, a, b, d) ==
    /\ p \in Seq(Tables) /\ Len(p) = d + 1 /\ p[1] = a /\ p[d + 1] = b
    /\ \A i \in 1 .. d :
          /\ p[i + 1] \in Neighbors(g, p[i]) /\ p[i + 1] \in near[d - i]
          /\ \A n \in Neighbors(g, p[i]) : n \in near[d - i] => p[i + 1] <= n

LEMMA FirstWayIsShortest ==
    ASSUME NEW g, NEW a \in Tables, NEW b \in Tables, NEW max \in Nat
    PROVE  LET near == Within(g, Tables, b)
               d == Distance(near, a, max)
           IN  IF d > max THEN ShortestPath(g, a, b, max) = <<>>
               ELSE FirstWay(ShortestPath(g, a, b, max), g, near, a, b, d)
<1> DEFINE near == Within(g, Tables, b)
           d == Distance(near, a, max)
           p == CHOOSE f : IsWay(f, g, near, a, d, d + 1)
<1>1. /\ d \in Nat /\ \A m \in Hops : m < d => a \notin near[m]
      /\ d <= max => d \in Hops /\ a \in near[d]
    BY DistanceIsLeast
<1>2. ShortestPath(g, a, b, max) = IF d > max THEN <<>> ELSE p
    BY DEF ShortestPath, Distance, IsWay
<1>3. IsWay(p, g, near, a, d, d + 1)
    <2> HIDE DEF d
    <2>1. d + 1 \in Nat
        BY <1>1
    <2> HIDE DEF near
    <2> QED
        BY <2>1, WayExists
<1>4. near[0] = {b}
    BY WithinSteps
<1>5. \A m \in Hops : m + 1 \in Hops =>
         \A u \in near[m + 1] : u \in near[m] \/ \E v \in Neighbors(g, u) : v \in near[m]
    BY WithinGrows
<1>6. \A m \in Hops : m + 1 \in Hops =>
         \A u, v \in Tables : v \in Neighbors(g, u) /\ v \in near[m] => u \in near[m + 1]
    BY WithinGrows
<1> HIDE DEF near, d, p
<1>7. SUFFICES ASSUME d <= max PROVE FirstWay(p, g, near, a, b, d)
    BY <1>1, <1>2 DEF near, d
<1>8. p = [i \in 1 .. d + 1 |-> IF i = 1 THEN a ELSE Min(Neighbors(g, p[i - 1]) \cap near[d - i + 1])]
    BY <1>3 DEF IsWay
<1>9. p[1] = a /\ DOMAIN p = 1 .. d + 1
    BY <1>1, <1>8
<1>10. \A i \in 1 .. d : p[i + 1] = Min(Neighbors(g, p[i]) \cap near[d - i])
    <2> TAKE i \in 1 .. d
    <2>1. PICK j \in 1 .. d + 1 : j = i + 1 /\ j # 1 /\ j - 1 = i /\ d - j + 1 = d - i
        BY <1>1
    <2>2. p[j] = IF j = 1 THEN a ELSE Min(Neighbors(g, p[j - 1]) \cap near[d - j + 1])
        BY <1>8
    <2> QED
        BY <2>1, <2>2
<1> DEFINE OnWay(i) == /\ p[i] \in Tables /\ p[i] \in near[d - i + 1]
                       /\ \A m \in Hops : m + i <= d => p[i] \notin near[m]
           Off == {i \in 1 .. d + 1 : ~OnWay(i)}
           Follows(i) == /\ p[i + 1] \in Neighbors(g, p[i]) /\ p[i + 1] \in near[d - i]
                         /\ \A n \in Neighbors(g, p[i]) : n \in near[d - i] => p[i + 1] <= n
<1>11. ASSUME NEW i \in 1 .. d, OnWay(i)
       PROVE  Follows(i)
    <2>1. PICK m \in Hops : m = d - i /\ m + 1 \in Hops /\ m + 1 = d - i + 1 /\ m + i <= d
        BY <1>1, <1>7, TablesCounted
    <2>2. p[i] \in near[m + 1] /\ p[i] \notin near[m]
        BY <1>11, <2>1
    <2>3. \E v \in Neighbors(g, p[i]) : v \in near[m]
        BY <1>5, <2>1, <2>2
    <2> DEFINE S == Neighbors(g, p[i]) \cap near[d - i]
    <2>4. S \in SUBSET Nat /\ S # {}
        BY <2>1, <2>3, TablesAssumption DEF Neighbors
    <2>5. p[i + 1] = Min(S)
        BY <1>10
    <2>6. Min(S) \in S /\ \A n \in S : Min(S) <= n
        <3> HIDE DEF S
        <3> QED
            BY <2>4, LeastIsMin
    <2> QED
        BY <2>5, <2>6
<1>12. ASSUME Off # {} PROVE FALSE
    <2>1. PICK i \in Off : \A j \in Off : i <= j
        <3>1. Off \in SUBSET Nat
            BY <1>1
        <3> HIDE DEF Off
        <3> QED
            BY <1>12, <3>1, LeastNumber
    <2>2. i \in 1 .. d + 1 /\ ~OnWay(i)
        BY <2>1
    <2>3. CASE i = 1
        <3>1. p[i] = a /\ d - i + 1 = d
            BY <1>1, <1>9, <2>3
        <3>2. \A m \in Hops : m + i <= d => m < d
            BY <1>1, <2>3, TablesCounted
        <3> QED
            BY <1>1, <1>7, <2>2, <3>1, <3>2
    <2>4. CASE i # 1
        <3>1. PICK j \in 1 .. d : j + 1 = i /\ j \notin Off
            <4>1. i - 1 \in 1 .. d /\ i - 1 < i
                BY <1>1, <2>2, <2>4
            <4>2. i - 1 \notin Off
                BY <1>1, <2>1, <2>2, <4>1
            <4> QED
                BY <1>1, <2>2, <4>1, <4>2
        <3>2. OnWay(j) /\ j \in 1 .. d + 1
            BY <1>1, <3>1
        <3>3. Follows(j)
            BY <1>11, <3>2
        <3>4. p[i] \in Tables /\ p[i] \in Neighbors(g, p[j]) /\ p[i] \in near[d - j] /\ d - j = d - i + 1
            <4>1. d - j = d - i + 1
                BY <1>1, <2>2, <3>1
            <4>2. p[i] \in Neighbors(g, p[j]) /\ p[i] \in near[d - j]
                BY <3>1, <3>3
            <4> QED
                BY <4>1, <4>2 DEF Neighbors
        <3>5. ASSUME NEW m \in Hops, m + i <= d, p[i] \in near[m]
              PROVE  FALSE
            <4>1. m + 1 \in Hops /\ (m + 1) + j <= d
                BY <1>1, <1>7, <3>1, <3>5, TablesCounted
            <4>2. p[j] \in near[m + 1]
                BY <1>6, <3>2, <3>4, <3>5, <4>1
            <4> QED
                BY <3>2, <4>1, <4>2
        <3> QED
            BY <2>2, <3>4, <3>5
    <2> QED
        BY <2>3, <2>4
<1>13. \A i \in 1 .. d + 1 : OnWay(i)
    BY <1>12
<1>14. p \in Seq(Tables) /\ Len(p) = d + 1
    <2>1. \A i \in 1 .. d + 1 : p[i] \in Tables
        BY <1>13
    <2>2. p \in [1 .. d + 1 -> Tables]
        BY <1>8, <1>9, <2>1
    <2> QED
        BY <1>1, <2>2
<1>15. p[d + 1] = b
    <2>1. d + 1 \in 1 .. d + 1 /\ d - (d + 1) + 1 = 0
        BY <1>1
    <2>2. p[d + 1] \in near[d - (d + 1) + 1]
        BY <1>13, <2>1
    <2> QED
        BY <1>4, <2>1, <2>2
<1>16. \A i \in 1 .. d : Follows(i)
    <2>1. \A i \in 1 .. d : i \in 1 .. d + 1
        BY <1>1
    <2> QED
        BY <1>11, <1>13, <2>1
<1> QED
    BY <1>9, <1>14, <1>15, <1>16 DEF FirstWay

-----------------------------------------------------------------------------
(* The search: its inductive invariant.                                      *)

Near == Within(links, Tables, To)
Dist == Distance(Near, From, MaxDepth)
Route == ShortestPath(links, From, To, MaxDepth)

\* A path of n tables that ends in t is no shortcut.
Far(t, n) == \A m \in Hops : m + n <= Dist /\ m + n <= Cardinality(Tables) + 1 => t \notin Near[m]

\* A path of n tables that ends in t is not the beginning of a shortest one.
Astray(t, n) == \A m \in Hops : m + n = Dist + 1 => t \notin Near[m]

SearchTyped ==
    /\ links \in SUBSET AllLinks /\ ends \in Tables \X Tables \X Bounds
    /\ queue \in Seq(Seq(Tables)) /\ path \in Seq(Tables)
    /\ visited \in SUBSET Tables /\ found \in BOOLEAN

\* The queue holds paths to visited tables, level after level, none of them a shortcut.
QueueInOrder ==
    /\ From \in visited /\ To \notin visited
    /\ \A i \in 1 .. Len(queue) :
          /\ Len(queue[i]) >= 1 /\ Len(queue[i]) <= MaxDepth
          /\ Len(queue[i]) <= Cardinality(visited) /\ Last(queue[i]) \in visited
          /\ Len(queue[i]) <= Len(queue[1]) + 1
          /\ Far(Last(queue[i]), Len(queue[i]))
    /\ \A i, j \in 1 .. Len(queue) : i <= j => Len(queue[i]) <= Len(queue[j])

\* What has left the queue was no shortcut either.
Behind ==
    \A t \in visited :
        \/ \E i \in 1 .. Len(queue) : t = Last(queue[i])
        \/ queue # <<>> => Far(t, Len(queue[1]))

\* The queue's i-th path is the beginning of the first shortest path, and no other shortest
\* path is ahead of it on its level, or on the next one.
OnRoute(i) ==
    /\ Len(queue[i]) <= Dist
    /\ \A n \in 1 .. Len(queue[i]) : queue[i][n] = Route[n]
    /\ \A j \in 1 .. Len(queue) :
          Len(queue[j]) = Len(queue[i]) + 1 \/ (j < i /\ Len(queue[j]) = Len(queue[i]))
             => Astray(Last(queue[j]), Len(queue[j]))

RouteAhead == Dist <= MaxDepth => \E i \in 1 .. Len(queue) : OnRoute(i)

SearchIInv ==
    /\ SearchTyped
    /\ IF found THEN path = Route ELSE path = <<>>
    /\ ~found /\ From = To => queue = <<<<From>>>>
    /\ ~found /\ From # To => QueueInOrder /\ Behind /\ RouteAhead

LEMMA EndsTyped ==
    ASSUME SearchTyped
    PROVE  /\ From \in Tables /\ To \in Tables /\ MaxDepth \in Nat /\ MaxDepth >= 1
           /\ Cardinality(Tables) \in Nat /\ Hops = 0 .. Cardinality(Tables)
<1>1. PICK a \in Tables, b \in Tables, m \in Bounds : ends = <<a, b, m>>
    BY DEF SearchTyped
<1>2. From = a /\ To = b /\ MaxDepth = m
    BY <1>1 DEF From, To, MaxDepth
<1>3. m \in Nat /\ m # 0
    BY BoundsAssumption
<1> QED
    BY <1>2, <1>3, TablesCounted

LEMMA NearGrows ==
    ASSUME SearchTyped, NEW m \in Hops, m + 1 \in Hops, NEW u \in Tables, NEW v \in Neighbors(links, u), v \in Near[m]
    PROVE  u \in Near[m + 1]
<1>1. v \in Tables
    BY DEF Neighbors
<1>2. \A x, y \in Tables : y \in Neighbors(links, x) /\ y \in Near[m] => x \in Near[m + 1]
    BY WithinGrows DEF Near
<1> QED
    BY <1>1, <1>2

LEMMA NearGoal ==
    Near[0] = {To}
    BY WithinSteps DEF Near

LEMMA DistFacts ==
    ASSUME SearchTyped
    PROVE  /\ Dist \in Nat /\ Dist <= MaxDepth + 1
           /\ \A m \in Hops : m < Dist => From \notin Near[m]
           /\ Dist <= MaxDepth => Dist \in Hops /\ From \in Near[Dist]
<1>1. MaxDepth \in Nat
    BY EndsTyped
<1> QED
    BY <1>1, DistanceIsLeast DEF Dist

LEMMA RouteFacts ==
    ASSUME SearchTyped
    PROVE  /\ Dist > MaxDepth => Route = <<>>
           /\ Dist <= MaxDepth => FirstWay(Route, links, Near, From, To, Dist)
<1>1. /\ From \in Tables /\ To \in Tables /\ MaxDepth \in Nat
    BY EndsTyped
<1>2. Dist \in Nat
    BY DistFacts
<1> QED
    BY <1>1, <1>2, FirstWayIsShortest DEF Route, Dist, Near

LEMMA SameSearch ==
    ASSUME UNCHANGED <<links, ends>>
    PROVE  /\ From' = From /\ To' = To /\ MaxDepth' = MaxDepth /\ Near' = Near /\ Dist' = Dist /\ Route' = Route
           /\ \A t, n : (Far(t, n)' <=> Far(t, n)) /\ (Astray(t, n)' <=> Astray(t, n))
<1>1. From' = From /\ To' = To /\ MaxDepth' = MaxDepth
    BY DEF From, To, MaxDepth
<1>2. Near' = Near
    BY <1>1 DEF Near
<1>3. Dist' = Dist /\ Route' = Route
    BY <1>1, <1>2 DEF Dist, Route
<1> QED
    BY <1>1, <1>2, <1>3 DEF Far, Astray

\* From a table to its neighbours, and from one level to the next.
LEMMA FarNext ==
    ASSUME SearchTyped, NEW u \in Tables, NEW v \in Neighbors(links, u), NEW n \in Nat, n >= 1
    PROVE  /\ Far(u, n) => Far(v, n + 1)
           /\ Astray(u, n) /\ Dist <= MaxDepth => Astray(v, n + 1)
<1>1. /\ Cardinality(Tables) \in Nat /\ Hops = 0 .. Cardinality(Tables) /\ Dist \in Nat
      /\ Dist <= MaxDepth => Dist \in Hops
    BY EndsTyped, DistFacts
<1>2. ASSUME Far(u, n), NEW m \in Hops, m + (n + 1) <= Dist, m + (n + 1) <= Cardinality(Tables) + 1, v \in Near[m]
      PROVE  FALSE
    <2>1. m + 1 \in Hops /\ (m + 1) + n <= Dist /\ (m + 1) + n <= Cardinality(Tables) + 1
        BY <1>1, <1>2
    <2>2. u \in Near[m + 1]
        BY <1>2, <2>1, NearGrows
    <2> QED
        BY <1>2, <2>1, <2>2 DEF Far
<1>3. ASSUME Astray(u, n), Dist <= MaxDepth, NEW m \in Hops, m + (n + 1) = Dist + 1, v \in Near[m]
      PROVE  FALSE
    <2>1. m + 1 \in Hops /\ (m + 1) + n = Dist + 1
        BY <1>1, <1>3
    <2>2. u \in Near[m + 1]
        BY <1>3, <2>1, NearGrows
    <2> QED
        BY <1>3, <2>1, <2>2 DEF Astray
<1> QED
    BY <1>2, <1>3 DEF Far, Astray

LEMMA FarLater ==
    ASSUME SearchTyped, NEW t, NEW n \in Nat, NEW k \in Nat, n <= k, Far(t, n)
    PROVE  Far(t, k)
<1>1. Cardinality(Tables) \in Nat /\ Hops = 0 .. Cardinality(Tables) /\ Dist \in Nat
    BY EndsTyped, DistFacts
<1>2. \A m \in Hops : m + k <= Dist /\ m + k <= Cardinality(Tables) + 1 =>
                     m + n <= Dist /\ m + n <= Cardinality(Tables) + 1
    BY <1>1
<1> QED
    BY <1>2 DEF Far

LEMMA SearchInitSound == SearchInit => SearchIInv
<1> SUFFICES ASSUME SearchInit PROVE SearchIInv
    OBVIOUS
<1>1. SearchTyped
    <2>1. From \in Tables
        BY DEF SearchInit, From
    <2>2. <<From>> \in Seq(Tables) /\ <<>> \in Seq(Tables)
        BY <2>1
    <2>3. <<<<From>>>> \in Seq(Seq(Tables))
        BY <2>2
    <2> QED
        BY <2>1, <2>2, <2>3 DEF SearchInit, SearchTyped
<1>2. /\ From \in Tables /\ MaxDepth \in Nat /\ MaxDepth >= 1 /\ Hops = 0 .. Cardinality(Tables)
      /\ Cardinality(Tables) \in Nat
    BY <1>1, EndsTyped
<1>3. ~found /\ path = <<>> /\ visited = {From} /\ queue = <<<<From>>>>
    BY DEF SearchInit
<1>4. Len(queue) = 1 /\ queue[1] = <<From>> /\ Len(queue[1]) = 1 /\ Last(queue[1]) = From /\ queue[1][1] = From
    BY <1>3 DEF Last
<1> HIDE DEF From
<1>5. Far(From, 1)
    <2>1. \A m \in Hops : m + 1 <= Dist => m < Dist
        BY <1>1, <1>2, DistFacts
    <2> QED
        BY <1>1, <2>1, DistFacts DEF Far
<1>6. ASSUME From # To PROVE QueueInOrder
    <2>1. Cardinality(visited) = 1
        BY <1>3, FS_Singleton
    <2>2. From \in visited /\ To \notin visited
        BY <1>3, <1>6
    <2>3. \A i \in 1 .. Len(queue) : i = 1
        BY <1>4
    <2>4. 1 <= MaxDepth /\ 1 <= Cardinality(visited) /\ 1 >= 1 /\ 1 <= 1 + 1
        BY <1>2, <2>1
    <2>5. \A i, j \in 1 .. Len(queue) : i <= j => Len(queue[i]) <= Len(queue[j])
        BY <1>4, <2>3
    <2> HIDE DEF Last
    <2> QED
        BY <1>4, <1>5, <2>2, <2>3, <2>4, <2>5 DEF QueueInOrder
<1>7. Behind
    BY <1>3, <1>4 DEF Behind
<1>8. ASSUME From # To PROVE RouteAhead
    <2> SUFFICES ASSUME Dist <= MaxDepth PROVE OnRoute(1)
        BY <1>4 DEF RouteAhead
    <2>1. Dist \in Nat /\ From \in Near[Dist] /\ Near[0] = {To}
        BY <1>1, DistFacts, NearGoal
    <2>2. Dist >= 1
        BY <1>8, <2>1
    <2>3. Route[1] = From
        BY <1>1, RouteFacts DEF FirstWay
    <2> QED
        <3>1. Len(queue[1]) <= Dist
            BY <1>4, <2>2
        <3>2. \A n \in 1 .. Len(queue[1]) : queue[1][n] = Route[n]
            BY <1>4, <2>3
        <3>3. \A j \in 1 .. Len(queue) : j = 1
            BY <1>4
        <3>4. Len(queue[1]) # Len(queue[1]) + 1
            BY <1>4
        <3> QED
            BY <3>1, <3>2, <3>3, <3>4 DEF OnRoute
<1> QED
    BY <1>1, <1>3, <1>6, <1>7, <1>8 DEF SearchIInv

LEMMA SameTableSound == ASSUME SearchIInv, SameTable PROVE SearchIInv'
<1>1. SearchTyped /\ From = To /\ path' = <<From>> /\ found'
    BY DEF SearchIInv, SameTable
<1>2. /\ From \in Tables /\ MaxDepth \in Nat /\ MaxDepth >= 1
    BY <1>1, EndsTyped
<1>3. Dist = 0
    <2>1. 0 \in Hops /\ From \in Near[0]
        BY <1>1, EndsTyped, NearGoal
    <2>2. Dist \in Nat /\ ~(0 < Dist)
        BY <1>1, <2>1, DistFacts
    <2> QED
        BY <2>2
<1>4. Route = <<From>>
    <2>1. Route \in Seq(Tables) /\ Len(Route) = 0 + 1 /\ Route[1] = From
        BY <1>1, <1>2, <1>3, RouteFacts DEF FirstWay
    <2>2. Len(Route) = 1
        BY <2>1
    <2> QED
        BY <2>1, <2>2
<1>5. SearchTyped'
    <2>1. path' \in Seq(Tables)
        BY <1>1, <1>2
    <2> QED
        BY <1>1, <2>1 DEF SearchTyped, SameTable
<1> QED
    BY <1>1, <1>4, <1>5, SameSearch DEF SearchIInv, SameTable

LEMMA GiveUpSound == ASSUME SearchIInv, GiveUp PROVE SearchIInv'
<1>1. SearchTyped /\ ~found /\ queue = <<>> /\ path = <<>> /\ found' /\ path' = path
    BY DEF SearchIInv, GiveUp
<1>2. From # To
    BY <1>1 DEF SearchIInv
<1>3. Dist > MaxDepth
    <2>1. Dist \in Nat /\ MaxDepth \in Nat
        BY <1>1, EndsTyped, DistFacts
    <2>2. ~(Dist <= MaxDepth)
        BY <1>1, <1>2 DEF SearchIInv, RouteAhead
    <2> QED
        BY <2>1, <2>2
<1>4. Route = <<>>
    BY <1>1, <1>3, RouteFacts
<1>5. SearchTyped'
    BY <1>1 DEF SearchTyped, GiveUp
<1> QED
    BY <1>1, <1>4, <1>5, SameSearch DEF SearchIInv, GiveUp

LEMMA AppendFacts ==
    ASSUME NEW q \in Seq(Tables), NEW t \in Tables
    PROVE  /\ Append(q, t) \in Seq(Tables) /\ Len(Append(q, t)) = Len(q) + 1 /\ Last(Append(q, t)) = t
           /\ Append(q, t)[Len(q) + 1] = t
           /\ \A n \in 1 .. Len(q) : Append(q, t)[n] = q[n]
    BY DEF Last

\* The path at the head of the queue.
LEMMA HeadFacts ==
    ASSUME SearchIInv, ~found, From # To, queue # <<>>
    PROVE  /\ Len(queue) \in Nat /\ Len(queue) >= 1 /\ Head(queue) = queue[1]
           /\ queue[1] \in Seq(Tables) /\ Len(queue[1]) \in Nat /\ Len(queue[1]) >= 1 /\ Last(queue[1]) \in Tables
           /\ Len(queue[1]) <= MaxDepth /\ Len(queue[1]) <= Cardinality(visited)
           /\ Cardinality(visited) \in Nat /\ IsFiniteSet(visited)
           /\ Cardinality(visited) <= Cardinality(Tables) /\ Cardinality(Tables) \in Nat
           /\ Far(Last(queue[1]), Len(queue[1])) /\ To \notin visited
           /\ MaxDepth \in Nat /\ Dist \in Nat /\ Hops = 0 .. Cardinality(Tables)
<1>1. SearchTyped /\ QueueInOrder
    BY DEF SearchIInv
<1>2. queue \in Seq(Seq(Tables))
    BY <1>1 DEF SearchTyped
<1>3. Len(queue) \in Nat /\ Len(queue) >= 1 /\ Head(queue) = queue[1] /\ queue[1] \in Seq(Tables)
    BY <1>2
<1>4. 1 \in 1 .. Len(queue)
    BY <1>3
<1>5. /\ Len(queue[1]) >= 1 /\ Len(queue[1]) <= MaxDepth /\ Len(queue[1]) <= Cardinality(visited)
      /\ Last(queue[1]) \in visited /\ Far(Last(queue[1]), Len(queue[1])) /\ To \notin visited
    BY <1>1, <1>4 DEF QueueInOrder
<1>6. visited \subseteq Tables
    BY <1>1 DEF SearchTyped
<1>7. IsFiniteSet(visited) /\ Cardinality(visited) <= Cardinality(Tables)
    BY <1>6, TablesAssumption, FS_Subset
<1>8. Cardinality(visited) \in Nat
    BY <1>7, FS_CardinalityType
<1>9. Len(queue[1]) \in Nat
    BY <1>3
<1> QED
    BY <1>1, <1>3, <1>5, <1>6, <1>7, <1>8, <1>9, EndsTyped, DistFacts

LEMMA ReachGoalSound == ASSUME SearchIInv, ReachGoal PROVE SearchIInv'
<1> DEFINE q == queue[1]
           u == Last(q)
           n == Len(q)
<1>1. SearchTyped /\ ~found /\ From # To /\ queue # <<>>
    BY DEF SearchIInv, ReachGoal
<1>2. /\ Len(queue) \in Nat /\ Len(queue) >= 1 /\ Head(queue) = q
      /\ q \in Seq(Tables) /\ n \in Nat /\ n >= 1 /\ u \in Tables
      /\ n <= MaxDepth /\ n <= Cardinality(Tables) /\ Far(u, n)
      /\ MaxDepth \in Nat /\ Dist \in Nat /\ Hops = 0 .. Cardinality(Tables) /\ Cardinality(Tables) \in Nat
    BY <1>1, HeadFacts
<1>3. To \in Neighbors(links, u) /\ path' = Append(q, To) /\ found'
    BY <1>2 DEF ReachGoal, New
<1> HIDE DEF q, u, n
<1>4. 0 \in Hops /\ 0 + 1 \in Hops /\ 1 \in Hops
    BY <1>2
<1>5. u \in Near[1]
    <2>1. u \in Near[0 + 1]
        BY <1>1, <1>2, <1>3, <1>4, NearGrows, NearGoal
    <2> QED
        BY <2>1
<1>6. n >= Dist
    <2>1. ~(1 + n <= Dist /\ 1 + n <= Cardinality(Tables) + 1)
        BY <1>2, <1>4, <1>5 DEF Far
    <2> QED
        BY <1>2, <2>1
<1>7. Dist <= MaxDepth
    BY <1>2, <1>6
<1>8. PICK i \in 1 .. Len(queue) : OnRoute(i)
    BY <1>1, <1>7 DEF SearchIInv, RouteAhead
<1>9. Len(queue[i]) \in Nat /\ Len(queue[i]) <= Dist /\ n <= Len(queue[i])
    <2>1. Len(queue[1]) <= Len(queue[i])
        <3>1. 1 \in 1 .. Len(queue) /\ 1 <= i
            BY <1>2
        <3> QED
            BY <1>1, <3>1 DEF SearchIInv, QueueInOrder
    <2>2. queue[i] \in Seq(Tables)
        BY <1>1 DEF SearchTyped
    <2> QED
        BY <1>8, <2>1, <2>2 DEF OnRoute, n, q
<1>10. n = Dist /\ Len(queue[i]) = n
    BY <1>2, <1>6, <1>9
<1>11. i = 1
    <2>1. ASSUME i # 1 PROVE FALSE
        <3>1. 1 \in 1 .. Len(queue) /\ 1 < i /\ Len(queue[1]) = Len(queue[i])
            BY <1>2, <1>10, <2>1 DEF n, q
        <3>2. Astray(Last(queue[1]), Len(queue[1]))
            BY <1>8, <3>1 DEF OnRoute
        <3>3. 1 + n = Dist + 1
            BY <1>2, <1>10
        <3> QED
            BY <1>4, <1>5, <3>2, <3>3 DEF Astray, u, n, q
    <2> QED
        BY <2>1
<1>12. \A j \in 1 .. n : q[j] = Route[j]
    BY <1>8, <1>10, <1>11 DEF OnRoute, q, n
<1>13. To \in Tables
    BY <1>1, EndsTyped
<1>14. path' = Route
    <2>1. Route \in Seq(Tables) /\ Len(Route) = n + 1 /\ Route[n + 1] = To
        BY <1>1, <1>7, <1>10, RouteFacts DEF FirstWay
    <2> DEFINE p == Append(q, To)
    <2>2. p \in Seq(Tables) /\ Len(p) = n + 1 /\ p[n + 1] = To /\ \A j \in 1 .. n : p[j] = q[j]
        BY <1>2, <1>13, AppendFacts DEF n
    <2> HIDE DEF p
    <2>3. \A j \in 1 .. Len(p) : p[j] = Route[j]
        <3>1. \A j \in 1 .. Len(p) : j \in 1 .. n \/ j = n + 1
            BY <1>2, <2>2
        <3> QED
            BY <1>12, <2>1, <2>2, <3>1
    <2>4. p = Route
        BY <2>1, <2>2, <2>3, SeqEqual
    <2> QED
        BY <1>3, <2>4 DEF p
<1>15. SearchTyped'
    <2>1. path' \in Seq(Tables)
        BY <1>2, <1>3, <1>13, AppendFacts
    <2> QED
        BY <1>1, <1>3, <2>1 DEF SearchTyped, ReachGoal
<1> QED
    BY <1>3, <1>14, <1>15, SameSearch DEF SearchIInv, ReachGoal

Fresh == IF Len(queue[1]) < MaxDepth THEN New(Last(queue[1])) ELSE {}

\* The queue after a visit.
LEMMA VisitQueue ==
    ASSUME SearchIInv, Visit
    PROVE  /\ visited' = visited \cup Fresh /\ Fresh \in SUBSET Tables /\ Cardinality(Fresh) \in Nat
           /\ IsFiniteSet(Fresh)
           /\ queue' \in Seq(Seq(Tables)) /\ Len(queue') = Len(queue) - 1 + Cardinality(Fresh)
           /\ \A i \in 1 .. Len(queue) - 1 : queue'[i] = queue[i + 1]
           /\ \E names \in ByName(Fresh) : \A x \in 1 .. Cardinality(Fresh) :
                 queue'[Len(queue) - 1 + x] = Append(queue[1], names[x])
<1> DEFINE q == queue[1]
           k == Cardinality(Fresh)
<1>1. SearchTyped /\ ~found /\ From # To /\ queue # <<>> /\ queue \in Seq(Seq(Tables))
    BY DEF SearchIInv, Visit, SearchTyped
<1>2. Len(queue) \in Nat /\ Len(queue) >= 1 /\ Head(queue) = q /\ q \in Seq(Tables)
    BY <1>1, HeadFacts
<1>3. visited' = visited \cup Fresh
    BY <1>2 DEF Visit, Fresh
<1>4. PICK names \in ByName(Fresh) : queue' = Tail(queue) \o [i \in 1 .. k |-> Append(q, names[i])]
    BY <1>2 DEF Visit, Fresh
<1>5. Fresh \in SUBSET Tables
    BY DEF Fresh, New, Neighbors
<1>6. k \in Nat /\ IsFiniteSet(Fresh)
    BY <1>5, TablesAssumption, FS_Subset, FS_CardinalityType
<1>7. names \in [1 .. k -> Fresh]
    BY DEF ByName
<1> HIDE DEF k, q, Fresh
<1> DEFINE kids == [i \in 1 .. k |-> Append(q, names[i])]
           rest == Tail(queue)
<1>8. \A i \in 1 .. k : Append(q, names[i]) \in Seq(Tables)
    BY <1>2, <1>5, <1>7, AppendFacts
<1>9. kids \in Seq(Seq(Tables)) /\ Len(kids) = k /\ \A i \in 1 .. k : kids[i] = Append(q, names[i])
    <2>1. kids \in [1 .. k -> Seq(Tables)]
        BY <1>8
    <2>2. Len(kids) = k
        BY <1>6
    <2> QED
        BY <1>6, <2>1, <2>2
<1>10. /\ rest \in Seq(Seq(Tables)) /\ Len(rest) = Len(queue) - 1
       /\ \A i \in 1 .. Len(queue) - 1 : rest[i] = queue[i + 1]
    BY <1>1, <1>2
<1>11. queue' = rest \o kids
    BY <1>4
<1> HIDE DEF kids, rest
<1>12. queue' \in Seq(Seq(Tables)) /\ Len(queue') = Len(queue) - 1 + k
    BY <1>6, <1>9, <1>10, <1>11
<1>13. \A i \in 1 .. Len(queue) - 1 : queue'[i] = queue[i + 1]
    BY <1>6, <1>9, <1>10, <1>11
<1>14. \A x \in 1 .. k : queue'[Len(queue) - 1 + x] = Append(q, names[x])
    <2> TAKE x \in 1 .. k
    <2> DEFINE r == Len(rest)
    <2>0. r \in Nat /\ r = Len(queue) - 1
        BY <1>2, <1>10
    <2>a. \A i \in 1 .. r + Len(kids) : (rest \o kids)[i] = IF i <= r THEN rest[i] ELSE kids[i - r]
        BY <1>9, <1>10, ConcatProperties
    <2> HIDE DEF r
    <2>b. r \in Nat /\ k \in Nat /\ x \in Nat /\ 1 <= x /\ x <= k
        BY <1>6, <2>0
    <2>c. r + x \in 1 .. r + k /\ ~(r + x <= r) /\ (r + x) - r = x
        BY <2>b
    <2>1. PICK j \in 1 .. r + k : j = r + x /\ ~(j <= r) /\ j - r = x
        BY <2>c
    <2>2. (rest \o kids)[j] = kids[j - r]
        BY <1>9, <2>a, <2>1
    <2>3. queue'[j] = kids[x]
        BY <1>11, <2>1, <2>2
    <2> QED
        BY <1>9, <2>0, <2>1, <2>3
<1> QED
    BY <1>3, <1>5, <1>6, <1>12, <1>13, <1>14 DEF k, q

LEMMA VisitCases ==
    ASSUME SearchIInv, Visit
    PROVE  /\ \A i \in 1 .. Len(queue') :
                 \/ i < Len(queue) /\ i + 1 \in 1 .. Len(queue) /\ queue'[i] = queue[i + 1]
                 \/ i >= Len(queue) /\ Last(queue'[i]) \in Fresh /\ Len(queue'[i]) = Len(queue[1]) + 1
           /\ \A t \in Fresh : \E i \in 1 .. Len(queue') :
                 /\ i >= Len(queue) /\ Last(queue'[i]) = t /\ Len(queue'[i]) = Len(queue[1]) + 1
                 /\ queue'[i][Len(queue[1]) + 1] = t
                 /\ \A y \in 1 .. Len(queue[1]) : queue'[i][y] = queue[1][y]
                 /\ \A j \in 1 .. Len(queue') : j >= Len(queue) /\ j < i => Last(queue'[j]) < t
<1> DEFINE n == Len(queue)
           k == Cardinality(Fresh)
           q == queue[1]
<1>1. n \in Nat /\ n >= 1 /\ q \in Seq(Tables)
    BY HeadFacts DEF Visit
<1>2. /\ Fresh \in SUBSET Tables /\ k \in Nat /\ Len(queue') = n - 1 + k
      /\ \A i \in 1 .. n - 1 : queue'[i] = queue[i + 1]
    BY VisitQueue
<1>3. PICK names \in ByName(Fresh) : \A x \in 1 .. k : queue'[n - 1 + x] = Append(q, names[x])
    BY VisitQueue
<1>4. /\ names \in [1 .. k -> Fresh]
      /\ \A t \in Fresh : \E x \in 1 .. k : names[x] = t
      /\ \A x, y \in 1 .. k : x < y => names[x] < names[y]
    <2>1. names \in [1 .. k -> Fresh]
        BY DEF ByName
    <2>2. DOMAIN names = 1 .. k
        BY <2>1
    <2> QED
        BY <2>1, <2>2 DEF ByName
<1> HIDE DEF n, k, q, Fresh
<1>5. ASSUME NEW x \in 1 .. k, NEW i, i = n - 1 + x
      PROVE  /\ i \in 1 .. Len(queue') /\ i >= n
             /\ Last(queue'[i]) = names[x] /\ Len(queue'[i]) = Len(q) + 1
             /\ queue'[i][Len(q) + 1] = names[x]
             /\ \A y \in 1 .. Len(q) : queue'[i][y] = q[y]
    <2>1. names[x] \in Tables /\ queue'[i] = Append(q, names[x])
        BY <1>2, <1>3, <1>4, <1>5
    <2>2. i \in 1 .. Len(queue') /\ i >= n
        BY <1>1, <1>2, <1>5
    <2> QED
        BY <1>1, <2>1, <2>2, AppendFacts
<1>6. ASSUME NEW i \in 1 .. Len(queue'), i >= n
      PROVE  \E x \in 1 .. k : i = n - 1 + x
    <2>1. i - n + 1 \in 1 .. k /\ i = n - 1 + (i - n + 1)
        BY <1>1, <1>2, <1>6
    <2> QED
        BY <2>1
<1>7. ASSUME NEW i \in 1 .. Len(queue')
      PROVE  \/ i < n /\ i + 1 \in 1 .. n /\ queue'[i] = queue[i + 1]
             \/ i >= n /\ Last(queue'[i]) \in Fresh /\ Len(queue'[i]) = Len(q) + 1
    <2>1. CASE i < n
        <3>1. i \in 1 .. n - 1 /\ i + 1 \in 1 .. n
            BY <1>1, <1>2, <2>1
        <3> QED
            BY <1>2, <2>1, <3>1
    <2>2. CASE i >= n
        <3>1. PICK x \in 1 .. k : i = n - 1 + x
            BY <1>6, <2>2
        <3>2. names[x] \in Fresh
            BY <1>4
        <3> QED
            BY <1>5, <2>2, <3>1, <3>2
    <2> QED
        BY <1>1, <1>2, <2>1, <2>2
<1>8. ASSUME NEW t \in Fresh
      PROVE  \E i \in 1 .. Len(queue') :
                 /\ i >= n /\ Last(queue'[i]) = t /\ Len(queue'[i]) = Len(q) + 1
                 /\ queue'[i][Len(q) + 1] = t
                 /\ \A y \in 1 .. Len(q) : queue'[i][y] = q[y]
                 /\ \A j \in 1 .. Len(queue') : j >= n /\ j < i => Last(queue'[j]) < t
    <2>1. PICK x \in 1 .. k : names[x] = t
        BY <1>4
    <2> DEFINE i == n - 1 + x
    <2>2. /\ i \in 1 .. Len(queue') /\ i >= n /\ Last(queue'[i]) = t /\ Len(queue'[i]) = Len(q) + 1
          /\ queue'[i][Len(q) + 1] = t
          /\ \A y \in 1 .. Len(q) : queue'[i][y] = q[y]
        BY <1>5, <2>1
    <2>3. ASSUME NEW j \in 1 .. Len(queue'), j >= n, j < i
          PROVE  Last(queue'[j]) < t
        <3>1. PICK y \in 1 .. k : j = n - 1 + y
            BY <1>6, <2>3
        <3>2. y < x
            BY <1>1, <1>2, <2>3, <3>1
        <3>3. names[y] < names[x]
            BY <1>4, <3>2
        <3> QED
            BY <1>5, <2>1, <3>1, <3>3
    <2> HIDE DEF i
    <2> QED
        BY <2>2, <2>3
<1> QED
    BY <1>7, <1>8 DEF n, q

LEMMA VisitSound == ASSUME SearchIInv, Visit PROVE SearchIInv'
<1> DEFINE n == Len(queue)
           q == queue[1]
           L == Len(q)
           u == Last(q)
<1>1. /\ SearchTyped /\ QueueInOrder /\ Behind /\ RouteAhead /\ ~found /\ From # To /\ queue # <<>> /\ path = <<>>
      /\ links' = links /\ ends' = ends /\ path' = path /\ found' = found
    BY DEF SearchIInv, Visit
<1>2. /\ n \in Nat /\ n >= 1 /\ Head(queue) = q
      /\ q \in Seq(Tables) /\ L \in Nat /\ L >= 1 /\ u \in Tables
      /\ L <= MaxDepth /\ L <= Cardinality(visited) /\ L <= Cardinality(Tables) /\ Far(u, L) /\ To \notin visited
      /\ Cardinality(visited) \in Nat /\ IsFiniteSet(visited)
      /\ MaxDepth \in Nat /\ Dist \in Nat /\ Hops = 0 .. Cardinality(Tables) /\ Cardinality(Tables) \in Nat
    BY <1>1, HeadFacts
<1>3. To \notin New(u) /\ Fresh = IF L < MaxDepth THEN New(u) ELSE {}
    BY <1>2 DEF Visit, Fresh
<1>4. /\ visited' = visited \cup Fresh /\ Fresh \in SUBSET Tables /\ IsFiniteSet(Fresh)
      /\ queue' \in Seq(Seq(Tables)) /\ Len(queue') \in Nat
    BY <1>2, VisitQueue
<1>5. /\ \A i \in 1 .. Len(queue') :
            \/ i < n /\ i + 1 \in 1 .. n /\ queue'[i] = queue[i + 1]
            \/ i >= n /\ Last(queue'[i]) \in Fresh /\ Len(queue'[i]) = L + 1
      /\ \A t \in Fresh : \E i \in 1 .. Len(queue') :
            /\ i >= n /\ Last(queue'[i]) = t /\ Len(queue'[i]) = L + 1
            /\ queue'[i][L + 1] = t
            /\ \A y \in 1 .. L : queue'[i][y] = q[y]
            /\ \A j \in 1 .. Len(queue') : j >= n /\ j < i => Last(queue'[j]) < t
    BY VisitCases
<1>6. \A i \in 1 .. n - 1 : i \in 1 .. Len(queue') /\ queue'[i] = queue[i + 1]
    <2>1. Len(queue') = n - 1 + Cardinality(Fresh) /\ Cardinality(Fresh) \in Nat
          /\ \A i \in 1 .. n - 1 : queue'[i] = queue[i + 1]
        BY VisitQueue
    <2> HIDE DEF n
    <2> QED
        BY <1>2, <2>1
<1>7. \A i \in 1 .. n : /\ Len(queue[i]) \in Nat /\ Len(queue[i]) >= L /\ Len(queue[i]) <= L + 1
                        /\ Len(queue[i]) >= 1 /\ Len(queue[i]) <= MaxDepth
                        /\ Len(queue[i]) <= Cardinality(visited) /\ Last(queue[i]) \in visited
                        /\ Far(Last(queue[i]), Len(queue[i]))
    <2> TAKE i \in 1 .. n
    <2>1. 1 \in 1 .. n /\ 1 <= i
        BY <1>2
    <2>2. queue[i] \in Seq(Tables)
        BY <1>1 DEF SearchTyped
    <2> QED
        BY <1>1, <2>1, <2>2 DEF QueueInOrder
<1>8. \A i, j \in 1 .. n : i <= j => Len(queue[i]) <= Len(queue[j])
    BY <1>1 DEF QueueInOrder
<1>9. /\ From' = From /\ To' = To /\ MaxDepth' = MaxDepth /\ Near' = Near /\ Dist' = Dist /\ Route' = Route
      /\ \A t, k : (Far(t, k)' <=> Far(t, k)) /\ (Astray(t, k)' <=> Astray(t, k))
    BY <1>1, SameSearch
<1>10. \A t \in Fresh : /\ t \in Neighbors(links, u) /\ t \in Tables /\ t \notin visited /\ L < MaxDepth
                        /\ Far(t, L + 1)
    <2> TAKE t \in Fresh
    <2>1. t \in New(u) /\ L < MaxDepth
        BY <1>3
    <2>2. t \in Neighbors(links, u) /\ t \notin visited
        BY <2>1 DEF New
    <2> QED
        BY <1>1, <1>2, <1>4, <2>1, <2>2, FarNext
<1>11. SearchTyped'
    BY <1>1, <1>4 DEF SearchTyped
<1>12. \A i \in 1 .. Len(queue') : Len(queue'[i]) \in Nat /\ Len(queue'[i]) >= L /\ Len(queue'[i]) <= L + 1
    <2> TAKE i \in 1 .. Len(queue')
    <2> HIDE DEF n, L
    <2>1. CASE i < n /\ i + 1 \in 1 .. n /\ queue'[i] = queue[i + 1]
        <3>1. Len(queue[i + 1]) \in Nat /\ Len(queue[i + 1]) >= L /\ Len(queue[i + 1]) <= L + 1
            BY <1>7, <2>1
        <3> QED
            BY <2>1, <3>1
    <2>2. CASE Len(queue'[i]) = L + 1
        BY <1>2, <2>2
    <2> QED
        BY <1>5, <2>1, <2>2
<1> HIDE DEF n, q, L, u, Fresh
<1>13. Cardinality(visited) <= Cardinality(visited') /\ Cardinality(visited') \in Nat
       /\ (Fresh # {} => L + 1 <= Cardinality(visited'))
    <2>1. IsFiniteSet(visited')
        BY <1>2, <1>4, FS_Union
    <2>2. Cardinality(visited) <= Cardinality(visited') /\ Cardinality(visited') \in Nat
        BY <1>4, <2>1, FS_Subset, FS_CardinalityType
    <2>3. ASSUME NEW t \in Fresh PROVE L + 1 <= Cardinality(visited')
        <3>1. Cardinality(visited \cup {t}) = Cardinality(visited) + 1
            BY <1>2, <1>10, FS_AddElement
        <3>2. Cardinality(visited \cup {t}) <= Cardinality(visited')
            BY <1>4, <2>1, FS_Subset
        <3> QED
            BY <1>2, <2>2, <3>1, <3>2
    <2> QED
        BY <2>2, <2>3
<1>14. QueueInOrder'
    <2>1. From' \in visited' /\ To' \notin visited'
        BY <1>1, <1>2, <1>3, <1>4, <1>9 DEF QueueInOrder
    <2>2. ASSUME NEW i \in 1 .. Len(queue')
          PROVE  /\ Len(queue'[i]) >= 1 /\ Len(queue'[i]) <= MaxDepth
                 /\ Len(queue'[i]) <= Cardinality(visited') /\ Last(queue'[i]) \in visited'
                 /\ Len(queue'[i]) <= Len(queue'[1]) + 1
                 /\ Far(Last(queue'[i]), Len(queue'[i]))
        <3>1. 1 \in 1 .. Len(queue')
            BY <1>4
        <3>2. Len(queue'[i]) <= Len(queue'[1]) + 1 /\ Len(queue'[i]) >= 1
            BY <1>2, <1>12, <3>1
        <3>3. CASE i < n /\ i + 1 \in 1 .. n /\ queue'[i] = queue[i + 1]
            <4>1. /\ Len(queue[i + 1]) \in Nat /\ Len(queue[i + 1]) <= MaxDepth
                  /\ Len(queue[i + 1]) <= Cardinality(visited) /\ Last(queue[i + 1]) \in visited
                  /\ Far(Last(queue[i + 1]), Len(queue[i + 1]))
                BY <1>7, <3>3
            <4> QED
                BY <1>2, <1>4, <1>13, <3>2, <3>3, <4>1
        <3>4. CASE i >= n /\ Last(queue'[i]) \in Fresh /\ Len(queue'[i]) = L + 1
            BY <1>2, <1>4, <1>10, <1>13, <3>2, <3>4
        <3> QED
            BY <1>5, <3>3, <3>4
    <2>3. ASSUME NEW i \in 1 .. Len(queue'), NEW j \in 1 .. Len(queue'), i <= j
          PROVE  Len(queue'[i]) <= Len(queue'[j])
        <3>1. CASE j >= n
            <4>1. Len(queue'[j]) = L + 1
                BY <1>2, <1>4, <1>5, <3>1
            <4> QED
                BY <1>12, <4>1
        <3>2. CASE j < n
            <4>1. /\ i + 1 \in 1 .. n /\ queue'[i] = queue[i + 1]
                  /\ j + 1 \in 1 .. n /\ queue'[j] = queue[j + 1] /\ i + 1 <= j + 1
                BY <1>2, <1>4, <1>5, <2>3, <3>2
            <4> QED
                BY <1>8, <4>1
        <3> QED
            BY <1>2, <1>4, <3>1, <3>2
    <2> QED
        BY <1>9, <2>1, <2>2, <2>3 DEF QueueInOrder
<1>15. Behind'
    <2> SUFFICES ASSUME NEW t \in visited', queue' # <<>>, \A i \in 1 .. Len(queue') : t # Last(queue'[i])
                 PROVE  Far(t, Len(queue'[1]))
        BY <1>9 DEF Behind
    <2>1. t \in visited
        <3>1. t \notin Fresh
            BY <1>5
        <3> QED
            BY <1>4, <3>1
    <2>2. Far(t, L)
        <3>1. CASE \E i \in 1 .. n : t = Last(queue[i])
            <4>1. PICK i \in 1 .. n : t = Last(queue[i])
                BY <3>1
            <4>2. i = 1
                <5>1. ASSUME i # 1 PROVE FALSE
                    <6>1. PICK j \in 1 .. n - 1 : j + 1 = i
                        <7>1. i - 1 \in 1 .. n - 1 /\ (i - 1) + 1 = i
                            BY <1>2, <5>1
                        <7> QED
                            BY <7>1
                    <6> QED
                        BY <1>6, <4>1, <6>1
                <5> QED
                    BY <5>1
            <4> QED
                BY <1>2, <4>1, <4>2 DEF u, q
        <3>2. CASE ~ \E i \in 1 .. n : t = Last(queue[i])
            BY <1>1, <2>1, <3>2 DEF Behind, n, L, q
        <3> QED
            BY <3>1, <3>2
    <2>3. 1 \in 1 .. Len(queue')
        <3>1. Len(queue') # 0
            BY <1>4
        <3> QED
            BY <1>4, <3>1
    <2> QED
        BY <1>1, <1>2, <1>12, <2>2, <2>3, FarLater
<1>16. RouteAhead'
    <2> SUFFICES ASSUME Dist <= MaxDepth PROVE \E i \in 1 .. Len(queue') : OnRoute(i)'
        BY <1>9 DEF RouteAhead
    <2>1. PICK i \in 1 .. n : OnRoute(i)
        BY <1>1 DEF RouteAhead, n
    <2>2. CASE i # 1
        <3>1. PICK k \in 1 .. n - 1 : k + 1 = i /\ k < n
            <4>1. i - 1 \in 1 .. n - 1 /\ (i - 1) + 1 = i /\ i - 1 < n
                BY <1>2, <2>2
            <4> QED
                BY <4>1
        <3>2. k \in 1 .. Len(queue') /\ queue'[k] = queue[i]
            BY <1>6, <3>1
        <3>3. ASSUME NEW j \in 1 .. Len(queue'),
                     Len(queue'[j]) = Len(queue'[k]) + 1 \/ (j < k /\ Len(queue'[j]) = Len(queue'[k]))
              PROVE  Astray(Last(queue'[j]), Len(queue'[j]))
            <4>1. CASE j < n /\ j + 1 \in 1 .. n /\ queue'[j] = queue[j + 1]
                <5>1. j < k => j + 1 < i
                    BY <1>2, <1>4, <3>1
                <5>2. Len(queue[j + 1]) = Len(queue[i]) + 1 \/ (j + 1 < i /\ Len(queue[j + 1]) = Len(queue[i]))
                    BY <3>2, <3>3, <4>1, <5>1
                <5> QED
                    BY <2>1, <4>1, <5>2 DEF OnRoute, n
            <4>2. CASE j >= n /\ Last(queue'[j]) \in Fresh /\ Len(queue'[j]) = L + 1
                <5>1. ~(j < k)
                    BY <1>2, <1>4, <3>1, <4>2
                <5>2. Len(queue[i]) = L
                    BY <1>2, <1>7, <3>2, <3>3, <4>2, <5>1
                <5>3. 1 \in 1 .. n /\ 1 < i
                    BY <1>2, <2>2
                <5>4. Astray(u, L)
                    BY <2>1, <5>2, <5>3 DEF OnRoute, u, L, q, n
                <5>5. Astray(Last(queue'[j]), L + 1)
                    BY <1>1, <1>2, <1>10, <4>2, <5>4, FarNext
                <5> QED
                    BY <4>2, <5>5
            <4> QED
                BY <1>5, <4>1, <4>2
        <3>4. Len(queue'[k]) <= Dist /\ \A y \in 1 .. Len(queue'[k]) : queue'[k][y] = Route[y]
            BY <2>1, <3>2 DEF OnRoute
        <3> QED
            BY <1>9, <3>2, <3>3, <3>4 DEF OnRoute
    <2>3. CASE i = 1
        <3>1. /\ L <= Dist /\ \A y \in 1 .. L : q[y] = Route[y]
              /\ \A j \in 1 .. n : Len(queue[j]) = L + 1 => Astray(Last(queue[j]), L + 1)
            BY <2>1, <2>3 DEF OnRoute, L, q, n
        <3> DEFINE t == Route[L + 1]
        <3>2. L \in 1 .. Dist /\ Dist \in Hops
            BY <1>1, <1>2, <3>1, DistFacts
        <3>3. u = Route[L]
            BY <1>2, <3>1 DEF u, Last, L
        <3>4. /\ t \in Neighbors(links, u) /\ t \in Near[Dist - L]
              /\ \A s \in Neighbors(links, u) : s \in Near[Dist - L] => t <= s
              /\ Route[Dist + 1] = To
            BY <1>1, <3>2, <3>3, RouteFacts DEF FirstWay
        <3> HIDE DEF t
        <3>5. PICK m \in Hops : m = Dist - L /\ m + L = Dist /\ m + (L + 1) = Dist + 1 /\ m + L <= Cardinality(Tables) + 1
            BY <1>2, <3>2
        <3>6. ~Far(t, L) /\ ~Astray(t, L + 1)
            BY <1>2, <3>4, <3>5 DEF Far, Astray
        <3>7. t \notin visited
            <4>1. ASSUME t \in visited PROVE FALSE
                <5>1. PICK j \in 1 .. n : t = Last(queue[j])
                    BY <1>1, <3>6, <4>1 DEF Behind, n, L, q
                <5>2. Len(queue[j]) = L \/ Len(queue[j]) = L + 1
                    BY <1>2, <1>7
                <5> QED
                    BY <1>7, <3>1, <3>6, <5>1, <5>2
            <4> QED
                BY <4>1
        <3>8. t \in New(u) /\ t # To
            BY <1>3, <3>4, <3>7 DEF New
        <3>9. L < Dist
            BY <1>2, <3>1, <3>4, <3>8 DEF t
        <3>10. t \in Fresh
            BY <1>2, <1>3, <3>8, <3>9
        <3>11. PICK k \in 1 .. Len(queue') :
                  /\ k >= n /\ Last(queue'[k]) = t /\ Len(queue'[k]) = L + 1
                  /\ queue'[k][L + 1] = t
                  /\ \A y \in 1 .. L : queue'[k][y] = q[y]
                  /\ \A j \in 1 .. Len(queue') : j >= n /\ j < k => Last(queue'[j]) < t
            BY <1>5, <3>10
        <3>12. \A y \in 1 .. L + 1 : queue'[k][y] = Route[y]
            <4>1. \A y \in 1 .. L + 1 : y \in 1 .. L \/ y = L + 1
                BY <1>2
            <4> QED
                BY <3>1, <3>11, <4>1 DEF t
        <3>13. ASSUME NEW j \in 1 .. Len(queue'),
                      Len(queue'[j]) = Len(queue'[k]) + 1 \/ (j < k /\ Len(queue'[j]) = Len(queue'[k]))
               PROVE  Astray(Last(queue'[j]), Len(queue'[j]))
            <4>1. j < k /\ Len(queue'[j]) = L + 1
                BY <1>2, <1>12, <3>11, <3>13
            <4>2. CASE j < n /\ j + 1 \in 1 .. n /\ queue'[j] = queue[j + 1]
                BY <3>1, <4>1, <4>2
            <4>3. CASE j >= n /\ Last(queue'[j]) \in Fresh
                <5> DEFINE s == Last(queue'[j])
                <5>1. s \in Neighbors(links, u) /\ s < t /\ s \in Nat /\ t \in Nat
                    BY <1>4, <1>10, <3>10, <3>11, <4>1, <4>3, TablesAssumption
                <5> HIDE DEF s
                <5>2. s \notin Near[Dist - L]
                    BY <3>4, <5>1
                <5>3. \A x \in Hops : x + (L + 1) = Dist + 1 => x = Dist - L
                    BY <1>2
                <5>4. Astray(s, L + 1)
                    BY <5>2, <5>3 DEF Astray
                <5> QED
                    BY <4>1, <5>4 DEF s
            <4> QED
                BY <1>5, <4>2, <4>3
        <3>14. Len(queue'[k]) <= Dist
            BY <1>2, <3>9, <3>11
        <3> QED
            BY <1>9, <3>11, <3>12, <3>13, <3>14 DEF OnRoute
    <2> QED
        BY <2>2, <2>3
<1> QED
    BY <1>1, <1>9, <1>11, <1>14, <1>15, <1>16 DEF SearchIInv

\* findShortestJoinPath(): the inductive invariant of the breadth-first search.
THEOREM SearchInvariance == SearchSpec => []SearchIInv
<1>1. SearchIInv /\ [SearchNext]_searchVars => SearchIInv'
    <2> SUFFICES ASSUME SearchIInv, [SearchNext]_searchVars PROVE SearchIInv'
        OBVIOUS
    <2>1. CASE UNCHANGED searchVars
        <3> USE <2>1 DEF searchVars
        <3>0. /\ From' = From /\ To' = To /\ MaxDepth' = MaxDepth /\ Dist' = Dist /\ Route' = Route
              /\ \A t, n : (Far(t, n)' <=> Far(t, n)) /\ (Astray(t, n)' <=> Astray(t, n))
            BY SameSearch
        <3>1. SearchTyped'
            BY DEF SearchIInv, SearchTyped
        <3>2. QueueInOrder => QueueInOrder'
            BY <3>0 DEF QueueInOrder
        <3>3. Behind => Behind'
            BY <3>0 DEF Behind
        <3>4. \A i : OnRoute(i) => OnRoute(i)'
            BY <3>0 DEF OnRoute
        <3>5. RouteAhead => RouteAhead'
            BY <3>0, <3>4 DEF RouteAhead
        <3> QED
            BY <3>0, <3>1, <3>2, <3>3, <3>5 DEF SearchIInv
    <2> QED
        BY <2>1, SameTableSound, ReachGoalSound, VisitSound, GiveUpSound DEF SearchNext
<1> QED
    BY <1>1, SearchInitSound, PTL DEF SearchSpec

LEMMA SearchIInvIsShortest == SearchIInv => PathIsShortest
    BY DEF SearchIInv, PathIsShortest, Route

\* findShortestJoinPath(): for every schema, the path returned is the shortest within the bound,
\* the first by name of several, and none is missed.
THEOREM JoinPathIsShortest == SearchSpec => []PathIsShortest
    BY SearchInvariance, SearchIInvIsShortest, PTL

-----------------------------------------------------------------------------
(* TableRetrieval: which tables a prompt shows, after retrieval and after    *)
(* every widening.                                                           *)

\* Sorting: the table of rank i, which has i tables before it.

Rank(ts, before, t) == Cardinality({u \in ts : <<u, t>> \in before})

StrictOrder(ts, before) ==
    /\ \A a \in ts : <<a, a>> \notin before
    /\ \A a, b \in ts : a # b => <<a, b>> \in before \/ <<b, a>> \in before
    /\ \A a, b, c \in ts : <<a, b>> \in before /\ <<b, c>> \in before => <<a, c>> \in before

LEMMA RankCounts ==
    ASSUME NEW ts, IsFiniteSet(ts), NEW before, StrictOrder(ts, before)
    PROVE  /\ Cardinality(ts) \in Nat
           /\ \A t \in ts : Rank(ts, before, t) \in 0 .. Cardinality(ts) - 1
           /\ \A t, u \in ts : t # u => Rank(ts, before, t) # Rank(ts, before, u)
<1> DEFINE Earlier(t) == {u \in ts : <<u, t>> \in before}
<1>1. Cardinality(ts) \in Nat
    BY FS_CardinalityType
<1>2. \A t \in ts : t \notin Earlier(t) /\ Earlier(t) \subseteq ts
    BY DEF StrictOrder
<1>3. \A t, u \in ts : <<t, u>> \in before => Earlier(t) \subseteq Earlier(u) /\ t \in Earlier(u)
    BY DEF StrictOrder
<1>4. \A t \in ts : Rank(ts, before, t) = Cardinality(Earlier(t))
    BY DEF Rank
<1>5. \A t, u \in ts : t # u => <<t, u>> \in before \/ <<u, t>> \in before
    BY DEF StrictOrder
<1> HIDE DEF Earlier
<1>6. \A t \in ts : IsFiniteSet(Earlier(t)) /\ Cardinality(Earlier(t)) \in Nat
    BY <1>2, FS_Subset, FS_CardinalityType
<1>7. \A t \in ts : Cardinality(Earlier(t)) < Cardinality(ts)
    <2> TAKE t \in ts
    <2>1. Cardinality(Earlier(t)) <= Cardinality(ts) /\ (Cardinality(Earlier(t)) = Cardinality(ts) => Earlier(t) = ts)
        BY <1>2, FS_Subset
    <2> QED
        BY <1>1, <1>2, <1>6, <2>1
<1>8. \A t, u \in ts : <<t, u>> \in before => Cardinality(Earlier(t)) < Cardinality(Earlier(u))
    <2> TAKE t, u \in ts
    <2> HAVE <<t, u>> \in before
    <2>1. Earlier(t) \subseteq Earlier(u) /\ t \in Earlier(u) /\ t \notin Earlier(t)
        BY <1>2, <1>3
    <2>2. Cardinality(Earlier(t)) <= Cardinality(Earlier(u))
          /\ (Cardinality(Earlier(t)) = Cardinality(Earlier(u)) => Earlier(t) = Earlier(u))
        BY <1>6, <2>1, FS_Subset
    <2> QED
        BY <1>6, <2>1, <2>2
<1>9. \A t \in ts : Cardinality(Earlier(t)) \in 0 .. Cardinality(ts) - 1
    BY <1>1, <1>6, <1>7
<1>10. \A t, u \in ts : t # u => Cardinality(Earlier(t)) # Cardinality(Earlier(u))
    <2> TAKE t, u \in ts
    <2> HAVE t # u
    <2>1. CASE <<t, u>> \in before
        BY <1>6, <1>8, <2>1
    <2>2. CASE <<u, t>> \in before
        BY <1>6, <1>8, <2>2
    <2> QED
        BY <1>5, <2>1, <2>2
<1> QED
    BY <1>1, <1>4, <1>9, <1>10

\* The sequence has every table once.
LEMMA InOrderListsAll ==
    ASSUME NEW ts, IsFiniteSet(ts), NEW before, StrictOrder(ts, before)
    PROVE  /\ InOrder(ts, before) \in Seq(ts)
           /\ Len(InOrder(ts, before)) = Cardinality(ts)
           /\ \A t \in ts : \E i \in 1 .. Cardinality(ts) : InOrder(ts, before)[i] = t
<1> DEFINE n == Cardinality(ts)
           rank == [t \in ts |-> Rank(ts, before, t)]
           s == InOrder(ts, before)
<1>1. /\ n \in Nat
      /\ \A t \in ts : Rank(ts, before, t) \in 0 .. n - 1
      /\ \A t, u \in ts : Rank(ts, before, t) = Rank(ts, before, u) => t = u
    BY RankCounts
<1>2. IsFiniteSet(0 .. n - 1) /\ Cardinality(0 .. n - 1) = n
    BY <1>1, FS_Interval
<1>3. rank \in Injection(ts, 0 .. n - 1)
    BY <1>1 DEF Injection, IsInjective
<1>4. rank \in Surjection(ts, 0 .. n - 1)
    <2> HIDE DEF rank
    <2> QED
        BY <1>2, <1>3, FS_Injection
<1>5. \A i \in 1 .. n : \E t \in ts : Rank(ts, before, t) = i - 1
    <2> TAKE i \in 1 .. n
    <2>1. i - 1 \in 0 .. n - 1
        BY <1>1
    <2> QED
        BY <1>4, <2>1 DEF Surjection
<1>6. \A i \in 1 .. n : s[i] \in ts /\ Rank(ts, before, s[i]) = i - 1
    BY <1>5 DEF InOrder, Rank
<1>7. s = [i \in 1 .. n |-> s[i]]
    <2> DEFINE Chosen(i) == CHOOSE t \in ts : Cardinality({u \in ts : <<u, t>> \in before}) = i - 1
    <2>1. s = [i \in 1 .. n |-> Chosen(i)]
        BY DEF InOrder
    <2> HIDE DEF s, n, Chosen
    <2> QED
        BY <2>1
<1>8. s \in Seq(ts) /\ Len(s) = n
    <2> HIDE DEF s
    <2>1. s \in [1 .. n -> ts]
        BY <1>6, <1>7
    <2> QED
        BY <1>1, <2>1
<1>9. \A t \in ts : \E i \in 1 .. n : s[i] = t
    <2> TAKE t \in ts
    <2>1. PICK i \in 1 .. n : i = Rank(ts, before, t) + 1
        BY <1>1
    <2>2. s[i] \in ts /\ Rank(ts, before, s[i]) = Rank(ts, before, t)
        BY <1>1, <1>6, <2>1
    <2> QED
        BY <1>1, <2>2
<1> QED
    BY <1>8, <1>9

-----------------------------------------------------------------------------
(* Links inside a set of tables.                                             *)

\* An argument by induction on the hops: what holds of none holds of the least that lacks it.
LEMMA LeastLacking ==
    ASSUME NEW Lacking \in SUBSET Hops, 0 \notin Lacking, Lacking # {}
    PROVE  \E m \in Hops : m + 1 \in Lacking /\ m \notin Lacking
<1>1. Lacking \in SUBSET Nat
    BY TablesCounted
<1>2. PICK k \in Lacking : \A n \in Lacking : k <= n
    BY <1>1, LeastNumber
<1>3. k \in Nat /\ k # 0 /\ k - 1 \in Hops /\ (k - 1) + 1 = k
    BY <1>1, <1>2, TablesCounted
<1>4. k - 1 \notin Lacking
    BY <1>1, <1>2, <1>3
<1> QED
    BY <1>2, <1>3, <1>4

LEMMA WithinTables ==
    ASSUME NEW g, NEW ts \in SUBSET Tables, NEW t \in Tables, NEW k \in Hops
    PROVE  Within(g, ts, t)[k] \subseteq Tables
<1> DEFINE near == Within(g, ts, t)
           Lacking == {i \in Hops : ~(near[i] \subseteq Tables)}
<1>1. near[0] \subseteq Tables
    BY WithinSteps
<1>2. ASSUME Lacking # {} PROVE FALSE
    <2>1. Lacking \in SUBSET Hops /\ 0 \notin Lacking
        BY <1>1
    <2>2. PICK m \in Hops : m + 1 \in Lacking /\ m \notin Lacking
        <3> HIDE DEF Lacking
        <3> QED
            BY <1>2, <2>1, LeastLacking
    <2>3. m + 1 \in Hops /\ near[m] \subseteq Tables /\ ~(near[m + 1] \subseteq Tables)
        BY <2>2
    <2>4. \A u \in near[m + 1] : u \in near[m] \/ u \in ts
        BY <2>3, StepWithin
    <2> HIDE DEF near
    <2> QED
        BY <2>3, <2>4
<1> QED
    BY <1>2

\* More hops and more tables reach no fewer.
LEMMA MoreHops ==
    ASSUME NEW g, NEW ts, NEW t, NEW i \in Hops, NEW j \in Hops, i <= j
    PROVE  Within(g, ts, t)[i] \subseteq Within(g, ts, t)[j]
<1> DEFINE near == Within(g, ts, t)
           Lacking == {k \in Hops : i <= k /\ ~(near[i] \subseteq near[k])}
<1>1. ASSUME Lacking # {} PROVE FALSE
    <2>1. PICK k \in Lacking : \A n \in Lacking : k <= n
        <3>1. Lacking \in SUBSET Nat
            BY TablesCounted
        <3> HIDE DEF Lacking
        <3> QED
            BY <1>1, <3>1, LeastNumber
    <2>2. k \in Hops /\ i <= k /\ ~(near[i] \subseteq near[k])
        BY <2>1
    <2> HIDE DEF near
    <2>3. k # i
        BY <2>2
    <2>4. k - 1 \in Hops /\ i <= k - 1 /\ (k - 1) + 1 = k /\ k - 1 \notin Lacking
        BY <2>1, <2>2, <2>3, TablesCounted
    <2>5. near[i] \subseteq near[k - 1]
        BY <2>4
    <2>6. near[k - 1] \subseteq near[(k - 1) + 1]
        BY <2>2, <2>4, StepWithin DEF near
    <2> QED
        BY <2>2, <2>4, <2>5, <2>6
<1> QED
    BY <1>1

LEMMA MoreTables ==
    ASSUME NEW g, NEW ts, NEW us, ts \subseteq us, NEW t, NEW k \in Hops
    PROVE  Within(g, ts, t)[k] \subseteq Within(g, us, t)[k]
<1> DEFINE near == Within(g, ts, t)
           wide == Within(g, us, t)
           Lacking == {i \in Hops : ~(near[i] \subseteq wide[i])}
<1>1. near[0] \subseteq wide[0]
    BY WithinSteps
<1>2. ASSUME Lacking # {} PROVE FALSE
    <2>1. Lacking \in SUBSET Hops /\ 0 \notin Lacking
        BY <1>1
    <2>2. PICK m \in Hops : m + 1 \in Lacking /\ m \notin Lacking
        <3> HIDE DEF Lacking
        <3> QED
            BY <1>2, <2>1, LeastLacking
    <2>3. m + 1 \in Hops /\ near[m] \subseteq wide[m] /\ ~(near[m + 1] \subseteq wide[m + 1])
        BY <2>2
    <2>4. \A u \in near[m + 1] : u \in near[m] \/ (u \in ts /\ \E v \in near[m] : v \in Neighbors(g, u))
        BY <2>3, StepWithin
    <2>5. wide[m] \subseteq wide[m + 1] /\ \A u \in us, v \in wide[m] : v \in Neighbors(g, u) => u \in wide[m + 1]
        BY <2>3, StepWithin
    <2> HIDE DEF near, wide
    <2> QED
        BY <2>3, <2>4, <2>5
<1> QED
    BY <1>2

\* A table reaches in one hop more what its neighbour reaches.
LEMMA NeighborReaches ==
    ASSUME NEW g, NEW u \in Tables, NEW v \in Tables, v \in Neighbors(g, u),
           NEW k \in Hops, k + 1 \in Hops
    PROVE  Within(g, Tables, v)[k] \subseteq Within(g, Tables, u)[k + 1]
<1> DEFINE near == Within(g, Tables, v)
           far == Within(g, Tables, u)
           Lacking == {i \in Hops : i + 1 \in Hops /\ ~(near[i] \subseteq far[i + 1])}
<1>1. 0 \in Hops /\ (1 \in Hops => 0 + 1 \in Hops)
    BY TablesCounted
<1>2. 0 + 1 \in Hops => near[0] \subseteq far[0 + 1]
    <2> HAVE 0 + 1 \in Hops
    <2>1. near[0] = {v} /\ far[0] = {u}
        BY WithinSteps
    <2>2. u \in Neighbors(g, v)
        BY DEF Neighbors
    <2>3. \A x \in Tables, y \in far[0] : y \in Neighbors(g, x) => x \in far[0 + 1]
        BY <1>1, StepWithin
    <2> QED
        BY <2>1, <2>2, <2>3
<1>3. ASSUME Lacking # {} PROVE FALSE
    <2>1. Lacking \in SUBSET Hops /\ 0 \notin Lacking
        BY <1>2
    <2>2. PICK m \in Hops : m + 1 \in Lacking /\ m \notin Lacking
        <3> HIDE DEF Lacking
        <3> QED
            BY <1>3, <2>1, LeastLacking
    <2>3. m + 1 \in Hops /\ (m + 1) + 1 \in Hops /\ near[m] \subseteq far[m + 1] /\ ~(near[m + 1] \subseteq far[(m + 1) + 1])
        BY <2>2
    <2>4. \A x \in near[m + 1] : x \in near[m] \/ (x \in Tables /\ \E y \in near[m] : y \in Neighbors(g, x))
        BY <2>3, StepWithin
    <2>5. /\ far[m + 1] \subseteq far[(m + 1) + 1]
          /\ \A x \in Tables, y \in far[m + 1] : y \in Neighbors(g, x) => x \in far[(m + 1) + 1]
        BY <2>3, StepWithin
    <2> HIDE DEF near, far
    <2> QED
        BY <2>3, <2>4, <2>5
<1> QED
    BY <1>3

\* Links go both ways.
LEMMA WithinBothWays ==
    ASSUME NEW g, NEW k \in Hops, NEW a \in Tables, NEW b \in Tables, b \in Within(g, Tables, a)[k]
    PROVE  a \in Within(g, Tables, b)[k]
<1> DEFINE Reached(t, i) == Within(g, Tables, t)[i]
           Lacking == {i \in Hops : ~\A x, y \in Tables : y \in Reached(x, i) => x \in Reached(y, i)}
<1>1. \A x, y \in Tables : y \in Reached(x, 0) => x \in Reached(y, 0)
    BY WithinSteps
<1>2. ASSUME Lacking # {} PROVE FALSE
    <2>1. Lacking \in SUBSET Hops /\ 0 \notin Lacking
        BY <1>1
    <2>2. PICK m \in Hops : m + 1 \in Lacking /\ m \notin Lacking
        <3> HIDE DEF Lacking
        <3> QED
            BY <1>2, <2>1, LeastLacking
    <2>3. PICK x \in Tables, y \in Tables : y \in Reached(x, m + 1) /\ x \notin Reached(y, m + 1)
        BY <2>2
    <2>4. m + 1 \in Hops /\ \A c, d \in Tables : d \in Reached(c, m) => c \in Reached(d, m)
        BY <2>2
    <2>5. y \in Reached(x, m) \/ \E z \in Reached(x, m) : z \in Neighbors(g, y)
        BY <2>3, <2>4, StepWithin
    <2>6. Reached(y, m) \subseteq Reached(y, m + 1)
        BY <2>4, StepWithin
    <2>7. \A z \in Tables : z \in Neighbors(g, y) => Reached(z, m) \subseteq Reached(y, m + 1)
        BY <2>4, NeighborReaches
    <2>8. Neighbors(g, y) \subseteq Tables
        BY DEF Neighbors
    <2> HIDE DEF Reached
    <2> QED
        BY <2>3, <2>4, <2>5, <2>6, <2>7, <2>8
<1> QED
    BY <1>2

\* There is a join path within the bound when so many hops reach the table.
LEMMA PathWhenReached ==
    ASSUME NEW g, NEW a \in Tables, NEW b \in Tables, NEW max \in Nat
    PROVE  ShortestPath(g, a, b, max) # <<>> <=> \E k \in Hops : k <= max /\ a \in Within(g, Tables, b)[k]
<1> DEFINE near == Within(g, Tables, b)
           d == Distance(near, a, max)
           p == ShortestPath(g, a, b, max)
<1>1. /\ d \in Nat /\ \A m \in Hops : m < d => a \notin near[m]
      /\ d <= max => d \in Hops /\ a \in near[d]
    BY DistanceIsLeast
<1>2. IF d > max THEN p = <<>> ELSE FirstWay(p, g, near, a, b, d)
    BY FirstWayIsShortest
<1> HIDE DEF near, d, p
<1>3. FirstWay(p, g, near, a, b, d) => p # <<>>
    BY <1>1 DEF FirstWay
<1>4. ASSUME NEW k \in Hops, k <= max, a \in near[k] PROVE d <= max
    <2>1. k \in Nat /\ ~(k < d)
        BY <1>1, <1>4, TablesCounted
    <2> QED
        BY <1>1, <1>4, <2>1
<1>5. d <= max => \E k \in Hops : k <= max /\ a \in near[k]
    BY <1>1
<1>6. p # <<>> <=> d <= max
    BY <1>1, <1>2, <1>3
<1>7. p # <<>> <=> \E k \in Hops : k <= max /\ a \in near[k]
    BY <1>4, <1>5, <1>6
<1> QED
    BY <1>7 DEF near, p

LEMMA PathBothWays ==
    ASSUME NEW g, NEW a \in Tables, NEW b \in Tables, NEW max \in Nat, ShortestPath(g, a, b, max) # <<>>
    PROVE  ShortestPath(g, b, a, max) # <<>>
<1>1. PICK k \in Hops : k <= max /\ a \in Within(g, Tables, b)[k]
    BY PathWhenReached
<1>2. b \in Within(g, Tables, a)[k]
    BY <1>1, WithinBothWays
<1> QED
    BY <1>1, <1>2, PathWhenReached

\* A path may be of as many hops as there are tables.
LEMMA LinkedHasPath ==
    ASSUME NEW g, NEW a \in Tables, NEW b \in Tables, IsLinkedWithin(g, Tables, a, b)
    PROVE  ShortestPath(g, a, b, Cardinality(Tables)) # <<>>
<1>1. Cardinality(Tables) \in Hops /\ Cardinality(Tables) \in Nat /\ Cardinality(Tables) <= Cardinality(Tables)
    BY TablesCounted
<1>2. a \in Within(g, Tables, b)[Cardinality(Tables)]
    BY <1>1, WithinBothWays DEF IsLinkedWithin
<1> QED
    BY <1>1, <1>2, PathWhenReached

LEMMA PathTables ==
    ASSUME NEW g, NEW a \in Tables, NEW b \in Tables, NEW max \in Nat
    PROVE  Range(ShortestPath(g, a, b, max)) \subseteq Tables
<1> DEFINE p == ShortestPath(g, a, b, max)
<1>1. p = <<>> \/ p \in Seq(Tables)
    BY FirstWayIsShortest DEF FirstWay
<1> HIDE DEF p
<1>2. Range(p) \subseteq Tables
    BY <1>1 DEF Range
<1> QED
    BY <1>2 DEF p

\* The path's own tables link its ends, either way.
LEMMA PathLinks ==
    ASSUME NEW g, NEW a \in Tables, NEW b \in Tables, NEW max \in Nat, ShortestPath(g, a, b, max) # <<>>,
           NEW ts, Range(ShortestPath(g, a, b, max)) \subseteq ts
    PROVE  IsLinkedWithin(g, ts, a, b) /\ IsLinkedWithin(g, ts, b, a)
<1> DEFINE near == Within(g, Tables, b)
           d == Distance(near, a, max)
           p == ShortestPath(g, a, b, max)
           fore == Within(g, ts, a)
           back == Within(g, ts, b)
<1>1. /\ d \in Nat /\ (d <= max => d \in Hops)
      /\ Cardinality(Tables) \in Nat /\ Hops = 0 .. Cardinality(Tables) /\ Cardinality(Tables) \in Hops
    BY DistanceIsLeast, TablesCounted
<1>2. d <= max /\ FirstWay(p, g, near, a, b, d)
    BY <1>1, FirstWayIsShortest
<1>3. fore[0] = {a} /\ back[0] = {b}
    BY WithinSteps
<1>4. /\ p \in Seq(Tables) /\ Len(p) = d + 1 /\ p[1] = a /\ p[d + 1] = b
      /\ \A i \in 1 .. d : p[i + 1] \in Neighbors(g, p[i])
    BY <1>2 DEF FirstWay
<1>5. \A i \in 1 .. d + 1 : p[i] \in Tables /\ p[i] \in ts
    <2> HIDE DEF p
    <2> QED
        BY <1>1, <1>4 DEF Range, p
<1>6. \A i \in 1 .. d : p[i] \in Neighbors(g, p[i + 1])
    <2> TAKE i \in 1 .. d
    <2>1. p[i] \in Tables /\ p[i + 1] \in Neighbors(g, p[i])
        BY <1>1, <1>4, <1>5
    <2> HIDE DEF p
    <2> QED
        BY <2>1 DEF Neighbors
<1> DEFINE NotFore == {i \in Hops : i <= d /\ p[i + 1] \notin fore[i]}
           NotBack == {i \in Hops : i <= d /\ p[d + 1 - i] \notin back[i]}
<1>7. ASSUME NotFore # {} PROVE FALSE
    <2>1. NotFore \in SUBSET Hops /\ 0 \notin NotFore
        BY <1>3, <1>4
    <2>2. PICK m \in Hops : m + 1 \in NotFore /\ m \notin NotFore
        <3> HIDE DEF NotFore
        <3> QED
            BY <1>7, <2>1, LeastLacking
    <2>3. m + 1 \in Hops /\ m + 1 <= d /\ p[(m + 1) + 1] \notin fore[m + 1]
        BY <2>2
    <2>4. m + 1 \in 1 .. d /\ (m + 1) + 1 \in 1 .. d + 1
        BY <1>1, <2>3
    <2>5. p[m + 1] \in fore[m]
        BY <1>1, <2>2, <2>4
    <2>6. \A u \in ts, v \in fore[m] : v \in Neighbors(g, u) => u \in fore[m + 1]
        BY <2>3, StepWithin
    <2> HIDE DEF fore, p
    <2>7. p[m + 1] \in Neighbors(g, p[(m + 1) + 1]) /\ p[(m + 1) + 1] \in ts
        BY <1>5, <1>6, <2>4
    <2> QED
        BY <2>3, <2>5, <2>6, <2>7
<1>8. ASSUME NotBack # {} PROVE FALSE
    <2>1. NotBack \in SUBSET Hops /\ 0 \notin NotBack
        BY <1>1, <1>3, <1>4
    <2>2. PICK m \in Hops : m + 1 \in NotBack /\ m \notin NotBack
        <3> HIDE DEF NotBack
        <3> QED
            BY <1>8, <2>1, LeastLacking
    <2>3. m + 1 \in Hops /\ m + 1 <= d /\ p[d + 1 - (m + 1)] \notin back[m + 1]
        BY <2>2
    <2>4. PICK i \in 1 .. d : i = d - m /\ i = d + 1 - (m + 1) /\ i + 1 = d + 1 - m
        BY <1>1, <2>3
    <2>5. p[i + 1] \in back[m]
        BY <1>1, <2>2, <2>3, <2>4
    <2>6. \A u \in ts, v \in back[m] : v \in Neighbors(g, u) => u \in back[m + 1]
        BY <2>3, StepWithin
    <2>7. p[i] \notin back[m + 1]
        BY <2>3, <2>4
    <2> HIDE DEF back, p
    <2>8. i \in 1 .. d + 1
        BY <1>1, <2>4
    <2>9. p[i + 1] \in Neighbors(g, p[i]) /\ p[i] \in ts
        BY <1>4, <1>5, <2>8
    <2> QED
        BY <2>5, <2>6, <2>7, <2>9
<1>9. b \in fore[d] /\ a \in back[d]
    <2>1. d \in Hops /\ d <= d /\ d + 1 - d = 1
        BY <1>1, <1>2
    <2>2. p[d + 1] \in fore[d] /\ p[d + 1 - d] \in back[d]
        BY <1>7, <1>8, <2>1
    <2> QED
        BY <1>4, <2>1, <2>2
<1>10. fore[d] \subseteq fore[Cardinality(Tables)] /\ back[d] \subseteq back[Cardinality(Tables)]
    <2>1. d \in Hops /\ d <= Cardinality(Tables)
        BY <1>1, <1>2
    <2> HIDE DEF d
    <2> QED
        BY <1>1, <2>1, MoreHops
<1> QED
    BY <1>9, <1>10 DEF IsLinkedWithin

LEMMA LinkedByMore ==
    ASSUME NEW g, NEW ts, NEW us, ts \subseteq us, NEW a, NEW b, IsLinkedWithin(g, ts, a, b)
    PROVE  IsLinkedWithin(g, us, a, b)
<1>1. Cardinality(Tables) \in Hops
    BY TablesCounted
<1> QED
    BY <1>1, MoreTables DEF IsLinkedWithin

LEMMA LinkedToItself ==
    ASSUME NEW g, NEW ts, NEW t
    PROVE  IsLinkedWithin(g, ts, t, t)
<1>1. 0 \in Hops /\ Cardinality(Tables) \in Hops /\ 0 <= Cardinality(Tables)
    BY TablesCounted
<1>2. t \in Within(g, ts, t)[0]
    BY WithinSteps
<1> QED
    BY <1>1, <1>2, MoreHops DEF IsLinkedWithin

-----------------------------------------------------------------------------
(* What a widening brings.                                                   *)

LEMMA UnlinkedLists ==
    ASSUME retrieved \in SUBSET Tables, NEW own, NEW t \in Tables
    PROVE  /\ Unlinked(own, t) \in Seq(retrieved)
           /\ \A c \in retrieved :
                 ~IsLinkedWithin(graph, own, t, c) /\ ShortestPath(graph, t, c, Cardinality(Tables)) # <<>>
                    => \E i \in 1 .. Len(Unlinked(own, t)) : Unlinked(own, t)[i] = c
<1> DEFINE hops == [c \in retrieved |-> Len(ShortestPath(graph, t, c, Cardinality(Tables)))]
           lost == {c \in retrieved : ~IsLinkedWithin(graph, own, t, c) /\ hops[c] > 0}
           place(c) == CHOOSE i \in 1 .. Len(Order) : Order[i] = c
           nearer == {p \in lost \X lost : \/ hops[p[1]] < hops[p[2]]
                                           \/ (hops[p[1]] = hops[p[2]] /\ place(p[1]) < place(p[2]))}
<1>1. Unlinked(own, t) = InOrder(lost, nearer)
    BY DEF Unlinked
<1>2. \A c \in retrieved : /\ ShortestPath(graph, t, c, Cardinality(Tables)) \in Seq(Tables)
                           /\ hops[c] \in Nat /\ hops[c] = Len(ShortestPath(graph, t, c, Cardinality(Tables)))
    <2> TAKE c \in retrieved
    <2>1. c \in Tables /\ Cardinality(Tables) \in Nat
        BY TablesCounted
    <2> DEFINE q == ShortestPath(graph, t, c, Cardinality(Tables))
    <2>2. q = <<>> \/ q \in Seq(Tables)
        BY <2>1, FirstWayIsShortest DEF FirstWay
    <2>3. hops[c] = Len(q)
        OBVIOUS
    <2> HIDE DEF q, hops
    <2>4. q \in Seq(Tables)
        <3>1. <<>> \in Seq(Tables)
            OBVIOUS
        <3> QED
            BY <2>2, <3>1
    <2>5. Len(q) \in Nat
        BY <2>4
    <2> QED
        BY <2>3, <2>4, <2>5 DEF q
<1>3. \A c \in Tables : place(c) \in Nat /\ Order[place(c)] = c
    <2> TAKE c \in Tables
    <2>1. \E i \in 1 .. Len(Order) : Order[i] = c
        BY RetrievalAssumption DEF Range
    <2>2. place(c) \in 1 .. Len(Order) /\ Order[place(c)] = c
        BY <2>1
    <2> QED
        BY <2>2
<1>4. \A c, d \in Tables : c # d => place(c) # place(d)
    <2> HIDE DEF place
    <2> QED
        BY <1>3
<1>5. lost \subseteq Tables /\ lost \subseteq retrieved /\ IsFiniteSet(lost)
    BY TablesAssumption, FS_Subset
<1>6. \A c, d \in lost :
         <<c, d>> \in nearer <=> (hops[c] < hops[d] \/ (hops[c] = hops[d] /\ place(c) < place(d)))
    <2> HIDE DEF hops, place, lost
    <2> QED
        OBVIOUS
<1>7. StrictOrder(lost, nearer)
    <2>1. \A c \in lost : c \in Tables /\ hops[c] \in Nat /\ place(c) \in Nat
        BY <1>2, <1>3, <1>5
    <2> HIDE DEF hops, place, lost, nearer
    <2>2. \A c \in lost : <<c, c>> \notin nearer
        BY <1>6, <2>1
    <2>3. ASSUME NEW c \in lost, NEW d \in lost, c # d PROVE <<c, d>> \in nearer \/ <<d, c>> \in nearer
        <3>1. hops[c] \in Nat /\ hops[d] \in Nat /\ place(c) \in Nat /\ place(d) \in Nat /\ place(c) # place(d)
            BY <1>4, <2>1, <2>3
        <3> QED
            BY <1>6, <3>1
    <2>4. ASSUME NEW c \in lost, NEW d \in lost, NEW e \in lost, <<c, d>> \in nearer, <<d, e>> \in nearer
          PROVE  <<c, e>> \in nearer
        <3>1. /\ hops[c] \in Nat /\ hops[d] \in Nat /\ hops[e] \in Nat
              /\ place(c) \in Nat /\ place(d) \in Nat /\ place(e) \in Nat
            BY <2>1
        <3>2. hops[c] < hops[d] \/ (hops[c] = hops[d] /\ place(c) < place(d))
            BY <1>6, <2>4
        <3>3. hops[d] < hops[e] \/ (hops[d] = hops[e] /\ place(d) < place(e))
            BY <1>6, <2>4
        <3>4. hops[c] < hops[e] \/ (hops[c] = hops[e] /\ place(c) < place(e))
            BY <3>1, <3>2, <3>3
        <3> QED
            BY <1>6, <3>4
    <2> QED
        BY <2>2, <2>3, <2>4 DEF StrictOrder
<1>8. /\ InOrder(lost, nearer) \in Seq(lost) /\ Len(InOrder(lost, nearer)) = Cardinality(lost)
      /\ \A c \in lost : \E i \in 1 .. Cardinality(lost) : InOrder(lost, nearer)[i] = c
    <2> HIDE DEF lost, nearer
    <2> QED
        BY <1>5, <1>7, InOrderListsAll
<1>9. \A c \in retrieved :
         ~IsLinkedWithin(graph, own, t, c) /\ ShortestPath(graph, t, c, Cardinality(Tables)) # <<>> => c \in lost
    <2> TAKE c \in retrieved
    <2> HAVE ~IsLinkedWithin(graph, own, t, c) /\ ShortestPath(graph, t, c, Cardinality(Tables)) # <<>>
    <2> DEFINE q == ShortestPath(graph, t, c, Cardinality(Tables))
    <2>1. q \in Seq(Tables) /\ q # <<>> /\ hops[c] = Len(q)
        BY <1>2
    <2> HIDE DEF q, hops
    <2>2. Len(q) > 0
        BY <2>1
    <2> QED
        BY <2>1, <2>2
<1> HIDE DEF lost, nearer
<1>10. InOrder(lost, nearer) \in Seq(retrieved)
    BY <1>5, <1>8
<1> QED
    BY <1>1, <1>8, <1>9, <1>10

\* What t's widening is after one more of the tables it was not linked to.
LinkedOn(own, t, c) ==
    IF IsLinkedWithin(graph, own, t, c) THEN own
    ELSE own \cup Range(ShortestPath(graph, t, c, Cardinality(Tables)))

IsLinking(f, short, t, far, k) ==
    f = [i \in 0 .. k |-> IF i = 0 THEN short ELSE LinkedOn(f[i - 1], t, far[i])]

LEMMA LinkingExists ==
    ASSUME NEW short, NEW t, NEW far, NEW k \in Nat
    PROVE  \E f : IsLinking(f, short, t, far, k)
<1> DEFINE Has(m) == \E f : IsLinking(f, short, t, far, m)
           Lacking == {m \in Nat : ~Has(m)}
<1>1. SUFFICES ASSUME Lacking # {} PROVE FALSE
    OBVIOUS
<1>2. PICK m \in Lacking : \A n \in Lacking : m <= n
    BY <1>1, LeastNumber
<1>3. Has(0)
    <2>1. IsLinking([i \in 0 .. 0 |-> short], short, t, far, 0)
        BY DEF IsLinking
    <2> QED
        BY <2>1
<1>4. m # 0 /\ m - 1 \in Nat /\ Has(m - 1)
    BY <1>2, <1>3
<1>5. PICK f : IsLinking(f, short, t, far, m - 1)
    BY <1>4
<1> DEFINE h == [i \in 0 .. m |-> IF i = m THEN LinkedOn(f[m - 1], t, far[m]) ELSE f[i]]
<1>6. ASSUME NEW i \in 0 .. m
      PROVE  h[i] = IF i = 0 THEN short ELSE LinkedOn(h[i - 1], t, far[i])
    <2>1. CASE i = m
        <3>1. h[i] = LinkedOn(f[m - 1], t, far[m]) /\ h[m - 1] = f[m - 1]
            BY <1>4, <2>1
        <3> QED
            BY <3>1, <2>1, <1>4
    <2>2. CASE i # m
        <3>1. i \in 0 .. m - 1 /\ h[i] = f[i]
            BY <2>2, <1>4
        <3>2. f[i] = IF i = 0 THEN short ELSE LinkedOn(f[i - 1], t, far[i])
            BY <1>5, <3>1 DEF IsLinking
        <3>3. i # 0 => h[i - 1] = f[i - 1]
            BY <3>1
        <3> QED
            BY <3>1, <3>2, <3>3
    <2> QED
        BY <2>1, <2>2
<1>7. h = [i \in 0 .. m |-> h[i]]
    OBVIOUS
<1>8. IsLinking(h, short, t, far, m)
    <2> HIDE DEF h
    <2>1. [i \in 0 .. m |-> h[i]] = [i \in 0 .. m |-> IF i = 0 THEN short ELSE LinkedOn(h[i - 1], t, far[i])]
        BY <1>6
    <2> QED
        BY <1>7, <2>1 DEF IsLinking
<1> QED
    BY <1>2, <1>8

LEMMA LinkedOnLinks ==
    ASSUME retrieved \in SUBSET Tables, NEW own \in SUBSET Tables, NEW t \in Tables, NEW c \in retrieved
    PROVE  /\ own \subseteq LinkedOn(own, t, c) /\ LinkedOn(own, t, c) \subseteq Tables
           /\ ShortestPath(graph, t, c, Cardinality(Tables)) # <<>> => IsLinkedWithin(graph, LinkedOn(own, t, c), t, c)
<1>1. c \in Tables /\ Cardinality(Tables) \in Nat
    BY TablesCounted
<1>2. Range(ShortestPath(graph, t, c, Cardinality(Tables))) \subseteq Tables
    BY <1>1, PathTables
<1>3. own \subseteq LinkedOn(own, t, c) /\ LinkedOn(own, t, c) \subseteq Tables
    BY <1>2 DEF LinkedOn
<1>4. CASE IsLinkedWithin(graph, own, t, c)
    BY <1>3, <1>4 DEF LinkedOn
<1>5. CASE ~IsLinkedWithin(graph, own, t, c)
    <2>1. Range(ShortestPath(graph, t, c, Cardinality(Tables))) \subseteq LinkedOn(own, t, c)
        BY <1>5 DEF LinkedOn
    <2>2. ShortestPath(graph, t, c, Cardinality(Tables)) # <<>> => IsLinkedWithin(graph, LinkedOn(own, t, c), t, c)
        BY <1>1, <2>1, PathLinks
    <2> QED
        BY <1>3, <2>2
<1> QED
    BY <1>4, <1>5

LEMMA ShortWideningTables ==
    ASSUME retrieved \in SUBSET Tables, NEW start \in SUBSET Tables, NEW t \in Tables
    PROVE  /\ start \cup {t} \subseteq ShortWidening(start, t)
           /\ ShortWidening(start, t) \in SUBSET Tables
<1>1. WidenHops \in Nat
    BY RetrievalAssumption
<1>2. \A c \in retrieved : Range(ShortestPath(graph, t, c, WidenHops)) \subseteq Tables
    BY <1>1, PathTables
<1> QED
    BY <1>2 DEF ShortWidening

\* The widening for t links it to every retrieved table that any foreign keys link it to.
LEMMA OwnWideningLinks ==
    ASSUME retrieved \in SUBSET Tables, NEW start \in SUBSET Tables, NEW t \in Tables
    PROVE  /\ start \cup {t} \subseteq OwnWidening(start, t) /\ OwnWidening(start, t) \subseteq Tables
           /\ \A c \in retrieved :
                 IsLinkedWithin(graph, Tables, t, c) => IsLinkedWithin(graph, OwnWidening(start, t), t, c)
<1> DEFINE short == ShortWidening(start, t)
           far == Unlinked(short, t)
           own == CHOOSE f : IsLinking(f, short, t, far, Len(far))
<1>1. start \cup {t} \subseteq short /\ short \in SUBSET Tables
    BY ShortWideningTables
<1>2. /\ far \in Seq(retrieved)
      /\ \A c \in retrieved :
            ~IsLinkedWithin(graph, short, t, c) /\ ShortestPath(graph, t, c, Cardinality(Tables)) # <<>>
               => \E i \in 1 .. Len(far) : far[i] = c
    BY UnlinkedLists
<1>3. Len(far) \in Nat
    BY <1>2
<1>4. OwnWidening(start, t) = own[Len(far)]
    BY DEF OwnWidening, IsLinking, LinkedOn
<1>5. IsLinking(own, short, t, far, Len(far))
    <2> HIDE DEF short, far
    <2> QED
        BY <1>3, LinkingExists
<1> HIDE DEF short, far, own
<1> DEFINE n == Len(far)
<1>6. own[0] = short /\ \A i \in 1 .. n : own[i] = LinkedOn(own[i - 1], t, far[i])
    <2>1. \A i \in 0 .. n : own[i] = IF i = 0 THEN short ELSE LinkedOn(own[i - 1], t, far[i])
        BY <1>5 DEF IsLinking
    <2> QED
        BY <1>3, <2>1
<1>7. \A i \in 1 .. n : far[i] \in retrieved
    BY <1>2, <1>3
<1> DEFINE Grown(i) == short \subseteq own[i] /\ own[i] \subseteq Tables
                       /\ \A j \in 1 .. i : ShortestPath(graph, t, far[j], Cardinality(Tables)) # <<>>
                                               => IsLinkedWithin(graph, own[i], t, far[j])
           Lacking == {i \in 0 .. n : ~Grown(i)}
<1>8. Grown(0)
    BY <1>1, <1>6
<1>9. ASSUME NEW i \in 1 .. n, Grown(i - 1) PROVE Grown(i)
    <2>1. far[i] \in retrieved /\ own[i - 1] \in SUBSET Tables /\ own[i] = LinkedOn(own[i - 1], t, far[i])
        BY <1>6, <1>7, <1>9
    <2>2. /\ own[i - 1] \subseteq own[i] /\ own[i] \subseteq Tables
          /\ ShortestPath(graph, t, far[i], Cardinality(Tables)) # <<>> => IsLinkedWithin(graph, own[i], t, far[i])
        BY <2>1, LinkedOnLinks
    <2>3. ASSUME NEW j \in 1 .. i, ShortestPath(graph, t, far[j], Cardinality(Tables)) # <<>>
          PROVE  IsLinkedWithin(graph, own[i], t, far[j])
        <3>1. CASE j = i
            BY <2>2, <2>3, <3>1
        <3>2. CASE j # i
            <4>1. j \in 1 .. i - 1
                BY <1>3, <3>2
            <4>2. IsLinkedWithin(graph, own[i - 1], t, far[j])
                BY <1>9, <2>3, <4>1
            <4> QED
                BY <2>2, <4>2, LinkedByMore
        <3> QED
            BY <3>1, <3>2
    <2> QED
        BY <1>9, <2>2, <2>3
<1>10. ASSUME Lacking # {} PROVE FALSE
    <2>1. PICK i \in Lacking : \A j \in Lacking : i <= j
        <3>1. Lacking \in SUBSET Nat
            BY <1>3
        <3> HIDE DEF Lacking
        <3> QED
            BY <1>10, <3>1, LeastNumber
    <2>2. i \in 0 .. n /\ ~Grown(i)
        BY <2>1
    <2>3. i # 0
        BY <1>8, <2>2
    <2>4. i - 1 \in 0 .. n /\ i \in 1 .. n /\ ~(i <= i - 1)
        BY <1>3, <2>2, <2>3
    <2>5. Grown(i - 1)
        BY <2>1, <2>4
    <2> QED
        BY <1>9, <2>2, <2>4, <2>5
<1>11. Grown(n)
    BY <1>3, <1>10
<1>12. ASSUME NEW c \in retrieved, IsLinkedWithin(graph, Tables, t, c)
       PROVE  IsLinkedWithin(graph, own[n], t, c)
    <2>1. ShortestPath(graph, t, c, Cardinality(Tables)) # <<>>
        BY <1>12, LinkedHasPath
    <2>2. CASE IsLinkedWithin(graph, short, t, c)
        BY <1>11, <2>2, LinkedByMore
    <2>3. CASE ~IsLinkedWithin(graph, short, t, c)
        <3>1. PICK i \in 1 .. n : far[i] = c
            BY <1>2, <2>1, <2>3
        <3> QED
            BY <1>11, <2>1, <3>1
    <2> QED
        BY <2>2, <2>3
<1> QED
    BY <1>1, <1>4, <1>11, <1>12

IsWidening(f, list, k) ==
    f = [i \in 0 .. k |-> IF i = 0 THEN retrieved ELSE f[i - 1] \cup OwnWidening(retrieved, list[i])]

LEMMA WideningExists ==
    ASSUME NEW list, NEW k \in Nat
    PROVE  \E f : IsWidening(f, list, k)
<1> DEFINE Has(m) == \E f : IsWidening(f, list, m)
           Lacking == {m \in Nat : ~Has(m)}
<1>1. SUFFICES ASSUME Lacking # {} PROVE FALSE
    OBVIOUS
<1>2. PICK m \in Lacking : \A n \in Lacking : m <= n
    BY <1>1, LeastNumber
<1>3. Has(0)
    <2>1. IsWidening([i \in 0 .. 0 |-> retrieved], list, 0)
        BY DEF IsWidening
    <2> QED
        BY <2>1
<1>4. m # 0 /\ m - 1 \in Nat /\ Has(m - 1)
    BY <1>2, <1>3
<1>5. PICK f : IsWidening(f, list, m - 1)
    BY <1>4
<1> DEFINE With(w, i) == w \cup OwnWidening(retrieved, list[i])
           h == [i \in 0 .. m |-> IF i = m THEN With(f[m - 1], m) ELSE f[i]]
<1>6. ASSUME NEW i \in 0 .. m
      PROVE  h[i] = IF i = 0 THEN retrieved ELSE With(h[i - 1], i)
    <2>1. CASE i = m
        <3>1. h[i] = With(f[m - 1], m) /\ h[m - 1] = f[m - 1]
            BY <1>4, <2>1
        <3> HIDE DEF With
        <3> QED
            BY <3>1, <2>1, <1>4
    <2>2. CASE i # m
        <3>1. i \in 0 .. m - 1 /\ h[i] = f[i]
            BY <2>2, <1>4
        <3>2. f[i] = IF i = 0 THEN retrieved ELSE With(f[i - 1], i)
            BY <1>5, <3>1 DEF IsWidening
        <3>3. i # 0 => h[i - 1] = f[i - 1]
            BY <3>1
        <3> QED
            BY <3>1, <3>2, <3>3
    <2> QED
        BY <2>1, <2>2
<1>7. h = [i \in 0 .. m |-> h[i]]
    OBVIOUS
<1>8. IsWidening(h, list, m)
    <2> HIDE DEF h
    <2>1. [i \in 0 .. m |-> h[i]] = [i \in 0 .. m |-> IF i = 0 THEN retrieved ELSE With(h[i - 1], i)]
        BY <1>6
    <2> QED
        BY <1>7, <2>1 DEF IsWidening
<1> QED
    BY <1>2, <1>8

\* The widening in turn is the union of the widenings, in whichever order.
LEMMA WidenInTurnIsUnion ==
    ASSUME NEW list, Len(list) \in Nat
    PROVE  WidenInTurn(list) = retrieved \cup UNION {OwnWidening(retrieved, list[i]) : i \in 1 .. Len(list)}
<1> DEFINE n == Len(list)
           expanded == CHOOSE f : IsWidening(f, list, n)
           Own(i) == OwnWidening(retrieved, list[i])
           Union(k) == retrieved \cup UNION {Own(i) : i \in 1 .. k}
           Lacking == {i \in 0 .. n : expanded[i] # Union(i)}
<1>1. WidenInTurn(list) = expanded[n]
    BY DEF WidenInTurn, IsWidening
<1>2. IsWidening(expanded, list, n)
    BY WideningExists
<1> HIDE DEF n, expanded
<1>3. n \in Nat
    BY DEF n
<1>4. expanded[0] = retrieved /\ \A i \in 1 .. n : expanded[i] = expanded[i - 1] \cup Own(i)
    <2>1. \A i \in 0 .. n : expanded[i] = IF i = 0 THEN retrieved ELSE expanded[i - 1] \cup Own(i)
        BY <1>2 DEF IsWidening
    <2> HIDE DEF Own
    <2>2. 0 \in 0 .. n /\ \A i \in 1 .. n : i \in 0 .. n /\ i # 0
        BY <1>3
    <2> QED
        BY <2>1, <2>2
<1> HIDE DEF Own
<1>5. Union(0) = retrieved
    OBVIOUS
<1>6. \A i \in 1 .. n : Union(i) = Union(i - 1) \cup Own(i)
    <2> TAKE i \in 1 .. n
    <2>1. i \in 1 .. i /\ (\A j \in 1 .. i - 1 : j \in 1 .. i) /\ \A j \in 1 .. i : j \in 1 .. i - 1 \/ j = i
        BY <1>3
    <2>2. \A x : (\E j \in 1 .. i : x \in Own(j)) <=> (\E j \in 1 .. i - 1 : x \in Own(j)) \/ x \in Own(i)
        BY <2>1
    <2> QED
        BY <2>2
<1> HIDE DEF Union
<1>7. ASSUME Lacking # {} PROVE FALSE
    <2>1. PICK i \in Lacking : \A j \in Lacking : i <= j
        <3>1. Lacking \in SUBSET Nat
            BY <1>3
        <3> HIDE DEF Lacking
        <3> QED
            BY <1>7, <3>1, LeastNumber
    <2>2. i \in 0 .. n /\ expanded[i] # Union(i)
        BY <2>1
    <2>3. i # 0
        BY <1>4, <1>5, <2>2
    <2>4. i - 1 \in 0 .. n /\ i \in 1 .. n /\ ~(i <= i - 1)
        BY <1>3, <2>2, <2>3
    <2>5. expanded[i - 1] = Union(i - 1)
        BY <2>1, <2>4
    <2> QED
        BY <1>4, <1>6, <2>2, <2>4, <2>5
<1>8. expanded[n] = Union(n)
    BY <1>3, <1>7
<1> QED
    BY <1>1, <1>8 DEF n, Union, Own

LEMMA SortedListsAll ==
    ASSUME NEW ts \in SUBSET Tables
    PROVE  /\ Sorted(ts) \in Seq(ts) /\ Len(Sorted(ts)) \in Nat
           /\ \A t \in ts : \E i \in 1 .. Len(Sorted(ts)) : Sorted(ts)[i] = t
<1> DEFINE before == {p \in Tables \X Tables : p[1] < p[2]}
<1>1. IsFiniteSet(ts) /\ Cardinality(ts) \in Nat
    BY TablesAssumption, FS_Subset, FS_CardinalityType
<1>2. \A t \in ts : t \in Tables /\ t \in Nat
    BY TablesAssumption
<1>3. \A a, b \in ts : <<a, b>> \in before <=> a < b
    BY <1>2
<1>4. StrictOrder(ts, before)
    <2> HIDE DEF before
    <2> QED
        BY <1>2, <1>3 DEF StrictOrder
<1>5. Sorted(ts) = InOrder(ts, before)
    BY DEF Sorted
<1> HIDE DEF before
<1> QED
    BY <1>1, <1>4, <1>5, InOrderListsAll

LEMMA WidenedIsUnion ==
    ASSUME NEW added \in SUBSET Tables, added \cap retrieved = {}
    PROVE  WidenRetrievedTables(added) = retrieved \cup UNION {OwnWidening(retrieved, t) : t \in added}
<1> DEFINE list == Sorted(added)
<1>1. added \ retrieved = added
    OBVIOUS
<1>2. WidenRetrievedTables(added) = WidenInTurn(list)
    BY <1>1 DEF WidenRetrievedTables
<1>3. list \in Seq(added) /\ Len(list) \in Nat /\ \A t \in added : \E i \in 1 .. Len(list) : list[i] = t
    BY SortedListsAll
<1> HIDE DEF list
<1>4. \A i \in 1 .. Len(list) : list[i] \in added
    BY <1>3
<1>5. WidenInTurn(list) = retrieved \cup UNION {OwnWidening(retrieved, list[i]) : i \in 1 .. Len(list)}
    BY <1>3, WidenInTurnIsUnion
<1>6. {OwnWidening(retrieved, list[i]) : i \in 1 .. Len(list)} = {OwnWidening(retrieved, t) : t \in added}
    BY <1>3, <1>4
<1> QED
    BY <1>2, <1>5, <1>6

-----------------------------------------------------------------------------
(* Retrieval.                                                                *)

LEMMA InScoreListsAll ==
    ASSUME score \in Scores, NEW ts \in SUBSET Tables
    PROVE  /\ InScore(ts) \in Seq(ts) /\ Len(InScore(ts)) \in Nat
           /\ \A t \in ts : \E i \in 1 .. Len(InScore(ts)) : InScore(ts)[i] = t
<1>1. IsFiniteSet(ts) /\ Cardinality(ts) \in Nat
    BY TablesAssumption, FS_Subset, FS_CardinalityType
<1>2. \A t \in ts : t \in Tables /\ t \in Nat /\ score[t] \in Nat
    BY TablesAssumption, RetrievalAssumption
<1>3. \A a, b \in ts : <<a, b>> \in ByScore <=> (score[a] > score[b] \/ (score[a] = score[b] /\ a < b))
    BY <1>2 DEF ByScore
<1>4. StrictOrder(ts, ByScore)
    <2>1. \A a \in ts : <<a, a>> \notin ByScore
        BY <1>2, <1>3
    <2>2. ASSUME NEW a \in ts, NEW b \in ts, a # b PROVE <<a, b>> \in ByScore \/ <<b, a>> \in ByScore
        <3>1. a \in Nat /\ b \in Nat /\ score[a] \in Nat /\ score[b] \in Nat
            BY <1>2
        <3>2. \/ score[a] > score[b] \/ (score[a] = score[b] /\ a < b)
              \/ score[b] > score[a] \/ (score[b] = score[a] /\ b < a)
            BY <2>2, <3>1
        <3> QED
            BY <1>3, <3>2
    <2>3. ASSUME NEW a \in ts, NEW b \in ts, NEW c \in ts, <<a, b>> \in ByScore, <<b, c>> \in ByScore
          PROVE  <<a, c>> \in ByScore
        <3>1. /\ a \in Nat /\ b \in Nat /\ c \in Nat
              /\ score[a] \in Nat /\ score[b] \in Nat /\ score[c] \in Nat
            BY <1>2
        <3>2. score[a] > score[b] \/ (score[a] = score[b] /\ a < b)
            BY <1>3, <2>3
        <3>3. score[b] > score[c] \/ (score[b] = score[c] /\ b < c)
            BY <1>3, <2>3
        <3>4. score[a] > score[c] \/ (score[a] = score[c] /\ a < c)
            BY <3>1, <3>2, <3>3
        <3> QED
            BY <1>3, <3>4
    <2> QED
        BY <2>1, <2>2, <2>3 DEF StrictOrder
<1> QED
    BY <1>1, <1>4, InOrderListsAll DEF InScore

LEMMA UpToTyped ==
    ASSUME NEW n \in Nat, NEW s \in Seq(Tables)
    PROVE  UpTo(n, s) \in Seq(Tables) /\ Len(UpTo(n, s)) \in Nat
<1> DEFINE m == IF n < Len(s) THEN n ELSE Len(s)
<1>1. Len(s) \in Nat
    OBVIOUS
<1>2. m \in Nat /\ m <= Len(s)
    BY <1>1
<1>3. UpTo(n, s) = SubSeq(s, 1, m)
    BY DEF UpTo
<1> HIDE DEF m
<1>4. SubSeq(s, 1, m) \in Seq(Tables)
    BY <1>1, <1>2
<1>5. Len(SubSeq(s, 1, m)) \in Nat
    BY <1>4
<1> QED
    BY <1>3, <1>4, <1>5

\* Every required table is selected.
LEMMA SelectedTyped ==
    ASSUME score \in Scores, required \in Requirements
    PROVE  Selected \in Seq(Tables) /\ Len(Selected) \in Nat /\ required \subseteq Range(Selected)
<1> DEFINE top == TopSelected
           rest == InScore(required \ Range(top))
<1>1. MaxTables \in Nat /\ required \subseteq Tables /\ Order \in Seq(Tables)
    BY RetrievalAssumption
<1>2. top \in Seq(Tables) /\ Len(top) \in Nat
    <2> DEFINE some == {t \in Tables : score[t] > 0}
    <2>1. InScore(some) \in Seq(some)
        BY InScoreListsAll
    <2>2. InScore(some) \in Seq(Tables)
        BY <2>1
    <2> QED
        BY <1>1, <2>2, UpToTyped DEF TopSelected
<1>3. /\ rest \in Seq(Tables) /\ Len(rest) \in Nat
      /\ \A t \in required \ Range(top) : \E i \in 1 .. Len(rest) : rest[i] = t
    <2> DEFINE ts == required \ Range(top)
    <2>1. ts \in SUBSET Tables
        BY <1>1
    <2> HIDE DEF ts, top
    <2>2. /\ InScore(ts) \in Seq(ts) /\ Len(InScore(ts)) \in Nat
          /\ \A t \in ts : \E i \in 1 .. Len(InScore(ts)) : InScore(ts)[i] = t
        BY <2>1, InScoreListsAll
    <2>3. InScore(ts) \in Seq(Tables)
        BY <2>1, <2>2
    <2> QED
        BY <2>2, <2>3 DEF ts
<1>4. UpTo(MaxTables, Order) \in Seq(Tables) /\ Len(UpTo(MaxTables, Order)) \in Nat
    BY <1>1, UpToTyped
<1>5. Selected = IF top \o rest # <<>> THEN top \o rest ELSE UpTo(MaxTables, Order)
    BY DEF Selected
<1> HIDE DEF top, rest
<1>6. required \subseteq Range(top) \cup Range(rest)
    BY <1>3 DEF Range
<1>7. top \o rest \in Seq(Tables) /\ Len(top \o rest) \in Nat /\ Range(top \o rest) = Range(top) \cup Range(rest)
    <2>1. top \o rest \in Seq(Tables)
        BY <1>2, <1>3
    <2>2. Len(top \o rest) \in Nat
        BY <2>1
    <2> QED
        BY <1>2, <1>3, <2>1, <2>2, RangeConcatenation
<1>8. CASE top \o rest # <<>>
    BY <1>5, <1>6, <1>7, <1>8
<1>9. CASE top \o rest = <<>>
    <2>1. Range(<<>>) = {}
        BY DEF Range
    <2>2. required = {}
        BY <1>6, <1>7, <1>9, <2>1
    <2> QED
        BY <1>4, <1>5, <1>9, <2>2
<1> QED
    BY <1>8, <1>9

LEMMA ExpandedTables ==
    ASSUME NEW names \in Seq(Tables)
    PROVE  /\ Range(names) \subseteq ExpandForJoinPaths(names) /\ ExpandForJoinPaths(names) \subseteq Tables
           /\ \A i, j \in 1 .. Len(names) : i < j =>
                 Range(ShortestPath(graph, names[i], names[j], JoinHops)) \subseteq ExpandForJoinPaths(names)
<1> DEFINE Pairs == {q \in (1 .. Len(names)) \X (1 .. Len(names)) : q[1] < q[2]}
           PathOf(p) == Range(ShortestPath(graph, names[p[1]], names[p[2]], JoinHops))
<1>1. JoinHops \in Nat
    BY RetrievalAssumption
<1>2. Len(names) \in Nat /\ \A i \in 1 .. Len(names) : names[i] \in Tables
    OBVIOUS
<1>3. \A p \in Pairs : PathOf(p) \subseteq Tables
    <2> TAKE p \in Pairs
    <2>1. names[p[1]] \in Tables /\ names[p[2]] \in Tables
        BY <1>2
    <2> QED
        BY <1>1, <2>1, PathTables
<1>4. Range(names) \subseteq Tables
    BY <1>2 DEF Range
<1>5. ExpandForJoinPaths(names) = Range(names) \cup UNION {PathOf(p) : p \in Pairs}
    BY DEF ExpandForJoinPaths
<1>6. \A i, j \in 1 .. Len(names) : i < j =>
         Range(ShortestPath(graph, names[i], names[j], JoinHops)) \subseteq ExpandForJoinPaths(names)
    <2> TAKE i, j \in 1 .. Len(names)
    <2> HAVE i < j
    <2>1. <<i, j>> \in Pairs /\ PathOf(<<i, j>>) = Range(ShortestPath(graph, names[i], names[j], JoinHops))
        OBVIOUS
    <2> HIDE DEF PathOf, Pairs
    <2> QED
        BY <1>5, <2>1
<1> HIDE DEF PathOf, Pairs
<1> QED
    BY <1>3, <1>4, <1>5, <1>6

-----------------------------------------------------------------------------
(* The inductive invariant: the prompt is what was retrieved and what the    *)
(* added tables bring, unless it is the whole schema.                        *)

RetrievalTyped ==
    /\ graph \in Schemas /\ score \in Scores /\ required \in Requirements /\ scope \in Configs
    /\ initial \in Seq(Tables)
    /\ retrieved \in SUBSET Tables /\ extra \in SUBSET Tables /\ prompt \in SUBSET Tables

Widened(added) == retrieved \cup UNION {OwnWidening(retrieved, t) : t \in added}

RetrievalIInv ==
    /\ RetrievalTyped
    /\ prompt = {} => extra = {}
    /\ prompt # {} =>
          /\ initial = Selected /\ retrieved = ExpandForJoinPaths(initial)
          /\ extra \cap retrieved = {}
          /\ prompt = IF extra = {} /\ EffectiveScope(scope) = "full" THEN Tables ELSE Widened(extra)

LEMMA WidenedTyped ==
    ASSUME retrieved \in SUBSET Tables, NEW added \in SUBSET Tables
    PROVE  retrieved \cup added \subseteq Widened(added) /\ Widened(added) \subseteq Tables
<1>1. \A t \in added : {t} \subseteq OwnWidening(retrieved, t) /\ OwnWidening(retrieved, t) \subseteq Tables
    BY OwnWideningLinks
<1> QED
    BY <1>1 DEF Widened

LEMMA RetrievalInitSound == RetrievalInit => RetrievalIInv
<1> SUFFICES ASSUME RetrievalInit PROVE RetrievalIInv
    OBVIOUS
<1>1. <<>> \in Seq(Tables)
    OBVIOUS
<1> QED
    BY <1>1 DEF RetrievalInit, RetrievalIInv, RetrievalTyped

LEMMA BuildPromptSound == ASSUME RetrievalIInv, BuildPrompt PROVE RetrievalIInv'
<1>1. /\ graph \in Schemas /\ score \in Scores /\ required \in Requirements /\ scope \in Configs
      /\ prompt = {} /\ extra = {}
    BY DEF RetrievalIInv, RetrievalTyped, BuildPrompt
<1>2. /\ initial' = Selected /\ retrieved' = ExpandForJoinPaths(Selected)
      /\ prompt' = IF EffectiveScope(scope) = "full" THEN Tables ELSE retrieved'
      /\ graph' = graph /\ score' = score /\ required' = required /\ scope' = scope /\ extra' = extra
    BY DEF BuildPrompt
<1>3. Selected \in Seq(Tables)
    BY <1>1, SelectedTyped
<1>4. ExpandForJoinPaths(Selected) \subseteq Tables
    BY <1>3, ExpandedTables
<1>5. RetrievalTyped'
    BY <1>1, <1>2, <1>3, <1>4 DEF RetrievalTyped
<1>6. Selected' = Selected
    BY <1>2 DEF Selected, TopSelected, InScore, ByScore
<1>7. ExpandForJoinPaths(initial)' = ExpandForJoinPaths(Selected)
    BY <1>2 DEF ExpandForJoinPaths
<1>8. Widened(extra)' = retrieved'
    BY <1>1, <1>2 DEF Widened
<1> QED
    BY <1>1, <1>2, <1>5, <1>6, <1>7, <1>8 DEF RetrievalIInv

LEMMA WidenSound == ASSUME RetrievalIInv, NEW ts \in SUBSET Tables, Widen(ts) PROVE RetrievalIInv'
<1>1. /\ RetrievalTyped /\ prompt # {}
      /\ initial = Selected /\ retrieved = ExpandForJoinPaths(initial)
      /\ extra \cap retrieved = {}
      /\ prompt = IF extra = {} /\ EffectiveScope(scope) = "full" THEN Tables ELSE Widened(extra)
    BY DEF RetrievalIInv, Widen
<1>2. /\ ts # {} /\ ts \cap prompt = {}
      /\ extra' = extra \cup ts /\ prompt' = WidenRetrievedTables(extra')
      /\ UNCHANGED <<graph, score, required, scope, initial, retrieved>>
    BY DEF Widen
<1>3. retrieved \in SUBSET Tables /\ extra \in SUBSET Tables
    BY <1>1 DEF RetrievalTyped
<1>4. retrieved \cup extra \subseteq Widened(extra) /\ Widened(extra) \subseteq Tables
    BY <1>3, WidenedTyped
<1>5. retrieved \subseteq prompt
    BY <1>1, <1>3, <1>4
<1> DEFINE more == extra \cup ts
<1>6. more \in SUBSET Tables /\ more # {} /\ more \cap retrieved = {}
    BY <1>1, <1>2, <1>3, <1>5
<1>7. extra' = more
    BY <1>2
<1> HIDE DEF more
<1>8. WidenRetrievedTables(more) = Widened(more)
    BY <1>6, WidenedIsUnion DEF Widened
<1>9. prompt' = Widened(more)
    BY <1>2, <1>7, <1>8
<1>10. retrieved \cup more \subseteq Widened(more) /\ Widened(more) \subseteq Tables
    BY <1>3, <1>6, WidenedTyped
<1>11. RetrievalTyped'
    BY <1>1, <1>2, <1>6, <1>7, <1>9, <1>10 DEF RetrievalTyped
<1>12. Selected' = Selected
    BY <1>2 DEF Selected, TopSelected, InScore, ByScore
<1>13. ExpandForJoinPaths(initial)' = ExpandForJoinPaths(initial)
    BY <1>2 DEF ExpandForJoinPaths
<1>14. Widened(extra)' = Widened(more)
    <2>1. \A t : OwnWidening(retrieved, t)' = OwnWidening(retrieved, t)
        BY <1>2 DEF OwnWidening, Unlinked, ShortWidening
    <2> QED
        BY <1>2, <1>7, <2>1 DEF Widened
<1>15. prompt' # {} /\ extra' # {}
    BY <1>6, <1>7, <1>9, <1>10
<1> QED
    BY <1>1, <1>2, <1>6, <1>7, <1>9, <1>11, <1>12, <1>13, <1>14, <1>15 DEF RetrievalIInv

\* The prompts of TableRetrieval keep what retrieval selected, and add what rejections add.
THEOREM RetrievalInvariance == RetrievalSpec => []RetrievalIInv
<1>1. RetrievalInit => RetrievalIInv
    BY RetrievalInitSound
<1>2. RetrievalIInv /\ [RetrievalNext]_retrievalVars => RetrievalIInv'
    <2> SUFFICES ASSUME RetrievalIInv, [RetrievalNext]_retrievalVars PROVE RetrievalIInv'
        OBVIOUS
    <2>1. CASE BuildPrompt
        BY <2>1, BuildPromptSound
    <2>2. ASSUME NEW ts \in SUBSET Tables, Widen(ts) PROVE RetrievalIInv'
        BY <2>2, WidenSound
    <2>3. CASE UNCHANGED retrievalVars
        <3>1. /\ graph' = graph /\ score' = score /\ required' = required /\ scope' = scope
              /\ initial' = initial /\ retrieved' = retrieved /\ extra' = extra /\ prompt' = prompt
            BY <2>3 DEF retrievalVars
        <3>2. Selected' = Selected /\ ExpandForJoinPaths(initial)' = ExpandForJoinPaths(initial)
            BY <3>1 DEF Selected, TopSelected, InScore, ByScore, ExpandForJoinPaths
        <3>3. Widened(extra)' = Widened(extra)
            BY <3>1 DEF Widened, OwnWidening, Unlinked, ShortWidening
        <3>4. RetrievalTyped'
            BY <3>1 DEF RetrievalIInv, RetrievalTyped
        <3> QED
            BY <3>1, <3>2, <3>3, <3>4 DEF RetrievalIInv
    <2> QED
        BY <2>1, <2>2, <2>3 DEF RetrievalNext
<1> QED
    BY <1>1, <1>2, PTL DEF RetrievalSpec

LEMMA IInvIsRetrievalJoinable == RetrievalIInv => RetrievalJoinable
<1> SUFFICES ASSUME RetrievalIInv, prompt # {}
             PROVE  /\ required \subseteq prompt
                    /\ \A i, j \in 1 .. Len(initial) :
                          ShortestPath(graph, initial[i], initial[j], JoinHops) # <<>> =>
                              IsLinkedWithin(graph, prompt, initial[i], initial[j])
    BY DEF RetrievalJoinable
<1>1. /\ score \in Scores /\ required \in Requirements /\ initial \in Seq(Tables)
      /\ retrieved \in SUBSET Tables /\ extra \in SUBSET Tables
      /\ initial = Selected /\ retrieved = ExpandForJoinPaths(initial)
      /\ prompt = IF extra = {} /\ EffectiveScope(scope) = "full" THEN Tables ELSE Widened(extra)
    BY DEF RetrievalIInv, RetrievalTyped
<1>2. retrieved \subseteq prompt
    BY <1>1, WidenedTyped
<1>3. required \subseteq Range(initial)
    BY <1>1, SelectedTyped
<1>4. /\ Range(initial) \subseteq retrieved
      /\ \A i, j \in 1 .. Len(initial) : i < j =>
            Range(ShortestPath(graph, initial[i], initial[j], JoinHops)) \subseteq retrieved
    BY <1>1, ExpandedTables
<1>5. JoinHops \in Nat /\ Len(initial) \in Nat /\ \A i \in 1 .. Len(initial) : initial[i] \in Tables
    BY <1>1, RetrievalAssumption
<1>6. ASSUME NEW i \in 1 .. Len(initial), NEW j \in 1 .. Len(initial),
             ShortestPath(graph, initial[i], initial[j], JoinHops) # <<>>
      PROVE  IsLinkedWithin(graph, prompt, initial[i], initial[j])
    <2>1. initial[i] \in Tables /\ initial[j] \in Tables
        BY <1>5
    <2>2. CASE i = j
        BY <2>2, LinkedToItself
    <2>3. CASE i < j
        <3>1. Range(ShortestPath(graph, initial[i], initial[j], JoinHops)) \subseteq prompt
            BY <1>2, <1>4, <2>3
        <3> QED
            BY <1>5, <1>6, <2>1, <3>1, PathLinks
    <2>4. CASE j < i
        <3>1. Range(ShortestPath(graph, initial[j], initial[i], JoinHops)) \subseteq prompt
            BY <1>2, <1>4, <2>4
        <3>2. ShortestPath(graph, initial[j], initial[i], JoinHops) # <<>>
            BY <1>5, <1>6, <2>1, PathBothWays
        <3> QED
            BY <1>5, <2>1, <3>1, <3>2, PathLinks
    <2>5. i = j \/ i < j \/ j < i
        BY <1>5
    <2> QED
        BY <2>2, <2>3, <2>4, <2>5
<1> QED
    BY <1>2, <1>3, <1>4, <1>6

LEMMA IInvIsWidenedJoinable == RetrievalIInv => WidenedIsJoinable
<1> SUFFICES ASSUME RetrievalIInv, NEW t \in extra \ retrieved, NEW c \in retrieved, IsLinkedWithin(graph, Tables, t, c)
             PROVE  IsLinkedWithin(graph, prompt, t, c)
    BY DEF WidenedIsJoinable
<1>1. retrieved \in SUBSET Tables /\ t \in Tables /\ prompt = Widened(extra)
    BY DEF RetrievalIInv, RetrievalTyped
<1>2. IsLinkedWithin(graph, OwnWidening(retrieved, t), t, c)
    BY <1>1, OwnWideningLinks
<1>3. OwnWidening(retrieved, t) \subseteq prompt
    BY <1>1 DEF Widened
<1> QED
    BY <1>2, <1>3, LinkedByMore

LEMMA IInvIsOrderFree == RetrievalIInv => WideningOrderFree
<1> SUFFICES ASSUME RetrievalIInv, NEW ts \in (SUBSET extra) \ {{}}, NEW order \in SetToSeqs(ts \ retrieved)
             PROVE  WidenInTurn(order) \subseteq prompt /\ (ts = extra => WidenInTurn(order) = prompt)
    BY DEF WideningOrderFree
<1>1. extra \in SUBSET Tables /\ extra \cap retrieved = {} /\ prompt = Widened(extra)
    BY DEF RetrievalIInv, RetrievalTyped
<1>2. ts \ retrieved = ts /\ IsFiniteSet(ts) /\ Cardinality(ts) \in Nat
    BY <1>1, TablesAssumption, FS_Subset, FS_CardinalityType
<1> DEFINE n == Cardinality(ts)
<1>3. order \in [1 .. n -> ts] /\ \A i, j \in 1 .. n : i # j => order[i] # order[j]
    BY <1>2 DEF SetToSeqs
<1>4. IsFiniteSet(1 .. n) /\ Cardinality(1 .. n) = n
    BY <1>2, FS_Interval
<1>5. order \in Injection(1 .. n, ts)
    BY <1>3 DEF Injection, IsInjective
<1>6. order \in Surjection(1 .. n, ts)
    BY <1>2, <1>4, <1>5, FS_Injection
<1>7. Len(order) = n /\ Len(order) \in Nat
    BY <1>2, <1>3
<1>8. (\A i \in 1 .. Len(order) : order[i] \in ts) /\ \A t \in ts : \E i \in 1 .. Len(order) : order[i] = t
    BY <1>3, <1>6, <1>7 DEF Surjection
<1>9. WidenInTurn(order) = retrieved \cup UNION {OwnWidening(retrieved, order[i]) : i \in 1 .. Len(order)}
    BY <1>7, WidenInTurnIsUnion
<1>10. {OwnWidening(retrieved, order[i]) : i \in 1 .. Len(order)} = {OwnWidening(retrieved, t) : t \in ts}
    BY <1>8
<1>11. WidenInTurn(order) = Widened(ts)
    BY <1>9, <1>10 DEF Widened
<1>12. Widened(ts) \subseteq Widened(extra)
    BY DEF Widened
<1> QED
    BY <1>1, <1>11, <1>12

\* PromptJoinable: a prompt allows every required table and can join what it shows, before and
\* after every widening, and only the set of added tables decides what it allows.
THEOREM PromptsAreJoinable == RetrievalSpec => []PromptJoinable
<1>1. RetrievalIInv => PromptJoinable
    BY IInvIsRetrievalJoinable, IInvIsWidenedJoinable, IInvIsOrderFree DEF PromptJoinable
<1> QED
    BY <1>1, RetrievalInvariance, PTL
===============================================================================
