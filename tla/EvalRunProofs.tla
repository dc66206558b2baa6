---------------------------- MODULE EvalRunProofs ----------------------------
(*****************************************************************************)
(* Proofs about an evaluation.  EvalPool: for every number of cases,         *)
(* repetitions and lanes, every budget and every bound on the cost of a task, *)
(* records stay true and the budget's overshoot bounded.  EvalGate: for any  *)
(* number of runs, whatever their options, and any edits of the tree, the    *)
(* default baseline stays complete and a gate that passes has tested its     *)
(* run.  CaseRun: for any cases, rules of the validator, retries and faults, *)
(* a repetition is charged to whoever failed.  CaseSummary: a case's summary *)
(* is fair, whatever its repetitions and their order.  HoldoutDisplay: what  *)
(* is printed of any run hides the outcomes of its holdout cases.            *)
(*****************************************************************************)
EXTENDS EvalPool, EvalGate, CaseRun, CaseSummary, HoldoutDisplay, FiniteSetTheorems, SequenceTheorems, WellFoundedInduction, TLAPS

-----------------------------------------------------------------------------
(* The pool: the inductive invariant *)

Runs(l, k) == phase[l] = "running" /\ task[l] = k

\* A lane that runs a task runs it alone, and its result is still open.
Assigned ==
    \A l \in Lanes :
        /\ phase[l] \in {"running", "reporting"} => task[l] \in Tasks /\ task[l] < next
        /\ phase[l] = "running" =>
             /\ record[task[l]] = "none"
             /\ CaseOf(task[l]) \in started
             /\ deadline[l] = "ahead" => task[l] \notin late
             /\ \A m \in Lanes : Runs(m, task[l]) => m = l

\* Where a task is that has no record.
Untaken == \A k \in Tasks : k >= next => record[k] = "none" /\ k \notin late
Pending == \A k \in Tasks : k < next /\ record[k] = "none" => \E l \in Lanes : Runs(l, k)

Endings ==
    /\ \A l \in Lanes : phase[l] = "ended" => ~HasNext
    /\ outcome = "returned" => \A l \in Lanes : phase[l] = "ended"

StartedTaken == \A c \in started : \E k \in Tasks : k < next /\ CaseOf(k) = c

\* The tasks that may still cost something once no new case may start.
Liable == {k \in Tasks : record[k] = "none" /\ CaseOf(k) \in started}

\* Once the budget is reached, what is spent and what may follow stay bounded.
Money ==
    \/ spent < Budget
    \/ spent = 0 /\ started = {}
    \/ spent + MaxCost * Cardinality(Liable) < Budget + Overshoot

PoolIInv ==
    /\ TypeOK
    /\ NoLateVerdict
    /\ Accounted
    /\ Assigned
    /\ Untaken
    /\ Pending
    /\ Endings
    /\ StartedTaken
    /\ Money

-----------------------------------------------------------------------------
(* The cases of the tasks *)

LEMMA Sizes ==
  /\ NumCases \in Nat \ {0} /\ Repeat \in Nat \ {0} /\ NumLanes \in Nat \ {0}
  /\ Budget \in Nat /\ MaxCost \in Nat
  /\ NumCases * Repeat \in Nat
<1>1. /\ NumCases \in Nat \ {0} /\ Repeat \in Nat \ {0} /\ NumLanes \in Nat \ {0}
      /\ Budget \in Nat /\ MaxCost \in Nat
  BY SizesPositive, AmountsNat
<1> QED BY <1>1

\* The repetitions of case c are the tasks (c - 1) * Repeat + 1 to c * Repeat.
LEMMA CaseBounds ==
  ASSUME NEW k \in Nat \ {0}
  PROVE  /\ CaseOf(k) \in Nat \ {0}
         /\ Repeat * (CaseOf(k) - 1) < k
         /\ k <= Repeat * CaseOf(k)
<1> DEFINE q == (k - 1) \div Repeat
<1>1. k - 1 \in Nat /\ Repeat \in Nat /\ Repeat > 0
  BY Sizes
<1>2. q \in Nat /\ Repeat * q <= k - 1 /\ k - 1 < Repeat * (q + 1)
  BY <1>1
<1>3. CaseOf(k) = q + 1
  BY DEF CaseOf
<1> HIDE DEF q
<1> QED BY <1>1, <1>2, <1>3

LEMMA Monotone ==
  ASSUME NEW a \in Nat, NEW b \in Nat, NEW n \in Nat, a <= b
  PROVE  n * a <= n * b
<1>1. PICK d \in Nat : b = a + d
  BY SMT
<1>2. n * b = n * a + n * d /\ n * d \in Nat /\ n * a \in Nat
  BY <1>1
<1> QED BY <1>2

LEMMA CaseOfTask == \A k \in Tasks : CaseOf(k) \in Cases
<1> SUFFICES ASSUME NEW k \in Tasks PROVE CaseOf(k) <= NumCases
  BY CaseBounds, Sizes DEF Tasks, Cases
<1>1. k \in Nat \ {0} /\ k <= NumCases * Repeat
  BY Sizes DEF Tasks
<1>2. CaseOf(k) \in Nat \ {0} /\ Repeat * (CaseOf(k) - 1) < k
  BY <1>1, CaseBounds
<1>3. ASSUME CaseOf(k) > NumCases PROVE FALSE
  <2>1. Repeat * NumCases <= Repeat * (CaseOf(k) - 1)
    BY <1>2, <1>3, Sizes, Monotone
  <2> QED BY <2>1, <1>1, <1>2, Sizes
<1> QED BY <1>2, <1>3, Sizes

\* Later tasks are of the same or a later case, and two of one case are less than
\* Repeat apart.
LEMMA CaseOrder ==
  ASSUME NEW i \in Nat \ {0}, NEW k \in Nat \ {0}, i <= k
  PROVE  /\ CaseOf(i) <= CaseOf(k)
         /\ CaseOf(i) = CaseOf(k) => k < i + Repeat
<1> DEFINE p == CaseOf(i)
           q == CaseOf(k)
<1>1. /\ p \in Nat \ {0} /\ Repeat * (p - 1) < i /\ i <= Repeat * p
      /\ q \in Nat \ {0} /\ Repeat * (q - 1) < k /\ k <= Repeat * q
  BY CaseBounds
<1> HIDE DEF p, q
<1>2. ASSUME q < p PROVE FALSE
  <2>1. Repeat * q <= Repeat * (p - 1)
    BY <1>1, <1>2, Sizes, Monotone
  <2> QED BY <2>1, <1>1, Sizes
<1>3. ASSUME p = q PROVE k < i + Repeat
  <2>1. Repeat * q = Repeat * (p - 1) + Repeat
    BY <1>1, <1>3, Sizes
  <2> QED BY <2>1, <1>1, Sizes
<1> QED BY <1>1, <1>2, <1>3 DEF p, q

-----------------------------------------------------------------------------
(* Counting what may still cost something *)

LEMMA LiableFinite == IsFiniteSet(Liable) /\ Cardinality(Liable) \in Nat
<1>1. IsFiniteSet(Tasks)
  BY FS_Interval, Sizes DEF Tasks
<1>2. Liable \in SUBSET Tasks
  BY DEF Liable
<1>3. IsFiniteSet(Liable)
  BY <1>1, <1>2, FS_Subset
<1> QED BY <1>3, FS_CardinalityType

\* The lanes run at most NumLanes tasks, and at most Repeat - 1 tasks of started cases
\* have not been taken.
LEMMA LiableFew ==
  ASSUME PoolIInv
  PROVE  Cardinality(Liable) <= NumLanes + Repeat - 1
<1> DEFINE LanesRunning == {k \in Tasks : \E l \in Lanes : Runs(l, k)}
           Left == next .. next + Repeat - 2
           laneOf == [k \in LanesRunning |-> CHOOSE l \in Lanes : Runs(l, k)]
<1>0. next \in Nat \ {0} /\ Repeat \in Nat \ {0} /\ NumLanes \in Nat
  BY Sizes DEF PoolIInv, TypeOK
<1>1. IsFiniteSet(Lanes) /\ Cardinality(Lanes) = NumLanes
  BY FS_Interval, Sizes DEF Lanes
<1>2. laneOf \in Injection(LanesRunning, Lanes)
  <2>1. \A k \in LanesRunning : laneOf[k] \in Lanes /\ Runs(laneOf[k], k)
    OBVIOUS
  <2>2. laneOf \in [LanesRunning -> Lanes]
    BY <2>1
  <2>3. \A j, k \in LanesRunning : laneOf[j] = laneOf[k] => j = k
    BY <2>1 DEF Runs
  <2> QED BY <2>2, <2>3 DEF Injection, IsInjective
<1>3. IsFiniteSet(LanesRunning) /\ Cardinality(LanesRunning) <= NumLanes
  BY <1>1, <1>2, FS_Injection
<1>4. IsFiniteSet(Left) /\ Cardinality(Left) = Repeat - 1
  BY <1>0, FS_Interval
<1>5. Liable \subseteq LanesRunning \cup Left
  <2> SUFFICES ASSUME NEW k \in Liable, k >= next PROVE k \in Left
    BY <1>0 DEF Liable, PoolIInv, Pending, Tasks
  <2>1. k \in Tasks /\ k \in Nat \ {0} /\ CaseOf(k) \in started
    BY Sizes DEF Liable, Tasks
  <2>2. PICK i \in Tasks : i < next /\ CaseOf(i) = CaseOf(k)
    BY <2>1 DEF PoolIInv, StartedTaken
  <2>3. i \in Nat \ {0} /\ next - 1 \in Nat \ {0} /\ i <= next - 1 /\ next - 1 <= k
    BY <1>0, <2>1, <2>2 DEF Tasks
  <2>4. /\ CaseOf(i) <= CaseOf(next - 1)
        /\ CaseOf(next - 1) <= CaseOf(k)
        /\ CaseOf(next - 1) = CaseOf(k) => k < next - 1 + Repeat
    BY <2>1, <2>3, CaseOrder
  <2>5. CaseOf(i) \in Nat /\ CaseOf(next - 1) \in Nat /\ CaseOf(k) \in Nat
    BY <2>1, <2>3, CaseBounds
  <2>6. k < next - 1 + Repeat
    BY <2>2, <2>4, <2>5
  <2> QED BY <2>1, <2>6, <1>0
<1> HIDE DEF LanesRunning, Left
<1>6. /\ IsFiniteSet(LanesRunning \cup Left)
      /\ Cardinality(LanesRunning \cup Left) =
            Cardinality(LanesRunning) + Cardinality(Left) - Cardinality(LanesRunning \cap Left)
  BY <1>3, <1>4, FS_Union
<1>7. LanesRunning \cap Left \in SUBSET LanesRunning /\ Liable \in SUBSET (LanesRunning \cup Left)
  BY <1>5
<1>8. Cardinality(LanesRunning \cap Left) \in Nat /\ Cardinality(LanesRunning) \in Nat
  BY <1>3, <1>7, FS_Subset, FS_CardinalityType
<1>9. Cardinality(Liable) <= Cardinality(LanesRunning \cup Left)
  BY <1>6, <1>7, FS_Subset
<1> QED BY <1>0, <1>3, <1>4, <1>6, <1>8, <1>9, LiableFinite

\* What may still be spent does not grow while nothing new starts.
LEMMA MoneyKept ==
  ASSUME PoolIInv, spent' = spent, started' = started, Liable' \subseteq Liable
  PROVE  Money'
<1>1. IsFiniteSet(Liable) /\ Cardinality(Liable) \in Nat
  BY LiableFinite
<1>2. Cardinality(Liable') \in Nat /\ Cardinality(Liable') <= Cardinality(Liable)
  BY <1>1, FS_Subset, FS_CardinalityType
<1>3. Cardinality(Liable)' = Cardinality(Liable')
  OBVIOUS
<1>4. MaxCost * Cardinality(Liable') <= MaxCost * Cardinality(Liable)
  BY <1>1, <1>2, Sizes, Monotone
<1>5. MaxCost * Cardinality(Liable') \in Nat /\ MaxCost * Cardinality(Liable) \in Nat
  BY <1>1, <1>2, Sizes
<1>6. Overshoot \in Nat /\ spent \in Nat
  BY Sizes DEF Overshoot, PoolIInv, TypeOK
<1> QED BY <1>2, <1>4, <1>5, <1>6, Sizes DEF PoolIInv, Money, Overshoot

LEMMA MoneyArithmetic ==
  ASSUME NEW a \in Nat, NEW c \in Nat, NEW m \in Nat, NEW x \in Nat, NEW y \in Nat,
         NEW b \in Nat, NEW v \in Nat, NEW a2 \in {a, a + c}, c <= m, x = y + m
  PROVE  /\ a < b /\ x <= v => a2 < b \/ a2 + y < b + v
         /\ a + x < b + v => a2 + y < b + v
  OBVIOUS

\* A task that ends takes its cost out of what may still be spent.
LEMMA MoneySpent ==
  ASSUME PoolIInv, NEW k \in Liable, NEW cost \in Costs,
         spent' \in {spent, spent + cost}, started' = started, Liable' = Liable \ {k}
  PROVE  Money'
<1> DEFINE n == Cardinality(Liable)
<1>1. /\ n \in Nat /\ n <= NumLanes + Repeat - 1
      /\ Cardinality(Liable') = n - 1 /\ n - 1 \in Nat
  <2>1. IsFiniteSet(Liable) /\ n \in Nat
    BY LiableFinite
  <2>2. Cardinality(Liable \ {k}) = n - 1 /\ IsFiniteSet(Liable \ {k})
    BY <2>1, FS_RemoveElement
  <2>3. Cardinality(Liable \ {k}) \in Nat
    BY <2>2, FS_CardinalityType
  <2> QED BY <2>1, <2>2, <2>3, LiableFew
<1>2. cost \in Nat /\ cost <= MaxCost /\ spent \in Nat /\ Overshoot \in Nat
  BY Sizes DEF Costs, PoolIInv, TypeOK, Overshoot
<1>3. MaxCost * n = MaxCost * (n - 1) + MaxCost /\ MaxCost * (n - 1) \in Nat /\ MaxCost * n \in Nat
  BY <1>1, Sizes
<1>4. MaxCost * n <= Overshoot
  <2>1. NumLanes + Repeat - 1 \in Nat
    BY Sizes
  <2> QED BY <1>1, <2>1, Sizes, Monotone DEF Overshoot
<1>5. started # {}
  BY DEF Liable
<1>6. Cardinality(Liable)' = n - 1 /\ Overshoot' = Overshoot
  BY <1>1 DEF Overshoot
<1> HIDE DEF n
<1>7. CASE spent < Budget
  <2>1. spent' < Budget \/ spent' + MaxCost * (n - 1) < Budget + Overshoot
    BY <1>2, <1>3, <1>4, <1>7, Sizes, MoneyArithmetic
  <2> QED BY <2>1, <1>6 DEF Money
<1>8. CASE spent + MaxCost * n < Budget + Overshoot
  <2>1. spent' + MaxCost * (n - 1) < Budget + Overshoot
    BY <1>2, <1>3, <1>8, Sizes, MoneyArithmetic
  <2> QED BY <2>1, <1>6 DEF Money
<1> QED BY <1>5, <1>7, <1>8 DEF PoolIInv, Money, n

-----------------------------------------------------------------------------
(* The invariant is inductive *)

LEMMA PoolInitSound == Init => PoolIInv
<1> SUFFICES ASSUME Init PROVE PoolIInv
  OBVIOUS
<1> USE DEF Init
<1>1. TypeOK
  BY Sizes DEF TypeOK
<1>2. NoLateVerdict /\ Accounted /\ Untaken /\ StartedTaken /\ Money
  BY DEF NoLateVerdict, Accounted, Untaken, StartedTaken, Money
<1>3. Assigned /\ Endings
  BY DEF Assigned, Endings
<1>4. Pending
  BY DEF Pending, Tasks
<1> QED BY <1>1, <1>2, <1>3, <1>4 DEF PoolIInv

\* A lane, not running a task, takes the next one.
LEMMA TakeNextKeeps ==
  ASSUME PoolIInv, NEW l \in Lanes, phase[l] \in {"unstarted", "reporting"}, TakeNext(l),
         UNCHANGED <<limited, deadline, grace, stopped, spent, unseen, late>>
  PROVE  PoolIInv'
<1> DEFINE c == CaseOf(next)
<1>1. next \in Tasks /\ c \in Cases
  BY CaseOfTask, Sizes DEF TakeNext, HasNext, PoolIInv, TypeOK, Tasks
<1>2. record[next] = "none" /\ next \notin late
  BY <1>1, Sizes DEF PoolIInv, Untaken, Tasks
<1>3. /\ next' = next + 1 /\ task' = [task EXCEPT ![l] = next] /\ outcome' = outcome
      /\ UNCHANGED <<limited, deadline, grace, stopped, spent, unseen, late>>
  BY DEF TakeNext
<1>4. \A m \in Lanes : phase[m] \in {"running", "reporting"} => task[m] \in Tasks /\ task[m] < next
  BY DEF PoolIInv, Assigned
<1> HIDE DEF c
<1>5. CASE /\ phase' = [phase EXCEPT ![l] = "reporting"]
           /\ \E s \in {"cancelled", "skipped"} : record' = [record EXCEPT ![next] = s]
           /\ started' = started
           /\ cancelled' = IF record'[next] = "cancelled" THEN cancelled \cup {c} ELSE cancelled
           /\ skipped' = IF record'[next] = "skipped" THEN skipped \cup {c} ELSE skipped
           /\ record'[next] = "skipped" => c \notin started
  <2> USE <1>5
  <2>0. TypeOK
    BY DEF PoolIInv
  <2>1. TypeOK'
    BY <1>1, <1>3, <2>0, Sizes DEF TypeOK, HasNext, Tasks
  <2>2. NoLateVerdict'
    BY <1>2, <1>3, <2>0 DEF PoolIInv, NoLateVerdict, TypeOK
  <2>3. Accounted'
    <3>1. \A k \in Tasks : record'[k] = IF k = next THEN record'[next] ELSE record[k]
      BY <1>1, <2>0 DEF TypeOK
    <3>2. record'[next] \in {"cancelled", "skipped"}
      BY <1>1, <2>0 DEF TypeOK
    <3>3. {CaseOf(k) : k \in {i \in Tasks : record'[i] = "skipped"}} =
             {CaseOf(k) : k \in {i \in Tasks : record[i] = "skipped"}}
               \cup (IF record'[next] = "skipped" THEN {c} ELSE {})
      BY <1>1, <1>2, <3>1, <3>2 DEF c
    <3>4. {CaseOf(k) : k \in {i \in Tasks : record'[i] = "cancelled"}} =
             {CaseOf(k) : k \in {i \in Tasks : record[i] = "cancelled"}}
               \cup (IF record'[next] = "cancelled" THEN {c} ELSE {})
      BY <1>1, <1>2, <3>1, <3>2 DEF c
    <3>5. outcome # "returned"
      BY DEF PoolIInv, Endings
    <3> QED BY <1>3, <3>3, <3>4, <3>5 DEF PoolIInv, Accounted
  <2>4. Assigned'
    BY <1>1, <1>3, <1>4, <2>0, Sizes DEF PoolIInv, Assigned, Runs, TypeOK, Tasks
  <2>5. Untaken'
    BY <1>1, <1>3, <2>0, Sizes DEF PoolIInv, Untaken, TypeOK, Tasks
  <2>6. Pending'
    BY <1>1, <1>3, <2>0, Sizes DEF PoolIInv, Pending, Runs, TypeOK, Tasks
  <2>7. Endings'
    BY <1>3, <2>0 DEF PoolIInv, Endings, HasNext, TypeOK, TakeNext
  <2>8. StartedTaken'
    BY <1>1, <1>3, <2>0, Sizes DEF PoolIInv, StartedTaken, TypeOK, Tasks
  <2>9. Liable' \subseteq Liable
    BY <2>0, <1>2 DEF Liable, TypeOK
  <2>10. Money'
    BY <1>3, <2>9, MoneyKept
  <2> QED BY <2>1, <2>2, <2>3, <2>4, <2>5, <2>6, <2>7, <2>8, <2>10 DEF PoolIInv
<1>6. CASE /\ phase' = [phase EXCEPT ![l] = "running"]
           /\ started' = started \cup {c}
           /\ UNCHANGED <<record, skipped, cancelled>>
           /\ c \in started \/ (c \notin skipped /\ spent < Budget)
  <2> USE <1>6
  <2>0. TypeOK
    BY DEF PoolIInv
  <2>1. TypeOK'
    BY <1>1, <1>3, <2>0, Sizes DEF TypeOK, Tasks
  <2>2. NoLateVerdict'
    BY <1>3 DEF PoolIInv, NoLateVerdict
  <2>3. Accounted'
    <3>1. outcome # "returned"
      BY DEF PoolIInv, Endings
    <3> QED BY <1>3, <3>1 DEF PoolIInv, Accounted
  <2>4. Assigned'
    BY <1>1, <1>2, <1>3, <1>4, <2>0, Sizes DEF PoolIInv, Assigned, Runs, TypeOK, Tasks, c
  <2>5. Untaken'
    BY <1>1, <1>3, <2>0, Sizes DEF PoolIInv, Untaken, TypeOK, Tasks
  <2>6. Pending'
    BY <1>1, <1>3, <2>0, Sizes DEF PoolIInv, Pending, Runs, TypeOK, Tasks
  <2>7. Endings'
    BY <1>3, <2>0 DEF PoolIInv, Endings, HasNext, TypeOK, TakeNext
  <2>8. StartedTaken'
    <3>1. \A d \in started : \E k \in Tasks : k < next' /\ CaseOf(k) = d
      BY <1>1, <1>3, Sizes DEF PoolIInv, StartedTaken, Tasks
    <3>2. next < next' /\ CaseOf(next) = c
      BY <1>1, <1>3, Sizes DEF Tasks, c
    <3> QED BY <1>1, <3>1, <3>2 DEF StartedTaken
  <2>9. Money'
    <3>1. CASE c \in started
      <4>1. started' = started /\ Liable' = Liable
        BY <3>1 DEF Liable
      <4> QED BY <1>3, <4>1, MoneyKept
    <3>2. CASE spent < Budget
      BY <1>3, <3>2 DEF Money
    <3> QED BY <3>1, <3>2
  <2> QED BY <2>1, <2>2, <2>3, <2>4, <2>5, <2>6, <2>7, <2>8, <2>9 DEF PoolIInv
<1> QED
  <2>1. CASE stopped
    BY <2>1, <1>1, <1>5 DEF TakeNext, Goes, PoolIInv, TypeOK, c
  <2>2. CASE ~stopped /\ OverBudget(c)
    BY <2>2, <1>1, <1>5 DEF TakeNext, Goes, PoolIInv, TypeOK, OverBudget, c
  <2>3. CASE ~stopped /\ ~OverBudget(c)
    <3>1. c \in started \/ (c \notin skipped /\ spent < Budget)
      BY <2>3, Sizes DEF OverBudget, PoolIInv, TypeOK
    <3> QED BY <2>3, <3>1, <1>6 DEF TakeNext, Goes, c
  <2> QED BY <2>1, <2>2, <2>3

LEMMA LaneEndsKeeps ==
  ASSUME PoolIInv, NEW l \in Lanes, phase[l] \in {"unstarted", "reporting"}, LaneEnds(l),
         UNCHANGED <<limited, deadline, grace, stopped, spent, unseen, late>>
  PROVE  PoolIInv'
<1> USE DEF LaneEnds, Goes
<1>0. TypeOK
  BY DEF PoolIInv
<1>1. TypeOK'
  BY <1>0 DEF TypeOK
<1>2. NoLateVerdict' /\ Untaken' /\ StartedTaken'
  BY DEF PoolIInv, NoLateVerdict, Untaken, StartedTaken
<1>3. Assigned'
  BY <1>0 DEF PoolIInv, Assigned, Runs, TypeOK
<1>4. Pending'
  BY <1>0 DEF PoolIInv, Pending, Runs, TypeOK
<1>5. Endings'
  BY <1>0 DEF PoolIInv, Endings, HasNext, TypeOK
<1>6. Accounted'
  <2>1. ASSUME outcome' = "returned", NEW k \in Tasks PROVE record[k] # "none"
    <3>1. \A m \in Lanes : phase'[m] = "ended"
      BY <1>5, <2>1 DEF Endings
    <3>2. k < next
      BY <1>0, Sizes DEF HasNext, Tasks, TypeOK
    <3>3. ~ \E m \in Lanes : Runs(m, k)'
      BY <3>1 DEF Runs
    <3> QED BY <1>4, <3>2, <3>3 DEF Pending
  <2> QED BY <2>1 DEF PoolIInv, Accounted
<1>7. Money'
  <2>1. Liable' = Liable
    BY DEF Liable
  <2> QED BY <2>1, MoneyKept
<1> QED BY <1>1, <1>2, <1>3, <1>4, <1>5, <1>6, <1>7 DEF PoolIInv

LEMMA LoopKeeps ==
  ASSUME PoolIInv, NEW l \in Lanes, LaneStarts(l) \/ Reported(l)
  PROVE  PoolIInv'
BY TakeNextKeeps, LaneEndsKeeps DEF LaneStarts, Reported, Loop

LEMMA ReportFailsKeeps ==
  ASSUME PoolIInv, NEW l \in Lanes, ReportFails(l)
  PROVE  PoolIInv'
<1> USE DEF ReportFails, Goes
<1>0. TypeOK
  BY DEF PoolIInv
<1>1. TypeOK'
  BY <1>0 DEF TypeOK
<1>2. NoLateVerdict' /\ Untaken' /\ StartedTaken' /\ Accounted'
  BY DEF PoolIInv, NoLateVerdict, Untaken, StartedTaken, Accounted
<1>3. Assigned'
  BY <1>0 DEF PoolIInv, Assigned, Runs, TypeOK
<1>4. Pending'
  BY <1>0 DEF PoolIInv, Pending, Runs, TypeOK
<1>5. Endings'
  BY <1>0 DEF PoolIInv, Endings, HasNext, TypeOK
<1>6. Money'
  <2>1. Liable' = Liable
    BY DEF Liable
  <2> QED BY <2>1, MoneyKept
<1> QED BY <1>1, <1>2, <1>3, <1>4, <1>5, <1>6 DEF PoolIInv

\* The task of a lane ends, by itself or abandoned.
LEMMA EndsKeeps ==
  ASSUME PoolIInv, NEW l \in Lanes, phase[l] = "running",
         NEW s \in {"kept", "timeout", "cancelled"}, s = "kept" => deadline[l] = "ahead",
         Ends(l, s), NEW cost \in Costs, spent' \in {spent, spent + cost}, unseen' \in Nat
  PROVE  PoolIInv'
<1> DEFINE k == task[l]
           c == CaseOf(k)
<1>0. TypeOK
  BY DEF PoolIInv
<1>1. /\ k \in Tasks /\ k < next /\ record[k] = "none" /\ c \in started /\ c \in Cases
      /\ deadline[l] = "ahead" => k \notin late
      /\ \A m \in Lanes : Runs(m, k) => m = l
  BY CaseOfTask DEF PoolIInv, Assigned
<1>2. /\ phase' = [phase EXCEPT ![l] = "reporting"]
      /\ record' = [record EXCEPT ![k] = s]
      /\ cancelled' = IF s = "cancelled" THEN cancelled \cup {c} ELSE cancelled
      /\ deadline' = [deadline EXCEPT ![l] = "ahead"]
      /\ grace' = [grace EXCEPT ![l] = FALSE]
      /\ UNCHANGED <<limited, next, task, stopped, started, skipped, late, outcome>>
  BY DEF Ends, Goes
<1>3. \A m \in Lanes \ {l} : phase'[m] = phase[m] /\ deadline'[m] = deadline[m] /\ ~Runs(m, k)
  BY <1>0, <1>1, <1>2 DEF TypeOK
<1> HIDE DEF k, c
<1>4. TypeOK'
  BY <1>0, <1>1, <1>2, Sizes DEF TypeOK, Costs
<1>5. NoLateVerdict'
  BY <1>0, <1>1, <1>2 DEF PoolIInv, NoLateVerdict, TypeOK
<1>6. Accounted'
  <2>1. \A i \in Tasks : record'[i] = IF i = k THEN s ELSE record[i]
    BY <1>0, <1>1, <1>2 DEF TypeOK
  <2>2. {CaseOf(j) : j \in {i \in Tasks : record'[i] = "skipped"}} =
           {CaseOf(j) : j \in {i \in Tasks : record[i] = "skipped"}}
    BY <1>1, <2>1
  <2>3. {CaseOf(j) : j \in {i \in Tasks : record'[i] = "cancelled"}} =
           {CaseOf(j) : j \in {i \in Tasks : record[i] = "cancelled"}}
             \cup (IF s = "cancelled" THEN {c} ELSE {})
    BY <1>1, <2>1 DEF c
  <2>4. outcome # "returned"
    BY DEF PoolIInv, Endings
  <2> QED BY <1>2, <2>2, <2>3, <2>4 DEF PoolIInv, Accounted
<1>7. Assigned'
  BY <1>0, <1>1, <1>2, <1>3 DEF PoolIInv, Assigned, Runs, TypeOK, k
<1>8. Untaken'
  BY <1>0, <1>1, <1>2, Sizes DEF PoolIInv, Untaken, TypeOK, Tasks
<1>9. Pending'
  BY <1>0, <1>1, <1>2 DEF PoolIInv, Pending, Runs, TypeOK, k
<1>10. Endings' /\ StartedTaken'
  BY <1>0, <1>2 DEF PoolIInv, Endings, HasNext, TypeOK, StartedTaken
<1>11. Money'
  <2>1. k \in Liable
    BY <1>1 DEF Liable, c
  <2>2. Liable' = Liable \ {k}
    BY <1>0, <1>1, <1>2 DEF Liable, TypeOK
  <2> QED BY <1>2, <2>1, <2>2, MoneySpent
<1> QED BY <1>4, <1>5, <1>6, <1>7, <1>8, <1>9, <1>10, <1>11 DEF PoolIInv

LEMMA TaskEndsKeeps ==
  ASSUME PoolIInv, NEW l \in Lanes, NEW end \in {"result", "aborted", "threw"}, NEW cost \in Costs,
         TaskEnds(l, end, cost)
  PROVE  PoolIInv'
<1>1. spent' \in {spent, spent + cost} /\ unseen' \in Nat
  BY Sizes DEF TaskEnds, PoolIInv, TypeOK, Costs
<1> QED BY <1>1, EndsKeeps DEF TaskEnds, Verdict

LEMMA AbandonKeeps ==
  ASSUME PoolIInv, NEW l \in Lanes, NEW cost \in Costs, Abandon(l, cost)
  PROVE  PoolIInv'
<1>1. spent' \in {spent, spent + cost} /\ unseen' \in Nat
  BY Sizes DEF Abandon, PoolIInv, TypeOK, Costs
<1> QED BY <1>1, EndsKeeps DEF Abandon

LEMMA DeadlinePassesKeeps ==
  ASSUME PoolIInv, NEW l \in Lanes, DeadlinePasses(l)
  PROVE  PoolIInv'
<1> USE DEF DeadlinePasses
<1>0. TypeOK
  BY DEF PoolIInv
<1>1. /\ task[l] \in Tasks /\ task[l] < next /\ record[task[l]] = "none"
      /\ \A m \in Lanes : Runs(m, task[l]) => m = l
  BY DEF PoolIInv, Assigned
<1>2. TypeOK'
  BY <1>0, <1>1 DEF TypeOK
<1>3. NoLateVerdict'
  BY <1>1 DEF PoolIInv, NoLateVerdict
<1>4. Assigned'
  BY <1>0, <1>1 DEF PoolIInv, Assigned, Runs, TypeOK
<1>5. Untaken'
  BY <1>0, <1>1, Sizes DEF PoolIInv, Untaken, TypeOK, Tasks
<1>6. Accounted' /\ Endings' /\ StartedTaken'
  BY DEF PoolIInv, Accounted, Endings, HasNext, StartedTaken
<1>7. Pending'
  BY DEF PoolIInv, Pending, Runs
<1>8. Money'
  <2>1. Liable' = Liable
    BY DEF Liable
  <2> QED BY <2>1, MoneyKept
<1> QED BY <1>2, <1>3, <1>4, <1>5, <1>6, <1>7, <1>8 DEF PoolIInv

\* The timers of a lane, the stop and stuttering change no record.
LEMMA TimersKeep ==
  ASSUME PoolIInv, (\E l \in Lanes : DeadlineFires(l)) \/ Stop \/ UNCHANGED vars
  PROVE  PoolIInv'
<1>0. TypeOK
  BY DEF PoolIInv
<1>1. UNCHANGED <<limited, next, phase, task, record, started, skipped, cancelled, spent,
                  unseen, late, outcome>>
  BY DEF DeadlineFires, Stop, vars
<1>2. \A l \in Lanes : deadline'[l] = "ahead" => deadline[l] = "ahead"
  BY <1>0 DEF DeadlineFires, Stop, vars, TypeOK
<1>3. TypeOK'
  BY <1>0 DEF TypeOK, DeadlineFires, Stop, vars
<1>4. NoLateVerdict' /\ Accounted' /\ Untaken' /\ Endings' /\ StartedTaken'
  BY <1>1 DEF PoolIInv, NoLateVerdict, Accounted, Untaken, Endings, HasNext, StartedTaken
<1>5. Assigned' /\ Pending'
  BY <1>1, <1>2 DEF PoolIInv, Assigned, Pending, Runs
<1>6. Money'
  <2>1. Liable' = Liable
    BY <1>1 DEF Liable
  <2> QED BY <1>1, <2>1, MoneyKept
<1> QED BY <1>3, <1>4, <1>5, <1>6 DEF PoolIInv

-----------------------------------------------------------------------------
(* Results *)

(* The pool: the inductive invariant holds in every reachable state.                     *)
THEOREM PoolInvariance == Spec => []PoolIInv
<1>1. ASSUME PoolIInv, [Next]_vars PROVE PoolIInv'
  BY <1>1, LoopKeeps, ReportFailsKeeps, TaskEndsKeeps, AbandonKeeps, DeadlinePassesKeeps,
     TimersKeep DEF Next, LaneStep
<1> QED BY PoolInitSound, <1>1, PTL DEF Spec

(* A task that was still running when its deadline passed never keeps its own   *)
(* verdict (pool.js lateTimeoutResult).                                        *)
THEOREM NoLateVerdictHolds == Spec => []NoLateVerdict
<1>1. PoolIInv => NoLateVerdict
  BY DEF PoolIInv
<1> QED BY PoolInvariance, <1>1, PTL

(* The skipped and cancelled lists are those of the records, a skipped case did  *)
(* not run, and a run that returns has a record of every task.                  *)
THEOREM AccountedHolds == Spec => []Accounted
<1>1. PoolIInv => Accounted
  BY DEF PoolIInv
<1> QED BY PoolInvariance, <1>1, PTL

(* What finished tasks report exceeds the budget by less than NumLanes + Repeat - 1  *)
(* tasks may cost.                                                              *)
THEOREM OvershootBoundedHolds == Spec => []OvershootBounded
<1>1. ASSUME PoolIInv PROVE OvershootBounded
  <2>1. Cardinality(Liable) \in Nat /\ spent \in Nat /\ Overshoot \in Nat
    BY <1>1, LiableFinite, Sizes DEF PoolIInv, TypeOK, Overshoot
  <2>2. MaxCost * Cardinality(Liable) \in Nat
    BY <2>1, Sizes
  <2>3. CASE spent < Budget
    <3>1. spent < Budget + Overshoot
      BY <2>1, <2>3, Sizes
    <3> QED BY <3>1 DEF OvershootBounded
  <2>4. CASE spent + MaxCost * Cardinality(Liable) < Budget + Overshoot
    <3>1. spent < Budget + Overshoot
      BY <2>1, <2>2, <2>4, Sizes
    <3> QED BY <3>1 DEF OvershootBounded
  <2> QED BY <1>1, <2>3, <2>4 DEF PoolIInv, Money, OvershootBounded
<1> QED BY PoolInvariance, <1>1, PTL

-----------------------------------------------------------------------------
(* The inductive invariant.                                                  *)

\* One record per case, with as many repetitions as every run makes.
WellFormed(report) ==
    /\ \A e \in report :
        /\ e.id \in CaseIds /\ e.gold \in Golds /\ e.reps \in Seq(Recorded)
        /\ \A day \in RunDays, c \in CaseIds : DOMAIN e.reps = DOMAIN day[c]
    /\ \A e, f \in report : e.id = f.id => e = f

Shape ==
    /\ reference = [r \in GateRuns |-> reference[r]]
    /\ mine = [r \in GateRuns |-> mine[r]]
    /\ held = [r \in GateRuns |-> held[r]]

SuiteIsKnown == suite \in suites

\* What a run selected: cases its filters leave, each once; all of a suite for the default baseline.
Selected(r) ==
    /\ stage[r] \in {"off", "select"} => picked[r] = {}
    /\ \A c \in picked[r] : c.id \in opt[r].only
    /\ \A c, d \in picked[r] : c.id = d.id => c = d
    /\ stage[r] \in {"load", "run"} /\ opt[r].write = "default" => \E s \in suites : picked[r] = CasesOf(s)

\* A gate that got past the command line has something to gate with.
HasReference(r) ==
    /\ stage[r] \in {"select", "load", "run"} /\ opt[r].gate /\ ~opt[r].min /\ opt[r].mode = "live" =>
           opt[r].against # "none"
    /\ stage[r] # "off" => file \in held[r]

\* What it compares with is a baseline there was since it began, or the report that was named.
Compared(r) ==
    stage[r] = "run" =>
        /\ WellFormed(reference[r])
        /\ opt[r].mode = "live" /\ opt[r].against = "default" => reference[r] \in held[r]
        /\ opt[r].mode = "live" /\ opt[r].against = "other" => reference[r] # {}
        /\ opt[r].mode = "rescore" =>
            /\ WellFormed(mine[r]) /\ \A e \in mine[r] : e.id \in opt[r].only
            /\ ~NamesReport(opt[r]) => \E f \in held[r] : reference[r] = {e \in f : e.id \in opt[r].only}

GateIInv ==
    /\ GateTypeOK /\ Shape /\ SuiteIsKnown /\ WellFormed(file) /\ BaselineIsComplete
    /\ \A r \in GateRuns : Selected(r) /\ HasReference(r) /\ Compared(r)
    /\ GateHasTested

-----------------------------------------------------------------------------
(* Repetitions: what a run makes of them today, and which spoil it.          *)

ProductBuckets == {"pass", "model", "system"}

LEMMA DayTypes ==
    ASSUME NEW day \in RunDays, NEW c \in CaseIds
    PROVE  day[c] \in Seq(Repetition) /\ \A i \in DOMAIN day[c] : day[c][i] \in Repetition
<1>1. day \in [CaseIds -> Seq(Repetition)]
    BY ReportAssumption
<1>2. day[c] \in Seq(Repetition)
    BY <1>1
<1> QED
    BY <1>2

LEMMA TodayTypes ==
    ASSUME NEW list \in Seq(Repetition)
    PROVE  /\ Today(list) \in Seq(Recorded) /\ DOMAIN Today(list) = DOMAIN list
           /\ \A i \in DOMAIN list :
                /\ Today(list)[i] \in Recorded /\ Today(list)[i].kept = FALSE
                /\ Today(list)[i].outcome = list[i].outcome /\ Today(list)[i].bucket = list[i].bucket
<1>1. DOMAIN list = 1 .. Len(list) /\ Len(list) \in Nat
    OBVIOUS
<1>2. ASSUME NEW i \in DOMAIN list
      PROVE  /\ Today(list)[i] \in Recorded /\ Today(list)[i].kept = FALSE
             /\ Today(list)[i].outcome = list[i].outcome /\ Today(list)[i].bucket = list[i].bucket
    <2>1. list[i] \in Repetition
        BY <1>2
    <2> QED
        BY <2>1 DEF Today, Recorded, Repetition
<1>3. DOMAIN Today(list) = DOMAIN list
    BY DEF Today
<1>4. Today(list) \in [1 .. Len(list) -> Recorded]
    BY <1>1, <1>2, <1>3 DEF Today
<1>5. Today(list) \in Seq(Recorded)
    BY <1>1, <1>4, SeqDef
<1> QED
    BY <1>2, <1>3, <1>5

\* A repetition that does not spoil the run is a verdict on the product, or was skipped.
LEMMA UnspoiledIsVerdict ==
    ASSUME NEW rep \in Recorded, NEW was \in Repetition, rep.kept = FALSE,
           rep.outcome = was.outcome, rep.bucket = was.bucket, ~Spoils(rep)
    PROVE  rep.bucket \in ProductBuckets \/ rep.outcome = "skipped_budget"
<1>1. \/ rep.bucket = BucketOf(rep.outcome)
      \/ rep.bucket = "system"
    BY DEF Repetition
<1>2. rep.outcome \notin {"expected_sql_error", "harness_error", "infra_error", "llm_outage", "timeout", "aborted",
                          "cancelled"}
    BY DEF Spoils
<1>3. BucketOf(rep.outcome) \in ProductBuckets \/ rep.outcome = "skipped_budget"
    BY <1>2 DEF BucketOf, ProductBuckets
<1> QED
    BY <1>1, <1>3 DEF ProductBuckets

-----------------------------------------------------------------------------
(* Reports.                                                                  *)

LEMMA InitialReports ==
    ASSUME NEW report \in Earlier
    PROVE  WellFormed(report)
BY ReportAssumption DEF WellFormed

LEMMA EmptyReport == WellFormed({}) /\ HasVerdicts({})
BY DEF WellFormed, HasVerdicts

LEMMA FilteredReport ==
    ASSUME NEW report, WellFormed(report), NEW only
    PROVE  WellFormed({e \in report : e.id \in only})
BY DEF WellFormed

\* The cases of a run are each there once.
Distinct(cases) == \A c, d \in cases : c.id = d.id => c = d
AreCases(cases) == cases \in SUBSET [id : CaseIds, gold : Golds] /\ Distinct(cases)
GoldsAgree(report, cases) == \A e \in report, c \in cases : e.id = c.id => e.gold = c.gold

\* A repetition made today, and a report of such ones and of those a rescore kept.
IsToday(rep) ==
    /\ rep \in Recorded /\ rep.kept = FALSE
    /\ \E was \in Repetition : rep.outcome = was.outcome /\ rep.bucket = was.bucket
TodayOrKept(report) == \A e \in report : \A i \in DOMAIN e.reps : e.reps[i].kept = TRUE \/ IsToday(e.reps[i])

LiveRecords(cases, day) == {Entry(c.id, c.gold, RunsToday(day)[c.id]) : c \in cases}

LEMMA SuiteTypes ==
    ASSUME NEW s \in [CaseIds -> Golds \cup {Gone}]
    PROVE  CasesOf(s) \subseteq [id : CaseIds, gold : Golds] /\ Distinct(CasesOf(s))
BY DEF CasesOf, Distinct

\* The report of a live run: one record for each selected case, with its gold.
LEMMA LiveReport ==
    ASSUME NEW cases, AreCases(cases), NEW day \in RunDays, NEW report, report = LiveRecords(cases, day)
    PROVE  /\ WellFormed(report)
           /\ {[id |-> e.id, gold |-> e.gold] : e \in report} = cases
           /\ \A e \in report : \A i \in DOMAIN e.reps :
                IsToday(e.reps[i])
<1>0. /\ cases \in SUBSET [id : CaseIds, gold : Golds] /\ Distinct(cases)
      /\ report = {Entry(c.id, c.gold, RunsToday(day)[c.id]) : c \in cases}
    BY DEF AreCases, LiveRecords
<1>1. ASSUME NEW c \in cases
      PROVE  /\ c.id \in CaseIds /\ c.gold \in Golds /\ c = [id |-> c.id, gold |-> c.gold]
             /\ RunsToday(day)[c.id] = Today(day[c.id])
             /\ day[c.id] \in Seq(Repetition)
    <2>1. c.id \in CaseIds /\ c.gold \in Golds /\ c = [id |-> c.id, gold |-> c.gold]
        BY <1>0, <1>1
    <2> QED
        BY <2>1, DayTypes DEF RunsToday
<1>2. ASSUME NEW e \in report
      PROVE  \E c \in cases : e.id = c.id /\ e.gold = c.gold /\ e.reps = Today(day[c.id])
    <2>1. PICK c \in cases : e = Entry(c.id, c.gold, RunsToday(day)[c.id])
        BY <1>0, <1>2
    <2> QED
        BY <1>1, <2>1 DEF Entry
<1>3. ASSUME NEW e \in report
      PROVE  /\ e.id \in CaseIds /\ e.gold \in Golds /\ e.reps \in Seq(Recorded)
             /\ \A other \in RunDays, d \in CaseIds : DOMAIN e.reps = DOMAIN other[d]
             /\ \A i \in DOMAIN e.reps :
                IsToday(e.reps[i])
    <2>1. PICK c \in cases : e.id = c.id /\ e.gold = c.gold /\ e.reps = Today(day[c.id])
        BY <1>2, <1>3
    <2>2. c.id \in CaseIds /\ c.gold \in Golds /\ day[c.id] \in Seq(Repetition)
        BY <1>1
    <2>3. e.reps \in Seq(Recorded) /\ DOMAIN e.reps = DOMAIN day[c.id]
        BY <2>1, <2>2, TodayTypes
    <2>4. \A other \in RunDays, d \in CaseIds : DOMAIN e.reps = DOMAIN other[d]
        BY <2>2, <2>3, ReportAssumption
    <2>5. ASSUME NEW i \in DOMAIN e.reps
          PROVE  IsToday(e.reps[i])
        <3>1. day[c.id][i] \in Repetition
            BY <2>2, <2>3, <2>5, DayTypes
        <3>2. DOMAIN e.reps = DOMAIN day[c.id]
            BY <2>3
        <3>3. /\ e.reps[i] \in Recorded /\ e.reps[i].kept = FALSE
              /\ e.reps[i].outcome = day[c.id][i].outcome /\ e.reps[i].bucket = day[c.id][i].bucket
            BY <2>1, <2>2, <2>5, <3>2, TodayTypes
        <3> QED
            BY <3>1, <3>3 DEF IsToday
    <2> QED
        BY <2>1, <2>2, <2>3, <2>4, <2>5
<1>4. \A e, f \in report : e.id = f.id => e = f
    BY <1>0 DEF Distinct, Entry
<1>5. {[id |-> e.id, gold |-> e.gold] : e \in report} = cases
    <2>1. ASSUME NEW e \in report
          PROVE  [id |-> e.id, gold |-> e.gold] \in cases
        BY <1>1, <1>2, <2>1
    <2>2. ASSUME NEW c \in cases
          PROVE  \E e \in report : c = [id |-> e.id, gold |-> e.gold]
        <3>1. Entry(c.id, c.gold, RunsToday(day)[c.id]) \in report
            BY <1>0, <2>2
        <3> QED
            BY <1>1, <3>1 DEF Entry
    <2> QED
        BY <2>1, <2>2
<1> QED
    BY <1>3, <1>4, <1>5 DEF WellFormed

\* The report of a rescore: one record for each of the recording's, judged on the selected case
\* of its id if there is one.
LEMMA RescoreReport ==
    ASSUME NEW r, AreCases(picked[r]), WellFormed(mine[r]), NEW day \in RunDays,
           opt[r].mode = "rescore", NEW report, report = Report(r, day)
    PROVE  /\ Distinct(report)
           /\ GoldsAgree(report, picked[r])
           /\ TodayOrKept(report)
           /\ \A e \in report : \E b \in mine[r] : e.id = b.id
<1>0. report = {Rescored(r, e, day[e.id]) : e \in mine[r]}
    BY DEF Report
<1> DEFINE Now(b) == Records(picked[r], b.id)
<1> DEFINE GoldNow(b) == IF Now(b) = {} THEN b.gold ELSE (CHOOSE c \in Now(b) : TRUE).gold
<1> DEFINE RepsNow(b) == [i \in DOMAIN b.reps |-> IF IsReplayed(b.reps[i]) THEN Today(day[b.id])[i]
                                                  ELSE [b.reps[i] EXCEPT !.kept = TRUE]]
<1>1. ASSUME NEW b \in mine[r]
      PROVE  /\ Rescored(r, b, day[b.id]).id = b.id
             /\ Rescored(r, b, day[b.id]).gold = GoldNow(b)
             /\ Rescored(r, b, day[b.id]).reps = RepsNow(b)
    BY DEF Rescored, Entry
<1>2. Distinct(report)
    <2>1. ASSUME NEW e \in report, NEW f \in report, e.id = f.id
          PROVE  e = f
        <3>1. PICK b \in mine[r] : e = Rescored(r, b, day[b.id])
            BY <1>0, <2>1
        <3>2. PICK d \in mine[r] : f = Rescored(r, d, day[d.id])
            BY <1>0, <2>1
        <3>3. b.id = d.id
            BY <1>1, <2>1, <3>1, <3>2
        <3>4. b = d
            BY <3>3 DEF WellFormed
        <3> QED
            BY <3>1, <3>2, <3>4
    <2> QED
        BY <2>1 DEF Distinct
<1>3. ASSUME NEW b \in mine[r], NEW c \in picked[r], b.id = c.id
      PROVE  GoldNow(b) = c.gold
    <2>1. Now(b) = {c}
        BY <1>3 DEF Records, AreCases, Distinct
    <2> QED
        BY <2>1
<1>4. ASSUME NEW b \in mine[r], NEW i \in DOMAIN RepsNow(b)
      PROVE  \/ RepsNow(b)[i].kept = TRUE
             \/ IsToday(RepsNow(b)[i])
    <2>1. i \in DOMAIN b.reps /\ b.reps \in Seq(Recorded) /\ b.id \in CaseIds /\ DOMAIN b.reps = DOMAIN day[b.id]
        BY <1>4 DEF WellFormed
    <2>2. b.reps[i] \in Recorded
        BY <2>1
    <2>3. CASE IsReplayed(b.reps[i])
        <3>1. RepsNow(b)[i] = Today(day[b.id])[i]
            BY <2>1, <2>3
        <3>2. day[b.id] \in Seq(Repetition) /\ i \in DOMAIN day[b.id] /\ day[b.id][i] \in Repetition
            BY <2>1, DayTypes
        <3>3. /\ Today(day[b.id])[i] \in Recorded /\ Today(day[b.id])[i].kept = FALSE
              /\ Today(day[b.id])[i].outcome = day[b.id][i].outcome
              /\ Today(day[b.id])[i].bucket = day[b.id][i].bucket
            BY <3>2, TodayTypes
        <3> QED
            BY <3>1, <3>2, <3>3 DEF IsToday
    <2>4. CASE ~IsReplayed(b.reps[i])
        <3>1. RepsNow(b)[i] = [b.reps[i] EXCEPT !.kept = TRUE]
            BY <2>1, <2>4
        <3>2. [b.reps[i] EXCEPT !.kept = TRUE].kept = TRUE
            BY <2>2 DEF Recorded
        <3> QED
            BY <3>1, <3>2
    <2> QED
        BY <2>3, <2>4
<1> HIDE DEF GoldNow, RepsNow
<1>5. ASSUME NEW e \in report
      PROVE  \E b \in mine[r] : e.id = b.id /\ e.gold = GoldNow(b) /\ e.reps = RepsNow(b)
    BY <1>0, <1>1, <1>5
<1>6. GoldsAgree(report, picked[r])
    BY <1>3, <1>5 DEF GoldsAgree
<1>7. ASSUME NEW e \in report, NEW i \in DOMAIN e.reps
      PROVE  e.reps[i].kept = TRUE \/ IsToday(e.reps[i])
    <2>1. PICK b \in mine[r] : e.reps = RepsNow(b)
        BY <1>5, <1>7
    <2>2. i \in DOMAIN RepsNow(b)
        BY <1>7, <2>1
    <2> QED
        BY <1>4, <2>1, <2>2
<1> QED
    BY <1>2, <1>5, <1>6, <1>7 DEF TodayOrKept

\* A report that does not spoil its run holds verdicts only.
LEMMA UnspoiledReport ==
    ASSUME NEW report, ~IsSpoiled(report),
           TodayOrKept(report)
    PROVE  OnlyVerdicts(report)
<1>1. ASSUME NEW e \in report, NEW i \in DOMAIN e.reps, ~(e.reps[i].kept = TRUE)
      PROVE  e.reps[i].bucket \in ProductBuckets \/ e.reps[i].outcome = "skipped_budget"
    <2>1. e.reps[i] \in Recorded /\ e.reps[i].kept = FALSE
        BY <1>1 DEF TodayOrKept, IsToday
    <2>2. PICK was \in Repetition : e.reps[i].outcome = was.outcome /\ e.reps[i].bucket = was.bucket
        BY <1>1 DEF TodayOrKept, IsToday
    <2>3. ~Spoils(e.reps[i])
        BY <1>1 DEF IsSpoiled
    <2> QED
        BY <2>1, <2>2, <2>3, UnspoiledIsVerdict
<1> QED
    BY <1>1 DEF OnlyVerdicts, ProductBuckets

-----------------------------------------------------------------------------
(* What is paired, counted by the ids of cases.                              *)

LEMMA AnswersAreFinite == IsFiniteSet(AnswerCases)
BY GateAssumption, FS_Subset DEF CaseIds

\* Cases that are there once are as many as their ids.
LEMMA CountByIds ==
    ASSUME NEW cases, Distinct(cases)
    PROVE  LET ids == {c.id : c \in Answers(cases)}
           IN  /\ IsFiniteSet(Answers(cases)) /\ IsFiniteSet(ids)
               /\ Cardinality(Answers(cases)) = Cardinality(ids)
               /\ Cardinality(ids) \in Nat
<1> DEFINE ids == {c.id : c \in Answers(cases)}
<1> DEFINE idOf == [c \in Answers(cases) |-> c.id]
<1>1. IsFiniteSet(ids)
    <2>1. ids \in SUBSET AnswerCases
        BY DEF Answers
    <2> QED
        BY <2>1, AnswersAreFinite, FS_Subset
<1>2. idOf \in Injection(Answers(cases), ids)
    BY DEF Injection, IsInjective, Answers, Distinct
<1>3. idOf \in Surjection(Answers(cases), ids)
    BY DEF Surjection
<1> HIDE DEF ids, idOf
<1>4. IsFiniteSet(Answers(cases)) /\ Cardinality(Answers(cases)) = Cardinality(ids)
    BY <1>1, <1>2, <1>3, FS_Injection
<1>5. Cardinality(ids) \in Nat
    BY <1>1, FS_CardinalityType
<1> QED
    BY <1>1, <1>4, <1>5 DEF ids

LEMMA CountPairs ==
    ASSUME NEW before, Distinct(before), NEW report, Distinct(report)
    PROVE  LET ids == {p[2].id : p \in Pairs(before, report)}
           IN  /\ IsFiniteSet(ids) /\ Cardinality(Pairs(before, report)) = Cardinality(ids)
<1> DEFINE pairs == Pairs(before, report)
<1> DEFINE ids == {p[2].id : p \in pairs}
<1> DEFINE idOf == [p \in pairs |-> p[2].id]
<1>1. IsFiniteSet(ids)
    <2>1. ids \in SUBSET AnswerCases
        BY DEF Answers, Pairs
    <2> QED
        BY <2>1, AnswersAreFinite, FS_Subset
<1>2. ASSUME NEW p \in pairs, NEW q \in pairs, p[2].id = q[2].id
      PROVE  p = q
    <2>1. /\ p[1] \in before /\ q[1] \in before /\ p[2] \in report /\ q[2] \in report
          /\ p = <<p[1], p[2]>> /\ q = <<q[1], q[2]>> /\ p[1].id = p[2].id /\ q[1].id = q[2].id
        BY <1>2 DEF Pairs, Answers
    <2> QED
        BY <1>2, <2>1 DEF Distinct
<1> HIDE DEF pairs
<1>3. idOf \in Injection(pairs, ids)
    BY <1>2 DEF Injection, IsInjective
<1>4. idOf \in Surjection(pairs, ids)
    BY DEF Surjection
<1> HIDE DEF ids, idOf
<1>5. Cardinality(pairs) = Cardinality(ids)
    BY <1>1, <1>3, <1>4, FS_Injection
<1> QED
    BY <1>1, <1>5 DEF ids, pairs

\* The cases with a pair are measured in both reports, if the run's golds are the cases'.
LEMMA PairedIsMeasured ==
    ASSUME NEW cases, Distinct(cases), NEW before, NEW report,
           GoldsAgree(report, cases)
    PROVE  LET paired == {p[2].id : p \in Pairs(before, report)} \cap {c.id : c \in Answers(cases)}
           IN  /\ Cardinality(paired) \in Nat /\ Cardinality(Measured(cases, before, report)) \in Nat
               /\ Cardinality(paired) <= Cardinality(Measured(cases, before, report))
<1> DEFINE measured == Measured(cases, before, report)
<1> DEFINE paired == {p[2].id : p \in Pairs(before, report)} \cap {c.id : c \in Answers(cases)}
<1> DEFINE ids == {c.id : c \in Answers(measured)}
<1>1. Answers(measured) = measured /\ Distinct(measured)
    BY DEF Measured, Answers, Distinct
<1>2. ASSUME NEW id \in paired
      PROVE  id \in ids
    <2>1. PICK p \in Pairs(before, report) : p[2].id = id
        BY <1>2
    <2>2. PICK c \in Answers(cases) : c.id = id
        BY <1>2
    <2>3. /\ p[1] \in before /\ p[2] \in report /\ p[1].id = p[2].id /\ p[1].gold = p[2].gold
          /\ IsMeasured(p[1]) /\ IsMeasured(p[2])
        BY <2>1 DEF Pairs, Answers
    <2>4. p[2].gold = c.gold
        BY <2>1, <2>2, <2>3 DEF Answers, GoldsAgree
    <2>5. c \in measured
        BY <2>1, <2>2, <2>3, <2>4 DEF Measured
    <2> QED
        BY <1>1, <2>2, <2>5
<1> HIDE DEF measured, paired
<1>3. IsFiniteSet(ids) /\ Cardinality(measured) = Cardinality(ids) /\ Cardinality(ids) \in Nat
    BY <1>1, CountByIds
<1>4. paired \in SUBSET ids
    BY <1>2
<1> HIDE DEF ids
<1>5. IsFiniteSet(paired) /\ Cardinality(paired) <= Cardinality(ids)
    BY <1>3, <1>4, FS_Subset
<1>6. Cardinality(paired) \in Nat
    BY <1>5, FS_CardinalityType
<1> QED
    BY <1>3, <1>5, <1>6 DEF measured, paired

LEMMA MoreIsHalf ==
    ASSUME NEW few \in Nat, NEW more \in Nat, NEW all \in Nat, few <= more, AtLeastHalf(few, all)
    PROVE  AtLeastHalf(more, all)
BY DEF AtLeastHalf

-----------------------------------------------------------------------------
(* The gate.                                                                 *)

\* A live run that passes its gate is tested against what it compared with, unless that was nothing.
LEMMA LiveGate ==
    ASSUME NEW r, AreCases(picked[r]), \A c \in picked[r] : c.id \in opt[r].only,
           Distinct(reference[r]), reference[r] # {}, NEW day \in RunDays,
           NEW report, report = LiveRecords(picked[r], day),
           opt[r].gate, ComputeExitCode(r, report) = 0
    PROVE  IsTested(picked[r], opt[r].only, reference[r], report)
<1> DEFINE before == reference[r]
<1> DEFINE cases == picked[r]
<1> DEFINE pairs == Pairs(before, report)
<1> DEFINE measured == Measured(cases, before, report)
<1>0. Distinct(cases)
    BY DEF AreCases
<1>1. ~PairingFails(before, report) /\ ~IsWorse(pairs)
    BY DEF ComputeExitCode
<1>2. /\ WellFormed(report) /\ {[id |-> e.id, gold |-> e.gold] : e \in report} = cases
    BY LiveReport
<1>3. Distinct(report)
    BY <1>2 DEF WellFormed, Distinct
<1>4. GoldsAgree(report, cases)
    <2>1. ASSUME NEW e \in report, NEW c \in cases, e.id = c.id
          PROVE  e.gold = c.gold
        <3>1. [id |-> e.id, gold |-> e.gold] \in cases
            BY <1>2
        <3> QED
            BY <1>0, <2>1, <3>1 DEF Distinct
    <2> QED
        BY <2>1 DEF GoldsAgree
<1>5. {e.id : e \in Answers(report)} = {c.id : c \in Answers(cases)}
    <2>1. ASSUME NEW e \in Answers(report)
          PROVE  \E c \in Answers(cases) : c.id = e.id
        <3>1. [id |-> e.id, gold |-> e.gold] \in cases
            BY <1>2 DEF Answers
        <3> QED
            BY <3>1 DEF Answers
    <2>2. ASSUME NEW c \in Answers(cases)
          PROVE  \E e \in Answers(report) : c.id = e.id
        <3>1. PICK e \in report : c = [id |-> e.id, gold |-> e.gold]
            BY <1>2 DEF Answers
        <3> QED
            BY <3>1 DEF Answers
    <2> QED
        BY <2>1, <2>2
<1>6. Cardinality(Answers(report)) = Cardinality(Answers(cases)) /\ Cardinality(Answers(cases)) \in Nat
    BY <1>0, <1>3, <1>5, CountByIds
<1>7. {p[2].id : p \in pairs} \cap {c.id : c \in Answers(cases)} = {p[2].id : p \in pairs}
    <2>1. \A p \in pairs : p[2] \in Answers(report)
        BY DEF Pairs
    <2> QED
        BY <1>5, <2>1
<1>8. Cardinality(pairs) = Cardinality({p[2].id : p \in pairs})
    BY <1>3, CountPairs
<1>9. /\ Cardinality(pairs) \in Nat /\ Cardinality(measured) \in Nat
      /\ Cardinality(pairs) <= Cardinality(measured)
    <2>1. LET paired == {p[2].id : p \in pairs} \cap {c.id : c \in Answers(cases)}
          IN  /\ Cardinality(paired) \in Nat /\ Cardinality(measured) \in Nat
              /\ Cardinality(paired) <= Cardinality(measured)
        BY <1>0, <1>4, PairedIsMeasured
    <2> QED
        BY <1>7, <1>8, <2>1
<1>10. AtLeastHalf(Cardinality(pairs), Cardinality(Answers(cases)))
    BY <1>1, <1>6 DEF PairingFails
<1>11. AtLeastHalf(Cardinality(measured), Cardinality(Answers(cases)))
    BY <1>6, <1>9, <1>10, MoreIsHalf
<1>12. Pairs({e \in before : e.id \in opt[r].only}, report) = pairs
    <2>1. ASSUME NEW e \in report
          PROVE  e.id \in opt[r].only
        <3>1. [id |-> e.id, gold |-> e.gold] \in cases
            BY <1>2
        <3>2. [id |-> e.id, gold |-> e.gold].id \in opt[r].only
            BY <3>1
        <3> QED
            BY <3>2
    <2> QED
        BY <2>1 DEF Pairs, Answers
<1> QED
    BY <1>1, <1>11, <1>12 DEF IsTested

\* A rescore that passes is tested against any report that has the same records of the cases its
\* filters leave as the report that it compared with.
LEMMA RescoreGate ==
    ASSUME NEW r, Distinct(picked[r]), NEW report,
           GoldsAgree(report, picked[r]), \A e \in report : e.id \in opt[r].only,
           opt[r].mode = "rescore", opt[r].gate, ComputeExitCode(r, report) = 0,
           NEW before, {e \in before : e.id \in opt[r].only} = {e \in reference[r] : e.id \in opt[r].only}
    PROVE  IsTested(picked[r], opt[r].only, before, report)
<1> DEFINE cases == picked[r]
<1> DEFINE pairs == Pairs(reference[r], report)
<1> DEFINE measured == Measured(cases, before, report)
<1> DEFINE answers == {c.id : c \in Answers(cases)}
<1> DEFINE paired == {p[2].id : p \in pairs} \cap answers
<1>1. ~CoverageFails(cases, reference[r], report) /\ ~IsWorse(pairs)
    BY DEF ComputeExitCode
<1>2. pairs = Pairs({e \in before : e.id \in opt[r].only}, report)
    <2> DEFINE left == {e \in reference[r] : e.id \in opt[r].only}
    <2>1. ASSUME NEW p \in Answers(reference[r]) \X Answers(report), p[1].id = p[2].id
          PROVE  p \in Answers(left) \X Answers(report)
        <3>1. p[1] \in reference[r] /\ p[2] \in report /\ p[1] \in Answers(reference[r]) /\ p[2] \in Answers(report)
            BY DEF Answers
        <3>2. p[1] \in Answers(left)
            BY <2>1, <3>1 DEF Answers
        <3> QED
            BY <3>1, <3>2
    <2>2. Answers(left) \subseteq Answers(reference[r])
        BY DEF Answers
    <2> HIDE DEF left
    <2>3. Pairs(reference[r], report) = Pairs(left, report)
        BY <2>1, <2>2 DEF Pairs
    <2> QED
        BY <2>3 DEF left
<1>3. Cardinality(Answers(cases)) = Cardinality(answers) /\ Cardinality(answers) \in Nat
    BY CountByIds
<1>4. /\ Cardinality(paired) \in Nat /\ Cardinality(Measured(cases, reference[r], report)) \in Nat
      /\ Cardinality(paired) <= Cardinality(Measured(cases, reference[r], report))
    BY PairedIsMeasured
<1>5. /\ Cardinality(Measured(cases, reference[r], report)) <= Cardinality(measured)
      /\ Cardinality(measured) \in Nat
    <2>1. ASSUME NEW c \in Measured(cases, reference[r], report)
          PROVE  c \in measured
        <3>1. PICK b \in reference[r] : b.id = c.id /\ b.gold = c.gold /\ IsMeasured(b)
            BY DEF Measured
        <3>2. PICK e \in report : e.id = c.id /\ e.gold = c.gold /\ IsMeasured(e)
            BY DEF Measured
        <3>3. b \in before
            BY <3>1, <3>2
        <3> QED
            BY <3>1, <3>2, <3>3 DEF Measured
    <2>2. Answers(measured) = measured /\ Distinct(measured)
        BY DEF Measured, Answers, Distinct
    <2>3. IsFiniteSet(measured)
        BY <2>2, CountByIds
    <2>4. Measured(cases, reference[r], report) \subseteq measured
        BY <2>1
    <2> HIDE DEF measured
    <2> QED
        BY <2>3, <2>4, FS_Subset, FS_CardinalityType
<1>6. ASSUME Answers(cases) # {}
      PROVE  AtLeastHalf(Cardinality(measured), Cardinality(Answers(cases)))
    <2>1. answers # {}
        BY <1>6
    <2>2. AtLeastHalf(Cardinality(paired), Cardinality(answers))
        BY <1>1, <2>1 DEF CoverageFails
    <2> HIDE DEF paired, measured, answers
    <2> QED
        BY <1>3, <1>4, <1>5, <2>2, MoreIsHalf
<1>7. ~IsWorse(Pairs({e \in before : e.id \in opt[r].only}, report))
    BY <1>1, <1>2
<1> QED
    BY <1>6, <1>7 DEF IsTested

-----------------------------------------------------------------------------
(* Invariance.                                                               *)

RunTested(r) ==
    stage[r] = "done" /\ exit[r] = 0 /\ opt[r].gate /\ ~opt[r].min =>
        /\ OnlyVerdicts(mine[r])
        /\ \/ opt[r].mode = "live" /\ {} \in held[r] /\ reference[r] = {}
           \/ \E before \in IF NamesReport(opt[r]) THEN {reference[r]} ELSE held[r] :
                IsTested(picked[r], opt[r].only, before, mine[r])

RunSound(r) == Selected(r) /\ HasReference(r) /\ Compared(r) /\ RunTested(r)

TreeSound == SuiteIsKnown /\ WellFormed(file) /\ BaselineIsComplete

LEMMA IInvByParts == GateIInv <=> GateTypeOK /\ Shape /\ TreeSound /\ \A r \in GateRuns : RunSound(r)
BY DEF GateIInv, TreeSound, RunSound, RunTested, GateHasTested

\* A run is not harmed by what the others, the tree and the file go through.
LEMMA OthersKept ==
    ASSUME NEW r \in GateRuns, RunSound(r), suites \subseteq suites',
           stage'[r] = stage[r], exit'[r] = exit[r], opt'[r] = opt[r], picked'[r] = picked[r],
           reference'[r] = reference[r], mine'[r] = mine[r],
           stage[r] # "off" => held[r] \subseteq held'[r] /\ file' \in held'[r]
    PROVE  RunSound(r)'
<1>1. Selected(r)'
    BY DEF RunSound, Selected, CasesOf
<1>2. HasReference(r)'
    BY DEF RunSound, HasReference
<1>3. Compared(r)'
    BY DEF RunSound, Compared, WellFormed
<1>4. RunTested(r)'
    BY DEF RunSound, RunTested
<1> QED
    BY <1>1, <1>2, <1>3, <1>4 DEF RunSound

Others(r) ==
    \A q \in GateRuns \ {r} :
        /\ stage'[q] = stage[q] /\ exit'[q] = exit[q] /\ opt'[q] = opt[q] /\ picked'[q] = picked[q]
        /\ reference'[q] = reference[q] /\ mine'[q] = mine[q]
        /\ stage[q] # "off" => held[q] \subseteq held'[q] /\ file' \in held'[q]

LEMMA StepOfRun ==
    ASSUME GateIInv, NEW r \in GateRuns, Others(r), suites \subseteq suites',
           GateTypeOK', Shape', TreeSound', RunSound(r)'
    PROVE  GateIInv'
<1>1. ASSUME NEW q \in GateRuns, q # r
      PROVE  RunSound(q)'
    BY <1>1, OthersKept, IInvByParts DEF Others
<1>2. \A q \in GateRuns : RunSound(q)'
    BY <1>1
<1>3. GateTypeOK' /\ Shape' /\ TreeSound' /\ \A q \in GateRuns : RunSound(q)'
    BY <1>2
<1> QED
    BY <1>3 DEF GateIInv, TreeSound, RunSound, RunTested, GateHasTested

LEMMA TreeKept ==
    ASSUME TreeSound, UNCHANGED <<suite, suites, file>>
    PROVE  TreeSound'
BY DEF TreeSound, SuiteIsKnown, WellFormed, BaselineIsComplete, HasVerdicts, CasesOf

LEMMA InitSound ==
    ASSUME GateInit
    PROVE  GateIInv
<1>1. /\ file \in Earlier /\ HasVerdicts(file)
      /\ suites = {suite, [c \in CaseIds |-> IF Records(file, c) = {} THEN Gone ELSE (CHOOSE e \in Records(file, c) : TRUE).gold]}
    BY DEF GateInit
<1>2. WellFormed(file)
    BY <1>1, InitialReports
<1>3. GateTypeOK
    <2>1. NoOptions \in Options
        BY DEF NoOptions, Options
    <2>2. suite \in [CaseIds -> Golds \cup {Gone}]
        BY GateAssumption DEF GateInit
    <2>3. changes \in 0 .. MaxChanges
        BY GateAssumption DEF GateInit
    <2> QED
        BY <2>1, <2>2, <2>3 DEF GateInit, GateTypeOK
<1>4. BaselineIsComplete
    <2> DEFINE was == [c \in CaseIds |-> IF Records(file, c) = {} THEN Gone ELSE (CHOOSE e \in Records(file, c) : TRUE).gold]
    <2>1. ASSUME NEW e \in file
          PROVE  e.id \in CaseIds /\ was[e.id] = e.gold /\ e.gold # Gone
        <3>1. e.id \in CaseIds /\ e.gold \in Golds
            BY <1>2 DEF WellFormed
        <3>2. Records(file, e.id) = {e}
            BY <1>2 DEF WellFormed, Records
        <3> QED
            BY <3>1, <3>2, GateAssumption
    <2>2. ASSUME NEW c \in CaseIds, was[c] # Gone
          PROVE  \E e \in file : e.id = c
        BY <2>2 DEF Records
    <2> HIDE DEF was
    <2>3. {[id |-> e.id, gold |-> e.gold] : e \in file} = CasesOf(was)
        <3>1. ASSUME NEW e \in file
              PROVE  [id |-> e.id, gold |-> e.gold] \in CasesOf(was)
            BY <2>1 DEF CasesOf
        <3>2. ASSUME NEW x \in CasesOf(was)
              PROVE  \E e \in file : x = [id |-> e.id, gold |-> e.gold]
            <4>1. PICK c \in CaseIds : was[c] # Gone /\ x = [id |-> c, gold |-> was[c]]
                BY DEF CasesOf
            <4>2. PICK e \in file : e.id = c
                BY <2>2, <4>1
            <4> QED
                BY <2>1, <4>1, <4>2
        <3> QED
            BY <3>1, <3>2
    <2>4. was \in suites
        BY <1>1 DEF was
    <2> QED
        BY <1>1, <2>3, <2>4 DEF BaselineIsComplete
<1>5. Shape /\ SuiteIsKnown
    BY DEF GateInit, Shape, SuiteIsKnown
<1>6. \A r \in GateRuns : Selected(r) /\ HasReference(r) /\ Compared(r) /\ stage[r] # "done"
    BY DEF GateInit, Selected, HasReference, Compared
<1> QED
    BY <1>2, <1>3, <1>4, <1>5, <1>6 DEF GateIInv, GateHasTested

Stages == {"off", "select", "load", "run", "done"}
Codes == {0, 1, 2, 130}

LEMMA Ending ==
    ASSUME GateTypeOK, NEW r \in GateRuns, NEW code \in Codes, ExitsWith(r, code)
    PROVE  /\ stage'[r] = "done" /\ exit'[r] = code
           /\ \A q \in GateRuns \ {r} : stage'[q] = stage[q] /\ exit'[q] = exit[q]
           /\ stage' \in [GateRuns -> Stages] /\ exit' \in [GateRuns -> Codes]
<1>1. stage \in [GateRuns -> Stages] /\ exit \in [GateRuns -> Codes]
    BY DEF GateTypeOK, Stages, Codes
<1>2. stage' = [stage EXCEPT ![r] = "done"] /\ exit' = [exit EXCEPT ![r] = code]
    BY DEF ExitsWith
<1>3. stage'[r] = "done" /\ stage' \in [GateRuns -> Stages] /\ \A q \in GateRuns \ {r} : stage'[q] = stage[q]
    BY <1>1, <1>2 DEF Stages
<1>4. exit'[r] = code /\ exit' \in [GateRuns -> Codes] /\ \A q \in GateRuns \ {r} : exit'[q] = exit[q]
    BY <1>1, <1>2
<1> QED
    BY <1>3, <1>4

LEMMA GoingOn ==
    ASSUME GateTypeOK, NEW r \in GateRuns, NEW to \in Stages, GoesOn(r, to)
    PROVE  /\ stage'[r] = to /\ exit'[r] = exit[r]
           /\ \A q \in GateRuns \ {r} : stage'[q] = stage[q] /\ exit'[q] = exit[q]
           /\ stage' \in [GateRuns -> Stages] /\ exit' \in [GateRuns -> Codes]
<1>1. stage \in [GateRuns -> Stages] /\ exit \in [GateRuns -> Codes]
    BY DEF GateTypeOK, Stages, Codes
<1>2. stage' = [stage EXCEPT ![r] = to] /\ exit' = exit
    BY DEF GoesOn
<1>3. stage'[r] = to /\ stage' \in [GateRuns -> Stages] /\ \A q \in GateRuns \ {r} : stage'[q] = stage[q]
    BY <1>1, <1>2
<1> QED
    BY <1>1, <1>2, <1>3

LEMMA BeginSound ==
    ASSUME GateIInv, NEW r \in GateRuns, Begin(r)
    PROVE  GateIInv'
<1>1. PICK o \in RunOptions[r] :
        /\ opt' = [opt EXCEPT ![r] = o]
        /\ IF OptionsRefused(o) \/ NothingToGateWith(o) THEN ExitsWith(r, 2) ELSE GoesOn(r, "select")
    BY DEF Begin
<1>2. stage[r] = "off" /\ held' = [held EXCEPT ![r] = {file}] /\ UNCHANGED <<Tree, file, picked, began, reference, mine>>
    BY DEF Begin
<1>3. o \in Options
    BY OptionsAssumption
<1>4. /\ \/ stage'[r] = "done" /\ exit'[r] = 2
         \/ stage'[r] = "select" /\ ~NothingToGateWith(o)
      /\ \A q \in GateRuns \ {r} : stage'[q] = stage[q] /\ exit'[q] = exit[q]
      /\ stage' \in [GateRuns -> Stages] /\ exit' \in [GateRuns -> Codes]
    <2>1. GateTypeOK /\ 2 \in Codes /\ "select" \in Stages
        BY DEF GateIInv, Codes, Stages
    <2>2. CASE ExitsWith(r, 2)
        BY <2>1, <2>2, Ending
    <2>3. CASE GoesOn(r, "select") /\ ~NothingToGateWith(o)
        BY <2>1, <2>3, GoingOn
    <2> QED
        BY <1>1, <2>2, <2>3
<1>5. GateTypeOK /\ Shape /\ RunSound(r) /\ TreeSound
    BY IInvByParts
<1>6. GateTypeOK' /\ Shape'
    <2>1. opt' \in [GateRuns -> Options]
        BY <1>1, <1>3, <1>5 DEF GateTypeOK
    <2>2. GateTypeOK'
        BY <1>2, <1>4, <1>5, <2>1 DEF GateTypeOK, Tree, Stages, Codes
    <2>3. Shape'
        BY <1>2, <1>5 DEF Shape
    <2> QED
        BY <2>2, <2>3
<1>7. TreeSound'
    BY <1>2, <1>5, TreeKept DEF Tree
<1>8. /\ opt'[r] = o /\ held'[r] = {file} /\ picked'[r] = {} /\ file' = file
      /\ \/ stage'[r] = "done" /\ exit'[r] = 2
         \/ stage'[r] = "select" /\ ~NothingToGateWith(o)
    <2>1. opt'[r] = o
        BY <1>1, <1>5 DEF GateTypeOK
    <2>2. held'[r] = {file}
        BY <1>2, <1>5 DEF Shape
    <2>3. picked'[r] = {}
        BY <1>2, <1>5 DEF RunSound, Selected
    <2> QED
        BY <1>2, <1>4, <2>1, <2>2, <2>3
<1>9. RunSound(r)'
    BY <1>8 DEF RunSound, Selected, HasReference, Compared, RunTested, NothingToGateWith
<1>10. Others(r)
    BY <1>1, <1>2, <1>4, <1>5, IInvByParts DEF Others, GateTypeOK, Shape, RunSound, HasReference
<1> QED
    BY <1>2, <1>6, <1>7, <1>9, <1>10, StepOfRun DEF Tree

\* Steps of one run that leave the tree, the file and the options alone.
Quiet(r) ==
    /\ UNCHANGED <<suite, suites, changes, file, opt, held>>
    /\ stage' \in [GateRuns -> Stages] /\ exit' \in [GateRuns -> Codes]
    /\ picked' \in [GateRuns -> SUBSET [id : CaseIds, gold : Golds]]
    /\ \A q \in GateRuns \ {r} :
        /\ stage'[q] = stage[q] /\ exit'[q] = exit[q] /\ picked'[q] = picked[q]
        /\ reference'[q] = reference[q] /\ mine'[q] = mine[q]

LEMMA QuietStep ==
    ASSUME GateIInv, NEW r \in GateRuns, Quiet(r), Shape', RunSound(r)'
    PROVE  GateIInv'
<1>1. GateTypeOK /\ Shape /\ TreeSound /\ \A q \in GateRuns : RunSound(q)
    BY IInvByParts
<1>2. GateTypeOK'
    BY <1>1 DEF GateTypeOK, Quiet, Stages, Codes
<1>3. TreeSound'
    BY <1>1, TreeKept DEF Quiet
<1>4. Others(r)
    BY <1>1 DEF Others, Quiet, RunSound, HasReference
<1> QED
    BY <1>2, <1>3, <1>4, StepOfRun DEF Quiet

LEMMA FailingIsSound ==
    ASSUME NEW r \in GateRuns, RunSound(r), stage[r] # "off", stage'[r] = "done",
           exit'[r] # 0 \/ ~opt[r].gate, UNCHANGED <<opt, held, file>>, picked'[r] = picked[r]
    PROVE  RunSound(r)'
BY DEF RunSound, Selected, HasReference, Compared, RunTested

\* Steps that end a run with a failure.
LEMMA FailureSound ==
    ASSUME GateIInv, NEW r \in GateRuns, NEW code \in Codes, code # 0, ExitsWith(r, code), stage[r] # "off",
           UNCHANGED <<Tree, file, opt, picked, reference, mine, held>>
    PROVE  GateIInv'
<1>1. GateTypeOK /\ Shape /\ RunSound(r)
    BY IInvByParts
<1>2. /\ stage'[r] = "done" /\ exit'[r] = code
      /\ \A q \in GateRuns \ {r} : stage'[q] = stage[q] /\ exit'[q] = exit[q]
      /\ stage' \in [GateRuns -> Stages] /\ exit' \in [GateRuns -> Codes]
    BY <1>1, Ending
<1>3. Quiet(r)
    BY <1>1, <1>2 DEF Quiet, Tree, GateTypeOK
<1>4. Shape'
    BY <1>1 DEF Shape
<1>5. RunSound(r)'
    BY <1>1, <1>2, FailingIsSound
<1> QED
    BY <1>3, <1>4, <1>5, QuietStep

LEMMA SelectSound ==
    ASSUME GateIInv, NEW r \in GateRuns, Select(r)
    PROVE  GateIInv'
<1>1. PICK s \in IF opt[r].data = "own" THEN OwnSuites ELSE {suite} :
        LET cases == {c \in CasesOf(s) : c.id \in opt[r].only} IN
        IF \/ opt[r].mode = "live" /\ (cases = {} \/ ThresholdRefused(opt[r], cases))
           \/ SuiteRefused(opt[r], cases)
        THEN ExitsWith(r, 2) /\ UNCHANGED picked
        ELSE GoesOn(r, "load") /\ picked' = [picked EXCEPT ![r] = cases]
    BY DEF Select
<1>2. stage[r] = "select" /\ UNCHANGED <<Tree, file, opt, began, reference, mine, held>>
    BY DEF Select
<1>3. GateTypeOK /\ Shape /\ RunSound(r) /\ TreeSound
    BY IInvByParts
<1> DEFINE cases == {c \in CasesOf(s) : c.id \in opt[r].only}
<1>4. s \in [CaseIds -> Golds \cup {Gone}]
    BY <1>3 DEF GateTypeOK, OwnSuites
<1>5. cases \subseteq [id : CaseIds, gold : Golds] /\ Distinct(cases)
    BY <1>4, SuiteTypes DEF Distinct
<1>6. CASE ExitsWith(r, 2) /\ UNCHANGED picked
    <2>1. 2 \in Codes
        BY DEF Codes
    <2> QED
        BY <1>2, <1>6, <2>1, FailureSound
<1>7. CASE GoesOn(r, "load") /\ picked' = [picked EXCEPT ![r] = cases] /\ ~SuiteRefused(opt[r], cases)
    <2>1. /\ stage'[r] = "load"
          /\ \A q \in GateRuns \ {r} : stage'[q] = stage[q] /\ exit'[q] = exit[q]
          /\ stage' \in [GateRuns -> Stages] /\ exit' \in [GateRuns -> Codes]
        BY <1>3, <1>7, GoingOn DEF Stages
    <2>2. /\ picked' \in [GateRuns -> SUBSET [id : CaseIds, gold : Golds]] /\ picked'[r] = cases
          /\ \A q \in GateRuns \ {r} : picked'[q] = picked[q]
        BY <1>3, <1>5, <1>7 DEF GateTypeOK
    <2>3. Quiet(r)
        BY <1>2, <2>1, <2>2 DEF Quiet, Tree
    <2>4. Shape'
        BY <1>2, <1>3 DEF Shape
    <2>5. Selected(r)'
        <3>1. opt[r].write = "default" => cases = CasesOf(suite)
            BY <1>7 DEF SuiteRefused
        <3>2. suite \in suites /\ suites' = suites /\ opt' = opt
            BY <1>2, <1>3 DEF TreeSound, SuiteIsKnown, Tree
        <3>3. \A c \in cases : c.id \in opt[r].only
            OBVIOUS
        <3> HIDE DEF cases
        <3>4. opt'[r].write = "default" => \E t \in suites' : picked'[r] = CasesOf(t)
            BY <2>2, <3>1, <3>2
        <3> QED
            BY <1>5, <2>1, <2>2, <3>2, <3>3, <3>4 DEF Selected, Distinct, CasesOf
    <2>6. HasReference(r)'
        BY <1>2, <1>3, <2>1 DEF RunSound, HasReference
    <2>7. RunSound(r)'
        BY <2>1, <2>5, <2>6 DEF RunSound, Compared, RunTested
    <2> QED
        BY <2>3, <2>4, <2>7, QuietStep
<1> QED
    BY <1>1, <1>6, <1>7

\* A step that sets what a run compares with, and its records, and goes on or ends.
LEMMA LoadingSound ==
    ASSUME GateIInv, NEW r \in GateRuns, stage[r] = "load", UNCHANGED <<Tree, file, opt, picked, held>>,
           NEW before, reference' = [reference EXCEPT ![r] = before],
           NEW records, mine' = [mine EXCEPT ![r] = records],
           \/ /\ GoesOn(r, "run")
              /\ stage'[r] = "run" /\ reference'[r] = before /\ mine'[r] = records => Compared(r)'
           \/ \E code \in Codes : ExitsWith(r, code) /\ (code # 0 \/ ~opt[r].gate)
    PROVE  GateIInv'
<1>1. GateTypeOK /\ Shape /\ RunSound(r)
    BY IInvByParts
<1>2. /\ reference'[r] = before /\ mine'[r] = records
      /\ \A q \in GateRuns \ {r} : reference'[q] = reference[q] /\ mine'[q] = mine[q]
    BY <1>1 DEF Shape
<1>3. Shape'
    BY <1>1 DEF Shape
<1>4. /\ \/ stage'[r] = "run" /\ Compared(r)'
         \/ stage'[r] = "done" /\ (exit'[r] # 0 \/ ~opt[r].gate)
      /\ \A q \in GateRuns \ {r} : stage'[q] = stage[q] /\ exit'[q] = exit[q]
      /\ stage' \in [GateRuns -> Stages] /\ exit' \in [GateRuns -> Codes]
    <2>1. CASE /\ GoesOn(r, "run")
               /\ stage'[r] = "run" /\ reference'[r] = before /\ mine'[r] = records => Compared(r)'
        <3>1. /\ stage'[r] = "run" /\ \A q \in GateRuns \ {r} : stage'[q] = stage[q] /\ exit'[q] = exit[q]
              /\ stage' \in [GateRuns -> Stages] /\ exit' \in [GateRuns -> Codes]
            BY <1>1, <2>1, GoingOn DEF Stages
        <3> QED
            BY <1>2, <2>1, <3>1
    <2>2. ASSUME NEW code \in Codes, ExitsWith(r, code), code # 0 \/ ~opt[r].gate
          PROVE  /\ stage'[r] = "done" /\ (exit'[r] # 0 \/ ~opt[r].gate)
                 /\ \A q \in GateRuns \ {r} : stage'[q] = stage[q] /\ exit'[q] = exit[q]
                 /\ stage' \in [GateRuns -> Stages] /\ exit' \in [GateRuns -> Codes]
        BY <1>1, <2>2, Ending
    <2> QED
        BY <2>1, <2>2
<1>5. Quiet(r)
    BY <1>1, <1>2, <1>4 DEF Quiet, Tree, GateTypeOK
<1>6. RunSound(r)'
    <2>1. CASE stage'[r] = "run" /\ Compared(r)'
        <3>1. Selected(r)'
            BY <1>1, <2>1 DEF RunSound, Selected, CasesOf, Tree
        <3>2. HasReference(r)'
            BY <1>1, <2>1 DEF RunSound, HasReference
        <3> QED
            BY <2>1, <3>1, <3>2 DEF RunSound, RunTested
    <2>2. CASE stage'[r] = "done" /\ (exit'[r] # 0 \/ ~opt[r].gate)
        BY <1>1, <2>2, FailingIsSound
    <2> QED
        BY <1>4, <2>1, <2>2
<1> QED
    BY <1>3, <1>5, <1>6, QuietStep

LEMMA LoadBaselineSound ==
    ASSUME GateIInv, NEW r \in GateRuns, LoadBaseline(r)
    PROVE  GateIInv'
<1>1. PICK before \in BaselinesFor(opt[r]) :
        /\ reference' = [reference EXCEPT ![r] = before]
        /\ IF opt[r].against = "other" /\ ~IsReport(before) THEN ExitsWith(r, 2) ELSE GoesOn(r, "run")
    BY DEF LoadBaseline
<1>2. /\ stage[r] = "load" /\ opt[r].mode = "live"
      /\ UNCHANGED <<Tree, file, opt, picked, mine, held>>
    BY DEF LoadBaseline
<1>3. GateTypeOK /\ RunSound(r) /\ TreeSound /\ Shape
    BY IInvByParts
<1>4. opt[r].against \in {"default", "none", "other"}
    BY <1>3 DEF GateTypeOK, Options
<1>5. WellFormed(before) /\ (opt[r].against = "default" => before = file)
    BY <1>1, <1>3, <1>4, InitialReports, EmptyReport DEF BaselinesFor, TreeSound
<1>6. ASSUME opt[r].against = "other" => IsReport(before), stage'[r] = "run", reference'[r] = before
      PROVE  Compared(r)'
    <2>1. file \in held[r]
        BY <1>2, <1>3 DEF RunSound, HasReference
    <2>2. WellFormed(reference[r])'
        BY <1>5, <1>6 DEF WellFormed
    <2> QED
        BY <1>2, <1>5, <1>6, <2>1, <2>2 DEF Compared, IsReport
<1>7. \/ GoesOn(r, "run") /\ (stage'[r] = "run" /\ reference'[r] = before => Compared(r)')
      \/ \E code \in Codes : ExitsWith(r, code) /\ (code # 0 \/ ~opt[r].gate)
    <2>1. CASE opt[r].against = "other" /\ ~IsReport(before)
        BY <1>1, <2>1 DEF Codes
    <2>2. CASE opt[r].against = "other" => IsReport(before)
        BY <1>1, <1>6, <2>2
    <2> QED
        BY <2>1, <2>2
<1>8. mine' = [mine EXCEPT ![r] = mine[r]]
    BY <1>2, <1>3 DEF Shape
<1> QED
    BY <1>1, <1>2, <1>7, <1>8, LoadingSound

LEMMA LoadRecordingSound ==
    ASSUME GateIInv, NEW r \in GateRuns, LoadRecording(r)
    PROVE  GateIInv'
<1>1. stage[r] = "load" /\ opt[r].mode = "rescore" /\ UNCHANGED <<Tree, file, opt, picked, held>>
    BY DEF LoadRecording
<1>2. GateTypeOK /\ RunSound(r) /\ TreeSound
    BY IInvByParts
<1>3. PICK recorded \in RecordingsFor(opt[r]) :
        LET kept == {e \in recorded : e.id \in opt[r].only} IN
        /\ mine' = [mine EXCEPT ![r] = kept]
        /\ \E before \in BaselinesOfRescore(opt[r], kept) :
            /\ reference' = [reference EXCEPT ![r] = before]
            /\ IF ~IsReport(recorded) THEN ExitsWith(r, IF opt[r].gate \/ opt[r].from = "other" THEN 2 ELSE 0)
               ELSE IF kept = {} \/ ThresholdRefused(opt[r], kept) \/ ~IsReport(before) THEN ExitsWith(r, 2)
               ELSE GoesOn(r, "run")
    BY DEF LoadRecording
<1> DEFINE kept == {e \in recorded : e.id \in opt[r].only}
<1>4. PICK before \in BaselinesOfRescore(opt[r], kept) :
        /\ reference' = [reference EXCEPT ![r] = before]
        /\ IF ~IsReport(recorded) THEN ExitsWith(r, IF opt[r].gate \/ opt[r].from = "other" THEN 2 ELSE 0)
           ELSE IF kept = {} \/ ThresholdRefused(opt[r], kept) \/ ~IsReport(before) THEN ExitsWith(r, 2)
           ELSE GoesOn(r, "run")
    BY <1>3
<1>5. mine' = [mine EXCEPT ![r] = kept]
    BY <1>3
<1>6. \/ ExitsWith(r, 2)
      \/ GoesOn(r, "run")
      \/ ExitsWith(r, 0) /\ ~opt[r].gate
    <2>1. CASE IsReport(recorded)
        BY <1>4, <2>1
    <2>2. CASE ~IsReport(recorded)
        <3>1. ExitsWith(r, IF opt[r].gate \/ opt[r].from = "other" THEN 2 ELSE 0)
            BY <1>4, <2>2
        <3>2. CASE opt[r].gate \/ opt[r].from = "other"
            BY <3>1, <3>2
        <3>3. CASE ~(opt[r].gate \/ opt[r].from = "other")
            BY <3>1, <3>3
        <3> QED
            BY <3>2, <3>3
    <2> QED
        BY <2>1, <2>2
<1>7. /\ WellFormed(recorded) /\ file \in held[r]
      /\ ~NamesReport(opt[r]) => recorded = file
    BY <1>1, <1>2, InitialReports DEF RecordingsFor, NamesReport, TreeSound, RunSound, HasReference
<1>8. WellFormed(kept) /\ \A e \in kept : e.id \in opt[r].only
    BY <1>7, FilteredReport
<1>9. /\ WellFormed(before)
      /\ ~NamesReport(opt[r]) => before = kept
    BY <1>8, InitialReports DEF BaselinesOfRescore, NamesReport
<1>10. ASSUME stage'[r] = "run", reference'[r] = before, mine'[r] = kept
       PROVE  Compared(r)'
    <2>1. WellFormed(reference[r])' /\ WellFormed(mine[r])'
        BY <1>8, <1>9, <1>10 DEF WellFormed
    <2>2. \A e \in mine'[r] : e.id \in opt'[r].only
        BY <1>1, <1>8, <1>10
    <2>3. ~NamesReport(opt'[r]) => \E f \in held'[r] : reference'[r] = {e \in f : e.id \in opt'[r].only}
        BY <1>1, <1>7, <1>9, <1>10
    <2> QED
        BY <1>1, <2>1, <2>2, <2>3 DEF Compared
<1>11. 0 \in Codes /\ 2 \in Codes
    BY DEF Codes
<1> HIDE DEF kept
<1> QED
    <2>1. CASE GoesOn(r, "run")
        BY <1>1, <1>4, <1>5, <1>10, <2>1, LoadingSound
    <2>2. CASE ExitsWith(r, 2)
        <3>1. \E code \in Codes : ExitsWith(r, code) /\ (code # 0 \/ ~opt[r].gate)
            BY <1>11, <2>2
        <3> QED
            BY <1>1, <1>4, <1>5, <3>1, LoadingSound
    <2>3. CASE ExitsWith(r, 0) /\ ~opt[r].gate
        BY <1>1, <1>4, <1>5, <1>11, <2>3, LoadingSound
    <2> QED
        BY <1>6, <2>1, <2>2, <2>3

\* The end of a live run: what it reports holds verdicts only if it exits 0.
LEMMA FinishSound ==
    ASSUME GateIInv, NEW r \in GateRuns, Finish(r)
    PROVE  GateIInv'
<1>1. PICK day \in RunDays, interrupted \in BOOLEAN :
        LET report == Report(r, day)
            code == IF interrupted THEN 130 ELSE ComputeExitCode(r, report)
        IN /\ mine' = [mine EXCEPT ![r] = IF interrupted THEN {} ELSE report]
           /\ ExitsWith(r, code)
           /\ IF opt[r].write = "default" /\ MayBecomeBaseline(r, report, code)
              THEN file' = report
                   /\ held' = [q \in GateRuns |-> IF stage[q] = "off" THEN {} ELSE held[q] \cup {report}]
              ELSE UNCHANGED <<file, held>>
    BY DEF Finish
<1> DEFINE report == Report(r, day)
<1> DEFINE code == IF interrupted THEN 130 ELSE ComputeExitCode(r, report)
<1>2. /\ stage[r] = "run" /\ opt[r].mode = "live"
      /\ UNCHANGED <<Tree, opt, picked, began, reference>>
    BY DEF Finish
<1>3. GateTypeOK /\ Shape /\ RunSound(r) /\ TreeSound
    BY IInvByParts
<1>4. AreCases(picked[r]) /\ report = LiveRecords(picked[r], day)
    BY <1>2, <1>3 DEF GateTypeOK, RunSound, Selected, AreCases, Distinct, Report, LiveRecords
<1> HIDE DEF report
<1>5. /\ WellFormed(report) /\ {[id |-> e.id, gold |-> e.gold] : e \in report} = picked[r]
      /\ \A e \in report : \A i \in DOMAIN e.reps :
                IsToday(e.reps[i])
    BY <1>4, LiveReport
<1>6. code = 0 => ~interrupted /\ ComputeExitCode(r, report) = 0
    OBVIOUS
<1>7. code = 0 => OnlyVerdicts(report)
    <2>1. ComputeExitCode(r, report) = 0 => ~IsSpoiled(report)
        BY DEF ComputeExitCode
    <2> QED
        BY <1>5, <1>6, <2>1, UnspoiledReport DEF TodayOrKept
<1>8. code \in Codes
    <2>1. ComputeExitCode(r, report) \in {0, 1, 2}
        BY DEF ComputeExitCode
    <2> QED
        BY <2>1 DEF Codes
<1> HIDE DEF code
<1>9. /\ mine' = [mine EXCEPT ![r] = IF interrupted THEN {} ELSE report]
      /\ ExitsWith(r, code)
      /\ \/ /\ opt[r].write = "default" /\ MayBecomeBaseline(r, report, code) /\ file' = report
            /\ held' = [q \in GateRuns |-> IF stage[q] = "off" THEN {} ELSE held[q] \cup {report}]
         \/ UNCHANGED <<file, held>>
    BY <1>1 DEF report, code
<1>10. /\ stage'[r] = "done" /\ exit'[r] = code
       /\ \A q \in GateRuns \ {r} : stage'[q] = stage[q] /\ exit'[q] = exit[q]
       /\ stage' \in [GateRuns -> Stages] /\ exit' \in [GateRuns -> Codes]
    BY <1>3, <1>8, <1>9, Ending
<1>11. mine'[r] = (IF interrupted THEN {} ELSE report) /\ \A q \in GateRuns \ {r} : mine'[q] = mine[q]
    BY <1>3, <1>9 DEF Shape
<1>12. \A q \in GateRuns : stage[q] # "off" => held[q] \subseteq held'[q] /\ file' \in held'[q]
    BY <1>9, IInvByParts DEF RunSound, HasReference
<1>13. GateTypeOK'
    BY <1>2, <1>3, <1>10 DEF GateTypeOK, Tree, Stages, Codes
<1>14. Shape'
    <2>1. mine' = [q \in GateRuns |-> mine'[q]]
        BY <1>3, <1>9 DEF Shape
    <2>2. held' = [q \in GateRuns |-> held'[q]]
        BY <1>3, <1>9 DEF Shape
    <2> QED
        BY <1>2, <1>3, <2>1, <2>2 DEF Shape
<1>15. TreeSound'
    <2>1. CASE UNCHANGED <<file, held>>
        BY <1>2, <1>3, <2>1, TreeKept DEF Tree
    <2>2. CASE /\ opt[r].write = "default" /\ MayBecomeBaseline(r, report, code) /\ file' = report
               /\ held' = [q \in GateRuns |-> IF stage[q] = "off" THEN {} ELSE held[q] \cup {report}]
        <3>1. code = 0 /\ \A e \in report : \A i \in DOMAIN e.reps : e.reps[i].outcome # "skipped_budget"
            BY <2>2 DEF MayBecomeBaseline
        <3>2. HasVerdicts(report)
            BY <1>5, <1>7, <3>1 DEF OnlyVerdicts, HasVerdicts, IsToday
        <3>3. \E s \in suites : picked[r] = CasesOf(s)
            BY <1>2, <1>3, <2>2 DEF RunSound, Selected
        <3>4. \E s \in suites : {[id |-> e.id, gold |-> e.gold] : e \in report} = CasesOf(s)
            BY <1>5, <3>3
        <3>5. WellFormed(file)'
            BY <1>5, <2>2 DEF WellFormed
        <3>6. BaselineIsComplete'
            BY <1>2, <2>2, <3>2, <3>4 DEF BaselineIsComplete, HasVerdicts, CasesOf, Tree
        <3>7. SuiteIsKnown'
            BY <1>2, <1>3 DEF TreeSound, SuiteIsKnown, Tree
        <3> QED
            BY <3>5, <3>6, <3>7 DEF TreeSound
    <2> QED
        BY <1>9, <2>1, <2>2
<1>16. RunSound(r)'
    <2>1. Selected(r)' /\ HasReference(r)' /\ Compared(r)'
        BY <1>2, <1>3, <1>10, <1>12 DEF RunSound, Selected, HasReference, Compared
    <2>2. ASSUME exit'[r] = 0, opt[r].gate, ~opt[r].min
          PROVE  /\ OnlyVerdicts(mine'[r])
                 /\ \/ {} \in held'[r] /\ reference[r] = {}
                    \/ \E before \in IF NamesReport(opt[r]) THEN {reference[r]} ELSE held'[r] :
                         IsTested(picked[r], opt[r].only, before, mine'[r])
        <3>1. code = 0 /\ ComputeExitCode(r, report) = 0 /\ mine'[r] = report
            BY <1>6, <1>10, <1>11, <2>2
        <3>2. OnlyVerdicts(mine'[r])
            BY <1>7, <3>1
        <3>3. /\ opt[r].against \in {"default", "other"}
              /\ opt[r].against = "default" => reference[r] \in held[r]
              /\ opt[r].against = "other" => reference[r] # {}
              /\ NamesReport(opt[r]) <=> opt[r].against = "other"
              /\ WellFormed(reference[r])
            BY <1>2, <1>3, <2>2 DEF RunSound, HasReference, Compared, GateTypeOK, Options, NamesReport
        <3>4. opt[r].against = "default" => reference[r] \in held'[r]
            BY <1>2, <1>12, <3>3
        <3>5. CASE reference[r] = {}
            BY <3>2, <3>3, <3>4, <3>5
        <3>6. CASE reference[r] # {}
            <4>1. \A c \in picked[r] : c.id \in opt[r].only
                BY <1>3 DEF RunSound, Selected
            <4>2. Distinct(reference[r])
                BY <3>3 DEF WellFormed, Distinct
            <4>3. IsTested(picked[r], opt[r].only, reference[r], report)
                BY <1>4, <2>2, <3>1, <3>6, <4>1, <4>2, LiveGate
            <4> QED
                BY <3>1, <3>2, <3>3, <3>4, <4>3
        <3> QED
            BY <3>5, <3>6
    <2>3. RunTested(r)'
        BY <1>2, <2>2 DEF RunTested
    <2> QED
        BY <2>1, <2>3 DEF RunSound
<1>17. Others(r)
    BY <1>2, <1>10, <1>11, <1>12 DEF Others
<1>18. suites \subseteq suites'
    BY <1>2 DEF Tree
<1> QED
    BY <1>13, <1>14, <1>15, <1>16, <1>17, <1>18, StepOfRun

LEMMA FinishRescoreSound ==
    ASSUME GateIInv, NEW r \in GateRuns, FinishRescore(r)
    PROVE  GateIInv'
<1>1. PICK day \in RunDays :
        /\ mine' = [mine EXCEPT ![r] = Report(r, day)]
        /\ ExitsWith(r, ComputeExitCode(r, Report(r, day)))
    BY DEF FinishRescore
<1> DEFINE report == Report(r, day)
<1> DEFINE code == ComputeExitCode(r, report)
<1>2. /\ stage[r] = "run" /\ opt[r].mode = "rescore"
      /\ UNCHANGED <<Tree, file, opt, picked, began, reference, held>>
    BY DEF FinishRescore
<1>3. GateTypeOK /\ Shape /\ RunSound(r)
    BY IInvByParts
<1>4. AreCases(picked[r]) /\ WellFormed(mine[r]) /\ \A e \in mine[r] : e.id \in opt[r].only
    BY <1>2, <1>3 DEF GateTypeOK, RunSound, Selected, AreCases, Distinct, Compared
<1>5. /\ GoldsAgree(report, picked[r])
      /\ TodayOrKept(report)
      /\ \A e \in report : e.id \in opt[r].only
    BY <1>2, <1>4, RescoreReport
<1> HIDE DEF report
<1>6. code = 0 => OnlyVerdicts(report)
    <2>1. code = 0 => ~IsSpoiled(report)
        BY DEF ComputeExitCode
    <2> QED
        BY <1>5, <2>1, UnspoiledReport
<1>7. code \in Codes
    BY DEF ComputeExitCode, Codes
<1>8. mine' = [mine EXCEPT ![r] = report] /\ ExitsWith(r, code)
    BY <1>1 DEF report
<1> HIDE DEF code
<1>9. /\ stage'[r] = "done" /\ exit'[r] = code
      /\ \A q \in GateRuns \ {r} : stage'[q] = stage[q] /\ exit'[q] = exit[q]
      /\ stage' \in [GateRuns -> Stages] /\ exit' \in [GateRuns -> Codes]
    BY <1>3, <1>7, <1>8, Ending
<1>10. mine'[r] = report /\ \A q \in GateRuns \ {r} : mine'[q] = mine[q]
    BY <1>3, <1>8 DEF Shape
<1>11. Shape'
    BY <1>2, <1>3, <1>8 DEF Shape
<1>12. Quiet(r)
    BY <1>2, <1>3, <1>9, <1>10 DEF Quiet, Tree, GateTypeOK
<1>13. RunSound(r)'
    <2>1. Selected(r)' /\ HasReference(r)' /\ Compared(r)'
        BY <1>2, <1>3, <1>9 DEF RunSound, Selected, HasReference, Compared
    <2>2. ASSUME code = 0, opt[r].gate
          PROVE  /\ OnlyVerdicts(report)
                 /\ \E before \in IF NamesReport(opt[r]) THEN {reference[r]} ELSE held[r] :
                      IsTested(picked[r], opt[r].only, before, report)
        <3>1. ComputeExitCode(r, report) = 0
            BY <2>2 DEF code
        <3>2. CASE NamesReport(opt[r])
            <4>1. IsTested(picked[r], opt[r].only, reference[r], report)
                BY <1>2, <1>4, <1>5, <2>2, <3>1, RescoreGate DEF AreCases
            <4> QED
                BY <1>6, <2>2, <3>2, <4>1
        <3>3. CASE ~NamesReport(opt[r])
            <4>1. PICK f \in held[r] : reference[r] = {e \in f : e.id \in opt[r].only}
                BY <1>2, <1>3, <3>3 DEF RunSound, Compared
            <4>2. {e \in f : e.id \in opt[r].only} = {e \in reference[r] : e.id \in opt[r].only}
                BY <4>1
            <4>3. IsTested(picked[r], opt[r].only, f, report)
                BY <1>2, <1>4, <1>5, <2>2, <3>1, <4>2, RescoreGate DEF AreCases
            <4> QED
                BY <1>6, <2>2, <3>3, <4>3
        <3> QED
            BY <3>2, <3>3
    <2>3. RunTested(r)'
        BY <1>2, <1>9, <1>10, <2>2 DEF RunTested
    <2> QED
        BY <2>1, <2>3 DEF RunSound
<1> QED
    BY <1>11, <1>12, <1>13, QuietStep

-----------------------------------------------------------------------------
(* The results.                                                              *)

LEMMA TreeStepSound ==
    ASSUME GateIInv, EditTree \/ RemoveFile
    PROVE  GateIInv'
<1>1. GateTypeOK /\ Shape /\ TreeSound /\ \A r \in GateRuns : RunSound(r)
    BY IInvByParts
<1>2. suites \subseteq suites' /\ UNCHANGED <<opt, stage, exit, picked, began, reference, mine>>
    BY DEF EditTree, RemoveFile
<1>3. GateTypeOK'
    <2>1. suite' \in [CaseIds -> Golds \cup {Gone}]
        BY <1>1 DEF GateTypeOK, EditTree, RemoveFile
    <2>2. changes' \in 0 .. MaxChanges
        BY <1>1, GateAssumption DEF GateTypeOK, EditTree, RemoveFile
    <2> QED
        BY <1>1, <1>2, <2>1, <2>2 DEF GateTypeOK
<1>4. \A r \in GateRuns : stage[r] # "off" => held[r] \subseteq held'[r] /\ file' \in held'[r]
    <2>1. CASE EditTree
        BY <1>1, <2>1 DEF EditTree, RunSound, HasReference
    <2>2. CASE RemoveFile
        BY <2>2 DEF RemoveFile
    <2> QED
        BY <2>1, <2>2
<1>5. Shape'
    <2>1. held' = [r \in GateRuns |-> held'[r]]
        BY <1>1 DEF EditTree, RemoveFile, Shape
    <2> QED
        BY <1>1, <1>2, <2>1 DEF Shape
<1>6. TreeSound'
    <2>1. SuiteIsKnown'
        BY <1>1 DEF EditTree, RemoveFile, TreeSound, SuiteIsKnown
    <2>2. file' = file \/ file' = {}
        BY DEF EditTree, RemoveFile
    <2>3. CASE file' = {}
        BY <2>1, <2>3 DEF TreeSound, WellFormed, BaselineIsComplete
    <2>4. CASE file' = file
        <3>1. WellFormed(file)'
            BY <1>1, <2>4 DEF TreeSound, WellFormed
        <3>2. BaselineIsComplete'
            BY <1>1, <1>2, <2>4 DEF TreeSound, BaselineIsComplete, HasVerdicts, CasesOf
        <3> QED
            BY <2>1, <3>1, <3>2 DEF TreeSound
    <2> QED
        BY <2>2, <2>3, <2>4
<1>7. ASSUME NEW r \in GateRuns
      PROVE  RunSound(r)'
    BY <1>1, <1>2, <1>4, OthersKept
<1> QED
    BY <1>3, <1>5, <1>6, <1>7 DEF GateIInv, TreeSound, RunSound, RunTested, GateHasTested

\* The inductive invariant of the gate: for any number of runs, whatever their options, any suite,
\* golds, significance level and reports of earlier runs, and any edits of the tree.
THEOREM GateInvariance == GateSpec => []GateIInv
<1>1. GateInit => GateIInv
    BY InitSound
<1>2. GateIInv /\ [GateNext]_gateVars => GateIInv'
    <2> SUFFICES ASSUME GateIInv, [GateNext]_gateVars
                 PROVE  GateIInv'
        OBVIOUS
    <2>1. CASE UNCHANGED gateVars
        <3>1. GateTypeOK' /\ Shape' /\ TreeSound'
            BY <2>1, IInvByParts, TreeKept DEF gateVars, GateTypeOK, Shape
        <3>2. ASSUME NEW r \in GateRuns
              PROVE  RunSound(r)'
            <4>1. RunSound(r) /\ (stage[r] # "off" => file \in held[r])
                BY IInvByParts DEF RunSound, HasReference
            <4> QED
                BY <2>1, <4>1, OthersKept DEF gateVars
        <3> QED
            BY <3>1, <3>2 DEF GateIInv, TreeSound, RunSound, RunTested, GateHasTested
    <2>2. ASSUME NEW r \in GateRuns, SetUpFails(r) \/ VerificationFails(r) \/ Killed(r)
          PROVE  GateIInv'
        <3>1. PICK code \in {2, 130} : ExitsWith(r, code)
            BY <2>2 DEF SetUpFails, VerificationFails, Killed
        <3>2. stage[r] # "off" /\ UNCHANGED <<Tree, file, opt, picked, reference, mine, held>>
            BY <2>2 DEF SetUpFails, VerificationFails, Killed
        <3>3. code \in Codes /\ code # 0
            BY DEF Codes
        <3> QED
            BY <2>2, <3>1, <3>2, <3>3, FailureSound
    <2>3. ASSUME NEW r \in GateRuns, Begin(r) \/ Select(r) \/ LoadBaseline(r) \/ LoadRecording(r)
          PROVE  GateIInv'
        BY <2>3, BeginSound, SelectSound, LoadBaselineSound, LoadRecordingSound
    <2>4. ASSUME NEW r \in GateRuns, Finish(r) \/ FinishRescore(r)
          PROVE  GateIInv'
        BY <2>4, FinishSound, FinishRescoreSound
    <2>5. CASE EditTree \/ RemoveFile
        BY <2>5, TreeStepSound
    <2> QED
        BY <2>1, <2>2, <2>3, <2>4, <2>5 DEF GateNext
<1> QED
    BY <1>1, <1>2, PTL DEF GateSpec

\* A gate without a threshold that exits 0 ran to its end without an outage of its own, on at least
\* half of the answer cases of its suite, and is not significantly worse than a baseline there was.
THEOREM GateIsTested == GateSpec => []GateHasTested
<1>1. GateIInv => GateHasTested
    BY DEF GateIInv
<1> QED
    BY <1>1, GateInvariance, PTL

\* The default baseline always holds every case of a suite the tree has had, with verdicts only.
THEOREM BaselineStaysComplete == GateSpec => []BaselineIsComplete
<1>1. GateIInv => BaselineIsComplete
    BY DEF GateIInv
<1> QED
    BY <1>1, GateInvariance, PTL

-----------------------------------------------------------------------------
(* One repetition: the invariant.                                            *)

Checks == {"none", "true_rejection", "false_rejection", "error", "error_infra"}
Attempts ==
    [sql : Sqls \cup {NoSql}, validation : Rules \cup {SafetyCode, "ok", "none"},
     execution : {"none", "ok", "failed", "infra"}, check : Checks]

Running == {"gold", "llm", "execute", "score"}
\* What a repetition ends with when nothing broke; "pass" and the broken gold apart.
Failures ==
    {"validation_error", "execution_error", "llm_error", "result_mismatch", "retrieval_miss", "clarify", "abstain", "answered"}
Breakdowns == {"gold_infra", "llm_outage", "infra_error", "evaluation_error", "aborted"}

CaseTypes ==
    /\ world \in CaseWorlds
    /\ at \in Running \cup {"check", "done"}
    /\ tries \in Seq(Attempts)
    /\ status \in {"none", "pass", "expected_sql_error"} \cup Failures \cup Breakdowns
    /\ struck \subseteq {"db", "gold", "llm", "deadline"}
    /\ checked \in [Sqls -> Checks]

\* A verdict on a rejection is right, or something broke.
CheckIsTrue(check, sql, broke) ==
    /\ check = "true_rejection" => sql.rows # "right"
    /\ check = "false_rejection" => sql.rows = "right"
    /\ check \in {"error", "error_infra"} => broke

AttemptIsTrue(t, broke) ==
    /\ t.validation = IF t.sql = NoSql THEN "none" ELSE IF t.sql.rule = "none" THEN "ok" ELSE t.sql.rule
    /\ t.execution = "failed" => t.sql.rows = "fails"
    /\ CheckIsTrue(t.check, t.sql, broke)

AttemptsAreTrue ==
    /\ \A i \in DOMAIN tries : AttemptIsTrue(tries[i], struck # {})
    /\ \A q \in Sqls : CheckIsTrue(checked[q], q, struck # {})

\* The SQL of an attempt was let through, and did not fail: there is no attempt after it.
Open(t) == t.validation = "ok" /\ t.execution # "failed"
LastIsOpen ==
    /\ at = "gold" => tries = <<>>
    /\ \A i \in DOMAIN tries : Open(tries[i]) => i = Len(tries) /\ at # "llm"
    /\ at \in {"execute", "score"} => tries # <<>> /\ Current.validation = "ok" /\ Current.execution # "failed"

\* While it runs only the deadline can have struck, and a case with a gold is past it.
RunningTells ==
    /\ at \in Running => status = "none" /\ struck \subseteq {"deadline"}
    /\ at \in {"gold", "score"} => Answerable
    /\ at \in {"llm", "execute", "score"} /\ Answerable => world.gold
    /\ at # "done" <=> judged = <<>>

CheckBroke == \E i \in DOMAIN tries : IsGuardrailRejected(tries[i]) /\ tries[i].check \in {"error", "error_infra"}

\* What the status of an ended repetition says of the case.
StatusTells ==
    at \notin Running =>
        /\ status # "none"
        /\ status \in Breakdowns => struck # {}
        /\ status = "aborted" <=> Aborted
        /\ status = "expected_sql_error" => Answerable /\ ~world.gold
        /\ status \in Failures => struck = {} \/ CheckBroke
        /\ status \in Failures \cup {"pass"} => tries # <<>> /\ (Answerable => world.gold /\ status # "answered")
        /\ status \in {"pass", "result_mismatch", "retrieval_miss"} =>
               Answerable /\ Current.validation = "ok" /\ (Current.sql.rows = "right" <=> status = "pass")
        /\ status = "validation_error" => Current.validation \notin {"ok", "none"}
        /\ status = "execution_error" => Current.validation = "ok" /\ Current.execution = "failed"
        /\ status \in {"clarify", "abstain", "llm_error"} => Current.sql = NoSql
        /\ tries # <<>> /\ Open(Current) /\ Answerable =>
               status \in {"pass", "result_mismatch", "retrieval_miss"} \/ struck # {}

CaseIInv == CaseTypes /\ AttemptsAreTrue /\ LastIsOpen /\ RunningTells /\ StatusTells /\ JudgedFairly

LEMMA SqlTypes == NoSql \notin Sqls /\ \A q \in Sqls : q.rows # "none" /\ q.rule \in Rules \cup {SafetyCode, "none"}
BY DEF NoSql, Sqls, Empty

LEMMA AttemptAdded ==
    ASSUME tries \in Seq(Attempts), NEW t \in Attempts, tries' = Append(tries, t)
    PROVE  /\ tries' \in Seq(Attempts) /\ tries' # <<>> /\ Current' = t /\ Len(tries') \in DOMAIN tries'
           /\ \A i \in DOMAIN tries' :
                \/ i \in DOMAIN tries /\ tries'[i] = tries[i] /\ i # Len(tries')
                \/ i = Len(tries') /\ tries'[i] = t
BY DEF Current

LEMMA AttemptChanged ==
    ASSUME tries \in Seq(Attempts), NEW i \in DOMAIN tries, NEW t \in Attempts, tries' = [tries EXCEPT ![i] = t]
    PROVE  /\ tries' \in Seq(Attempts) /\ DOMAIN tries' = DOMAIN tries /\ Len(tries') = Len(tries)
           /\ tries'[i] = t /\ \A j \in DOMAIN tries \ {i} : tries'[j] = tries[j]
           /\ tries # <<>> /\ tries' # <<>>
BY DEF Current

LEMMA CurrentIsAttempt ==
    ASSUME tries \in Seq(Attempts), tries # <<>>
    PROVE  Len(tries) \in DOMAIN tries /\ Current \in Attempts
BY DEF Current

LEMMA CaseInitSound ==
    ASSUME CaseRunInit
    PROVE  CaseIInv
<1>1. CaseTypes
    BY DEF CaseRunInit, CaseTypes, Running, Checks
<1>2. AttemptsAreTrue
    BY DEF CaseRunInit, AttemptsAreTrue, CheckIsTrue
<1>3. LastIsOpen /\ RunningTells /\ StatusTells /\ JudgedFairly
    BY DEF CaseRunInit, LastIsOpen, RunningTells, StatusTells, Running, JudgedFairly, VerdictIsFair, CellsAreTrue
<1> QED
    BY <1>1, <1>2, <1>3 DEF CaseIInv

\* Before the verdict there is nothing to be fair about.
LEMMA NotYetJudged ==
    ASSUME CaseIInv, at # "done", judged' = judged
    PROVE  judged' = <<>> /\ JudgedFairly'
BY DEF CaseIInv, RunningTells, JudgedFairly, VerdictIsFair, CellsAreTrue

LEMMA DeadlineSound ==
    ASSUME CaseIInv, DeadlineStrikes
    PROVE  CaseIInv'
<1>1. /\ at \in Running /\ struck' = struck \cup {"deadline"}
      /\ UNCHANGED <<world, at, tries, status, checked, judged>>
    BY DEF DeadlineStrikes, MayStrike, Running
<1>2. CaseTypes'
    BY <1>1 DEF CaseIInv, CaseTypes
<1>3. AttemptsAreTrue'
    BY <1>1 DEF CaseIInv, AttemptsAreTrue, AttemptIsTrue, CheckIsTrue
<1>4. LastIsOpen'
    BY <1>1 DEF CaseIInv, LastIsOpen, Open, Current
<1>5. RunningTells' /\ StatusTells'
    BY <1>1 DEF CaseIInv, RunningTells, StatusTells, Answerable
<1>6. JudgedFairly'
    BY <1>1, NotYetJudged DEF Running
<1> QED
    BY <1>2, <1>3, <1>4, <1>5, <1>6 DEF CaseIInv

LEMMA RunGoldsSound ==
    ASSUME CaseIInv, RunGolds
    PROVE  CaseIInv'
<1>1. /\ at = "gold" /\ UNCHANGED <<world, tries, checked, judged>>
      /\ \/ struck' = struck /\ world.gold /\ at' = "llm" /\ status' = status
         \/ /\ struck' = struck /\ at' = "check" /\ (~world.gold \/ Aborted)
            /\ status' = IF Aborted THEN "aborted" ELSE "expected_sql_error"
         \/ /\ struck' = struck \cup {"db"} /\ at' = "check" /\ status' = IF Aborted THEN "aborted" ELSE "gold_infra"
    BY DEF RunGolds, Holds, Onto, EndsAs, MayStrike
<1>2. CaseTypes'
    BY <1>1 DEF CaseIInv, CaseTypes, Running, Failures, Breakdowns
<1>3. AttemptsAreTrue'
    BY <1>1 DEF CaseIInv, AttemptsAreTrue, AttemptIsTrue, CheckIsTrue
<1>4. LastIsOpen'
    BY <1>1 DEF CaseIInv, LastIsOpen, Open
<1>5. RunningTells'
    BY <1>1 DEF CaseIInv, RunningTells, Answerable, Running
<1>6. StatusTells'
    <2>1. tries' = <<>> /\ Answerable' /\ struck \subseteq {"deadline"}
        BY <1>1 DEF CaseIInv, LastIsOpen, RunningTells, Answerable, Running
    <2>2. CASE at' = "llm"
        BY <1>1, <2>2 DEF StatusTells, Running
    <2>3. CASE at' = "check"
        BY <1>1, <2>1, <2>3 DEF StatusTells, Failures, Breakdowns, Aborted
    <2> QED
        BY <1>1, <2>2, <2>3
<1>7. JudgedFairly'
    BY <1>1, NotYetJudged
<1> QED
    BY <1>2, <1>3, <1>4, <1>5, <1>6, <1>7 DEF CaseIInv

\* A new attempt, none of whose checks or executions is there yet.
LEMMA FreshAttempt ==
    ASSUME CaseIInv, at = "llm", NEW t \in Attempts, tries' = Append(tries, t), struck \subseteq struck', checked' = checked,
           t.validation = (IF t.sql = NoSql THEN "none" ELSE IF t.sql.rule = "none" THEN "ok" ELSE t.sql.rule),
           t.execution = "none", t.check = "none", at' = "llm" => t.validation # "ok", at' # "gold",
           at' \in {"execute", "score"} => t.validation = "ok"
    PROVE  /\ tries' \in Seq(Attempts) /\ tries' # <<>> /\ Current' = t
           /\ AttemptsAreTrue' /\ LastIsOpen'
<1>1. tries \in Seq(Attempts) /\ AttemptsAreTrue /\ LastIsOpen
    BY DEF CaseIInv, CaseTypes
<1>2. /\ tries' \in Seq(Attempts) /\ tries' # <<>> /\ Current' = t /\ Len(tries') \in DOMAIN tries'
      /\ \A i \in DOMAIN tries' :
            \/ i \in DOMAIN tries /\ tries'[i] = tries[i] /\ i # Len(tries')
            \/ i = Len(tries') /\ tries'[i] = t
    BY <1>1, AttemptAdded
<1>3. \A sql : CheckIsTrue("none", sql, struck' # {})
    BY DEF CheckIsTrue
<1>4. AttemptsAreTrue'
    <2>1. ASSUME NEW i \in DOMAIN tries'
          PROVE  AttemptIsTrue(tries'[i], struck' # {})
        <3>1. CASE i \in DOMAIN tries /\ tries'[i] = tries[i]
            <4>1. AttemptIsTrue(tries[i], struck # {})
                BY <1>1, <3>1 DEF AttemptsAreTrue
            <4> QED
                BY <3>1, <4>1 DEF AttemptIsTrue, CheckIsTrue
        <3>2. CASE tries'[i] = t
            BY <3>2 DEF AttemptIsTrue, CheckIsTrue
        <3> QED
            BY <1>2, <2>1, <3>1, <3>2
    <2>2. ASSUME NEW q \in Sqls
          PROVE  CheckIsTrue(checked'[q], q, struck' # {})
        BY <1>1 DEF AttemptsAreTrue, CheckIsTrue
    <2> QED
        BY <2>1, <2>2 DEF AttemptsAreTrue
<1>5. LastIsOpen'
    BY <1>1, <1>2 DEF LastIsOpen, Open
<1> QED
    BY <1>2, <1>4, <1>5

LEMMA GenerateSound ==
    ASSUME CaseIInv, Generate
    PROVE  CaseIInv'
<1>1. PICK sql \in Sqls :
        /\ tries' = Append(tries, Validated(sql))
        /\ IF sql.rule = "none" THEN Onto("execute") ELSE RetryOr("validation_error")
    BY DEF Generate
<1>2. at = "llm" /\ ~Aborted /\ UNCHANGED <<world, struck, checked, judged>>
    BY DEF Generate
<1> DEFINE t == Validated(sql)
<1>3. /\ t \in Attempts /\ t.sql = sql /\ t.execution = "none" /\ t.check = "none"
      /\ t.validation = IF sql.rule = "none" THEN "ok" ELSE sql.rule
    BY SqlTypes DEF Validated, Attempt, Attempts, Checks
<1>4. sql # NoSql /\ (t.validation = "ok" <=> sql.rule = "none") /\ t.validation # "none"
    BY <1>3, SqlTypes, CaseRunAssumption DEF SafetyCode
<1> HIDE DEF t
<1>5. \/ at' = "execute" /\ status' = status /\ t.validation = "ok"
      \/ at' = "llm" /\ status' = status /\ t.validation # "ok"
      \/ at' = "check" /\ status' = "validation_error" /\ t.validation # "ok"
    BY <1>1, <1>2, <1>4 DEF Onto, RetryOr, EndsAs
<1>6. tries' \in Seq(Attempts) /\ tries' # <<>> /\ Current' = t /\ AttemptsAreTrue' /\ LastIsOpen'
    BY <1>1, <1>2, <1>3, <1>4, <1>5, FreshAttempt DEF t
<1>7. CaseTypes'
    BY <1>2, <1>5, <1>6 DEF CaseIInv, CaseTypes, Running, Failures
<1>8. RunningTells'
    BY <1>2, <1>5 DEF CaseIInv, RunningTells, Answerable, Running
<1>9. StatusTells'
    <2>1. CASE at' \in {"execute", "llm"}
        BY <2>1 DEF StatusTells, Running
    <2>2. CASE at' = "check"
        <3>1. struck' = {} /\ (Answerable' => world'.gold)
            BY <1>2 DEF CaseIInv, RunningTells, Answerable, Running, Aborted
        <3>2. status' = "validation_error" /\ t.validation \notin {"ok", "none"}
            BY <1>4, <1>5, <2>2
        <3> QED
            BY <1>6, <2>2, <3>1, <3>2 DEF StatusTells, Failures, Breakdowns, Aborted, Open, Answerable
    <2> QED
        BY <1>5, <2>1, <2>2
<1>10. JudgedFairly'
    BY <1>2, NotYetJudged
<1> QED
    BY <1>6, <1>7, <1>8, <1>9, <1>10 DEF CaseIInv

\* An attempt without SQL: the model decided not to answer, or the completion failed.
LEMMA WithoutSqlSound ==
    ASSUME CaseIInv, Decide \/ CompletionFails
    PROVE  CaseIInv'
<1> DEFINE t == Attempt(NoSql)
<1>1. /\ at = "llm" /\ UNCHANGED <<world, checked, judged>> /\ tries' = Append(tries, t)
      /\ \/ at' = "llm" /\ status' = status /\ struck' = struck
         \/ at' = "check" /\ status' \in {"clarify", "abstain", "llm_error"} /\ struck' = struck /\ ~Aborted
         \/ at' = "check" /\ status' = "aborted" /\ struck' = struck /\ Aborted
         \/ at' = "check" /\ status' = "aborted" /\ struck' = struck \cup {"llm"} /\ Aborted
         \/ at' = "check" /\ status' = "llm_outage" /\ struck' = struck \cup {"llm"} /\ ~Aborted
    BY DEF Decide, CompletionFails, Holds, MayStrike, RetryOr, EndsAs, Onto
<1>2. t \in Attempts /\ t.sql = NoSql /\ t.execution = "none" /\ t.check = "none" /\ t.validation = "none"
    BY DEF Attempt, Attempts, Checks
<1> HIDE DEF t
<1>3. tries' \in Seq(Attempts) /\ tries' # <<>> /\ Current' = t /\ AttemptsAreTrue' /\ LastIsOpen'
    BY <1>1, <1>2, FreshAttempt
<1>4. CaseTypes'
    BY <1>1, <1>3 DEF CaseIInv, CaseTypes, Running, Failures, Breakdowns
<1>5. RunningTells'
    BY <1>1 DEF CaseIInv, RunningTells, Answerable, Running
<1>6. StatusTells'
    <2>1. struck \subseteq {"deadline"} /\ (Answerable' => world'.gold)
        BY <1>1 DEF CaseIInv, RunningTells, Answerable, Running
    <2>2. CASE at' = "llm"
        BY <2>2 DEF StatusTells, Running
    <2>3. CASE at' = "check" /\ status' \in {"clarify", "abstain", "llm_error"} /\ struck' = struck /\ ~Aborted
        <3>1. struck' = {}
            BY <2>1, <2>3 DEF Aborted
        <3> QED
            BY <1>2, <1>3, <2>1, <2>3, <3>1 DEF StatusTells, Failures, Breakdowns, Aborted, Open, Answerable
    <2>4. CASE at' = "check" /\ status' = "aborted" /\ Aborted /\ struck \subseteq struck'
        BY <1>2, <1>3, <2>4 DEF StatusTells, Failures, Breakdowns, Aborted, Open
    <2>5. CASE at' = "check" /\ status' = "llm_outage" /\ struck' = struck \cup {"llm"} /\ ~Aborted
        BY <1>2, <1>3, <2>5 DEF StatusTells, Failures, Breakdowns, Aborted, Open
    <2> QED
        BY <1>1, <2>2, <2>3, <2>4, <2>5
<1>7. JudgedFairly'
    BY <1>1, NotYetJudged
<1> QED
    BY <1>3, <1>4, <1>5, <1>6, <1>7 DEF CaseIInv

\* The last attempt gets its execution.
LEMMA ExecutedAttempt ==
    ASSUME CaseIInv, at = "execute", NEW result \in {"ok", "failed", "infra"}, Executed(result),
           struck \subseteq struck', checked' = checked, result = "failed" => Current.sql.rows = "fails",
           at' = "llm" => result = "failed", at' \notin {"gold", "execute"}, at' = "score" => result # "failed"
    PROVE  /\ tries' \in Seq(Attempts) /\ tries' # <<>> /\ AttemptsAreTrue' /\ LastIsOpen'
           /\ Current'.sql = Current.sql /\ Current'.validation = "ok" /\ Current'.execution = result
<1> DEFINE n == Len(tries)
<1> DEFINE t == [Current EXCEPT !.execution = result]
<1>1. /\ tries \in Seq(Attempts) /\ tries # <<>> /\ AttemptsAreTrue /\ LastIsOpen /\ Current.validation = "ok"
    BY DEF CaseIInv, CaseTypes, LastIsOpen
<1>2. n \in DOMAIN tries /\ Current \in Attempts /\ Current = tries[n]
    BY <1>1, CurrentIsAttempt DEF Current
<1>3. /\ t \in Attempts /\ t.sql = Current.sql /\ t.validation = "ok" /\ t.execution = result /\ t.check = Current.check
    BY <1>1, <1>2 DEF Attempts
<1>4. tries' = [tries EXCEPT ![n] = t]
    BY <1>2 DEF Executed
<1> HIDE DEF t
<1>5. /\ tries' \in Seq(Attempts) /\ tries' # <<>> /\ DOMAIN tries' = DOMAIN tries /\ Len(tries') = n
      /\ tries'[n] = t /\ \A j \in DOMAIN tries \ {n} : tries'[j] = tries[j]
    BY <1>1, <1>2, <1>3, <1>4, AttemptChanged
<1>6. Current' = t
    BY <1>5 DEF Current
<1>7. AttemptsAreTrue'
    <2>1. \A i \in DOMAIN tries : AttemptIsTrue(tries[i], struck # {})
        BY <1>1 DEF AttemptsAreTrue
    <2>2. AttemptIsTrue(t, struck' # {})
        <3>1. AttemptIsTrue(Current, struck # {})
            BY <1>2, <2>1
        <3>2. /\ CheckIsTrue(t.check, t.sql, struck' # {})
              /\ t.execution = "failed" => t.sql.rows = "fails"
            BY <1>3, <3>1 DEF AttemptIsTrue, CheckIsTrue
        <3>3. t.validation = IF t.sql = NoSql THEN "none" ELSE IF t.sql.rule = "none" THEN "ok" ELSE t.sql.rule
            BY <1>1, <1>3, <3>1 DEF AttemptIsTrue
        <3> QED
            BY <3>2, <3>3 DEF AttemptIsTrue
    <2>3. ASSUME NEW i \in DOMAIN tries, i # n
          PROVE  AttemptIsTrue(tries[i], struck' # {})
        BY <2>1 DEF AttemptIsTrue, CheckIsTrue
    <2>4. \A q \in Sqls : CheckIsTrue(checked'[q], q, struck' # {})
        BY <1>1 DEF AttemptsAreTrue, CheckIsTrue
    <2> QED
        BY <1>5, <2>2, <2>3, <2>4 DEF AttemptsAreTrue
<1>8. LastIsOpen'
    <2>1. ASSUME NEW i \in DOMAIN tries', Open(tries'[i])
          PROVE  i = Len(tries') /\ at' # "llm"
        BY <1>1, <1>3, <1>5, <2>1 DEF LastIsOpen, Open
    <2>2. at' = "score" => tries' # <<>> /\ Current'.validation = "ok" /\ Current'.execution # "failed"
        BY <1>3, <1>5, <1>6
    <2> QED
        BY <2>1, <2>2 DEF LastIsOpen
<1> QED
    BY <1>3, <1>5, <1>6, <1>7, <1>8

LEMMA ExecuteSound ==
    ASSUME CaseIInv, Execute
    PROVE  CaseIInv'
<1>1. /\ at = "execute" /\ UNCHANGED <<world, checked, judged>>
      /\ \/ struck' = struck /\ Aborted /\ at' = "check" /\ status' = "aborted" /\ tries' = tries
         \/ /\ struck' = struck /\ ~Aborted /\ Current.sql.rows = "fails" /\ Executed("failed")
            /\ \/ at' = "llm" /\ status' = status
               \/ at' = "check" /\ status' = "execution_error"
         \/ /\ struck' = struck /\ ~Aborted /\ Executed("ok")
            /\ \/ Answerable /\ at' = "score" /\ status' = status
               \/ ~Answerable /\ at' = "check" /\ status' = "answered"
         \/ /\ struck' = struck \cup {"db"} /\ ~Aborted /\ Executed("infra") /\ at' = "check" /\ status' = "infra_error"
    BY DEF Execute, Holds, MayStrike, RetryOr, EndsAs, Onto
<1>2. struck \subseteq {"deadline"} /\ (Answerable => world.gold)
    BY <1>1 DEF CaseIInv, RunningTells, Running
<1>3. RunningTells'
    BY <1>1 DEF CaseIInv, RunningTells, Answerable, Running
<1>4. JudgedFairly'
    BY <1>1, NotYetJudged
<1>5. CASE struck' = struck /\ Aborted /\ at' = "check" /\ status' = "aborted" /\ tries' = tries
    <2>1. CaseTypes' /\ AttemptsAreTrue'
        BY <1>1, <1>5 DEF CaseIInv, CaseTypes, AttemptsAreTrue, Breakdowns
    <2>2. LastIsOpen'
        BY <1>5 DEF CaseIInv, LastIsOpen
    <2>3. StatusTells'
        BY <1>5 DEF StatusTells, Failures, Breakdowns, Aborted
    <2> QED
        BY <1>3, <1>4, <2>1, <2>2, <2>3 DEF CaseIInv
<1>6. ASSUME NEW result \in {"ok", "failed", "infra"}, Executed(result),
             result = "failed" => Current.sql.rows = "fails", struck \subseteq struck',
             struck' \subseteq {"db", "deadline"}, ~Aborted',
             \/ at' = "llm" /\ status' = status /\ result = "failed"
             \/ at' = "score" /\ status' = status /\ result = "ok"
             \/ /\ at' = "check" /\ status' \in {"execution_error", "answered", "infra_error"}
                /\ status' = "infra_error" => struck' # {}
                /\ status' # "infra_error" => struck' = {}
                /\ status' = "execution_error" => result = "failed"
                /\ status' = "answered" => ~Answerable
                /\ result = "infra" => status' = "infra_error"
      PROVE  CaseIInv'
    <2>1. /\ tries' \in Seq(Attempts) /\ tries' # <<>> /\ AttemptsAreTrue' /\ LastIsOpen'
          /\ Current'.sql = Current.sql /\ Current'.validation = "ok" /\ Current'.execution = result
        BY <1>1, <1>6, ExecutedAttempt
    <2>2. CaseTypes'
        BY <1>1, <1>6, <2>1 DEF CaseIInv, CaseTypes, Running, Failures, Breakdowns
    <2>3. StatusTells'
        <3>1. CASE at' \in Running
            BY <3>1 DEF StatusTells
        <3>2. CASE at' = "check"
            BY <1>1, <1>2, <1>6, <2>1, <3>2 DEF StatusTells, Failures, Breakdowns, Aborted, Answerable, Open
        <3> QED
            BY <1>6, <3>1, <3>2 DEF Running
    <2> QED
        BY <1>3, <1>4, <2>1, <2>2, <2>3 DEF CaseIInv
<1>7. CASE struck' = struck /\ ~Aborted
    <2>1. struck' = {}
        BY <1>2, <1>7 DEF Aborted
    <2> QED
        BY <1>1, <1>6, <1>7, <2>1 DEF Aborted
<1>8. CASE struck' = struck \cup {"db"} /\ ~Aborted
    BY <1>1, <1>2, <1>6, <1>8 DEF Aborted
<1> QED
    BY <1>1, <1>5, <1>7, <1>8

LEMMA ScoreSound ==
    ASSUME CaseIInv, Score
    PROVE  CaseIInv'
<1>1. /\ at = "score" /\ at' = "check" /\ UNCHANGED <<world, checked, judged>>
      /\ \/ /\ struck' = struck /\ tries' = tries /\ Aborted /\ status' = "aborted"
         \/ /\ struck' = struck /\ tries' = tries /\ ~Aborted
            /\ status' = IF Current.sql.rows = "right" THEN "pass" ELSE IF world.hidden THEN "retrieval_miss" ELSE "result_mismatch"
         \/ /\ struck' = struck \cup {"db"} /\ tries' = tries
            /\ status' = IF Aborted THEN "aborted" ELSE "infra_error"
         \/ /\ struck' = struck \cup {"gold"} /\ tries' = <<>>
            /\ status' = IF Aborted THEN "aborted" ELSE "evaluation_error"
    BY DEF Score, Holds, MayStrike, EndsAs
<1>2. /\ struck \subseteq {"deadline"} /\ Answerable /\ world.gold
      /\ tries # <<>> /\ Current.validation = "ok" /\ Current.execution # "failed"
    BY <1>1 DEF CaseIInv, RunningTells, LastIsOpen, Running
<1>3. RunningTells' /\ JudgedFairly'
    BY <1>1, NotYetJudged DEF CaseIInv, RunningTells, Answerable, Running
<1>4. CaseTypes'
    <2>1. tries' \in Seq(Attempts)
        <3>1. tries \in Seq(Attempts) /\ <<>> \in Seq(Attempts)
            BY DEF CaseIInv, CaseTypes
        <3> QED
            BY <1>1, <3>1
    <2> QED
        BY <1>1, <2>1 DEF CaseIInv, CaseTypes, Failures, Breakdowns
<1>5. AttemptsAreTrue'
    BY <1>1 DEF CaseIInv, AttemptsAreTrue, AttemptIsTrue, CheckIsTrue
<1>6. LastIsOpen'
    BY <1>1 DEF CaseIInv, LastIsOpen
<1>7. StatusTells'
    <2>1. CASE struck' = struck /\ tries' = tries /\ Aborted /\ status' = "aborted"
        BY <1>1, <2>1 DEF StatusTells, Failures, Breakdowns, Aborted
    <2>2. CASE /\ struck' = struck /\ tries' = tries /\ ~Aborted
               /\ status' = IF Current.sql.rows = "right" THEN "pass" ELSE IF world.hidden THEN "retrieval_miss" ELSE "result_mismatch"
        <3>1. struck' = {} /\ Current' = Current /\ Answerable' /\ world'.gold
            BY <1>1, <1>2, <2>2 DEF Aborted, Current, Answerable
        <3> QED
            BY <1>1, <1>2, <2>2, <3>1 DEF StatusTells, Failures, Breakdowns, Aborted, Open
    <2>3. CASE struck' \in {struck \cup {"db"}, struck \cup {"gold"}} /\ status' \in {"aborted", "infra_error", "evaluation_error"}
               /\ (status' = "aborted" <=> Aborted)
        BY <1>1, <2>3 DEF StatusTells, Failures, Breakdowns, Aborted
    <2> QED
        BY <1>1, <2>1, <2>2, <2>3
<1> QED
    BY <1>3, <1>4, <1>5, <1>6, <1>7 DEF CaseIInv

LEMMA SmallestIndex ==
    ASSUME NEW S \in SUBSET Nat, S # {}
    PROVE  (CHOOSE j \in S : \A k \in S : j <= k) \in S
<1>1. \E j \in S : \A k \in S : ~(<<k, j>> \in OpToRel(<, Nat))
    BY NatLessThanWellFounded, WFMin
<1>2. \A j, k \in S : ~(<<k, j>> \in OpToRel(<, Nat)) => j <= k
    BY DEF OpToRel
<1> QED
    BY <1>1, <1>2

\* A rejected SQL is run after all, or a verdict on it is taken over.
LEMMA CheckRejectionSound ==
    ASSUME CaseIInv, CheckRejection
    PROVE  CaseIInv'
<1> DEFINE n == CHOOSE j \in Unchecked : \A k \in Unchecked : j <= k
<1> DEFINE sql == tries[n].sql
<1>1. /\ at = "check" /\ Answerable /\ Unchecked # {} /\ UNCHANGED <<world, at, status, judged>>
      /\ \/ /\ checked[sql] # "none" /\ Noted(n, checked[sql]) /\ checked' = checked /\ struck' = struck
         \/ \E verdict \in Checks :
            /\ Noted(n, verdict) /\ checked' = [checked EXCEPT ![sql] = verdict]
            /\ \/ struck' = struck /\ verdict = (IF sql.rows = "right" THEN "false_rejection" ELSE "true_rejection")
               \/ struck' = struck \cup {"db"} /\ verdict = "error_infra"
               \/ struck' = struck \cup {"gold"} /\ verdict = "error"
    BY DEF CheckRejection, Holds, MayStrike, Checks
<1>2. /\ CaseTypes /\ AttemptsAreTrue /\ LastIsOpen /\ RunningTells /\ StatusTells
      /\ tries \in Seq(Attempts)
    BY DEF CaseIInv, CaseTypes
<1>3. /\ n \in DOMAIN tries /\ IsGuardrailRejected(tries[n]) /\ tries[n].check = "none"
    <2>1. Unchecked \in SUBSET Nat
        BY <1>2 DEF Unchecked
    <2>2. n \in Unchecked
        BY <1>1, <2>1, SmallestIndex
    <2> QED
        BY <2>2 DEF Unchecked
<1>4. tries[n] \in Attempts /\ sql \in Sqls /\ AttemptIsTrue(tries[n], struck # {})
    <2>1. tries[n] \in Attempts /\ AttemptIsTrue(tries[n], struck # {})
        BY <1>2, <1>3 DEF AttemptsAreTrue
    <2>2. tries[n].sql # NoSql
        BY <1>3, <2>1, CaseRunAssumption DEF AttemptIsTrue, IsGuardrailRejected
    <2> QED
        BY <2>1, <2>2 DEF Attempts
<1> HIDE DEF n
<1>5. PICK verdict \in Checks :
        /\ Noted(n, verdict) /\ verdict # "none" /\ checked' \in [Sqls -> Checks]
        /\ \A q \in Sqls : checked'[q] = checked[q] \/ (q = sql /\ checked'[q] = verdict)
        /\ struck \subseteq struck' /\ struck' \subseteq struck \cup {"db", "gold"}
        /\ CheckIsTrue(verdict, sql, struck' # {})
        /\ struck' = struck \/ verdict \in {"error", "error_infra"}
    <2>1. CASE checked[sql] # "none" /\ Noted(n, checked[sql]) /\ checked' = checked /\ struck' = struck
        <3>1. checked[sql] \in Checks /\ CheckIsTrue(checked[sql], sql, struck # {}) /\ checked \in [Sqls -> Checks]
            BY <1>2, <1>4 DEF CaseTypes, AttemptsAreTrue
        <3> DEFINE known == checked[sql]
        <3>2. /\ Noted(n, known) /\ known # "none" /\ checked' \in [Sqls -> Checks]
              /\ \A q \in Sqls : checked'[q] = checked[q] \/ (q = sql /\ checked'[q] = known)
              /\ struck \subseteq struck' /\ struck' \subseteq struck \cup {"db", "gold"}
              /\ CheckIsTrue(known, sql, struck' # {}) /\ known \in Checks
              /\ struck' = struck \/ known \in {"error", "error_infra"}
            BY <2>1, <3>1
        <3> HIDE DEF known
        <3> QED
            BY <3>2
    <2>2. ASSUME NEW verdict \in Checks, Noted(n, verdict), checked' = [checked EXCEPT ![sql] = verdict],
                 \/ struck' = struck /\ verdict = (IF sql.rows = "right" THEN "false_rejection" ELSE "true_rejection")
                 \/ struck' = struck \cup {"db"} /\ verdict = "error_infra"
                 \/ struck' = struck \cup {"gold"} /\ verdict = "error"
          PROVE  /\ verdict # "none" /\ checked' \in [Sqls -> Checks]
                 /\ \A q \in Sqls : checked'[q] = checked[q] \/ (q = sql /\ checked'[q] = verdict)
                 /\ struck \subseteq struck' /\ struck' \subseteq struck \cup {"db", "gold"}
                 /\ CheckIsTrue(verdict, sql, struck' # {})
                 /\ struck' = struck \/ verdict \in {"error", "error_infra"}
        <3>1. checked' \in [Sqls -> Checks] /\ \A q \in Sqls : checked'[q] = checked[q] \/ (q = sql /\ checked'[q] = verdict)
            <4>1. checked \in [Sqls -> Checks]
                BY <1>2 DEF CaseTypes
            <4> HIDE DEF sql
            <4> QED
                BY <1>4, <2>2, <4>1
        <3>2. verdict # "none" /\ (struck' = struck \/ verdict \in {"error", "error_infra"})
            BY <2>2
        <3>3. struck \subseteq struck' /\ struck' \subseteq struck \cup {"db", "gold"}
            BY <2>2
        <3>4. CheckIsTrue(verdict, sql, struck' # {})
            BY <2>2 DEF CheckIsTrue
        <3> QED
            BY <3>1, <3>2, <3>3, <3>4
    <2> QED
        BY <1>1, <2>1, <2>2
<1> DEFINE t == [tries[n] EXCEPT !.check = verdict]
<1>6. /\ t \in Attempts /\ t.sql = sql /\ t.validation = tries[n].validation /\ t.execution = tries[n].execution
      /\ t.check = verdict
    BY <1>4, <1>5 DEF Attempts
<1>7. tries' = [tries EXCEPT ![n] = t]
    BY <1>3, <1>5 DEF Noted
<1> HIDE DEF t
<1>8. /\ tries' \in Seq(Attempts) /\ DOMAIN tries' = DOMAIN tries /\ Len(tries') = Len(tries)
      /\ tries'[n] = t /\ \A j \in DOMAIN tries \ {n} : tries'[j] = tries[j]
      /\ tries # <<>> /\ tries' # <<>>
    BY <1>2, <1>3, <1>6, <1>7, AttemptChanged
<1>9. /\ Len(tries) \in DOMAIN tries
      /\ Current'.sql = Current.sql /\ Current'.validation = Current.validation /\ Current'.execution = Current.execution
    <2>1. Len(tries) \in DOMAIN tries
        BY <1>2, <1>8, CurrentIsAttempt
    <2> QED
        BY <1>6, <1>8, <2>1 DEF Current
<1>10. CaseTypes'
    BY <1>1, <1>2, <1>5, <1>8 DEF CaseTypes
<1>11. AttemptsAreTrue'
    <2>1. AttemptIsTrue(t, struck' # {})
        BY <1>4, <1>5, <1>6 DEF AttemptIsTrue
    <2>2. ASSUME NEW i \in DOMAIN tries
          PROVE  AttemptIsTrue(tries'[i], struck' # {})
        <3>1. AttemptIsTrue(tries[i], struck # {})
            BY <1>2 DEF AttemptsAreTrue
        <3>2. AttemptIsTrue(tries[i], struck' # {})
            BY <1>5, <3>1 DEF AttemptIsTrue, CheckIsTrue
        <3> QED
            BY <1>8, <2>1, <3>2
    <2>3. ASSUME NEW q \in Sqls
          PROVE  CheckIsTrue(checked'[q], q, struck' # {})
        BY <1>2, <1>5 DEF AttemptsAreTrue, CheckIsTrue
    <2> QED
        BY <1>8, <2>2, <2>3 DEF AttemptsAreTrue
<1>12. LastIsOpen'
    <2>1. ASSUME NEW i \in DOMAIN tries', Open(tries'[i])
          PROVE  i = Len(tries') /\ at' # "llm"
        <3>1. Open(tries[i])
            BY <1>6, <1>8, <2>1 DEF Open
        <3> QED
            BY <1>1, <1>2, <1>8, <3>1 DEF LastIsOpen
    <2> QED
        BY <1>1, <2>1 DEF LastIsOpen
<1>13. RunningTells' /\ JudgedFairly'
    BY <1>1, <1>2, NotYetJudged DEF RunningTells, Answerable, Running
<1>14. StatusTells'
    <2>1. status \in Failures => struck' = {} \/ CheckBroke'
        <3>1. CASE struck' # struck
            <4>1. IsGuardrailRejected(tries'[n]) /\ tries'[n].check \in {"error", "error_infra"} /\ n \in DOMAIN tries'
                BY <1>3, <1>5, <1>6, <1>8, <3>1 DEF IsGuardrailRejected
            <4> QED
                BY <4>1 DEF CheckBroke, IsGuardrailRejected
        <3>2. CASE struck' = struck
            <4>1. ASSUME NEW i \in DOMAIN tries, IsGuardrailRejected(tries[i]), tries[i].check \in {"error", "error_infra"}
                  PROVE  CheckBroke'
                <5>1. i # n /\ tries'[i] = tries[i] /\ i \in DOMAIN tries'
                    BY <1>3, <1>8, <4>1
                <5> QED
                    BY <4>1, <5>1 DEF CheckBroke, IsGuardrailRejected
            <4> QED
                BY <1>1, <1>2, <3>2, <4>1 DEF StatusTells, CheckBroke, Running
        <3> QED
            BY <3>1, <3>2
    <2>2. Aborted' <=> Aborted
        BY <1>5 DEF Aborted
    <2>3. struck # {} => struck' # {}
        BY <1>5
    <2>4. Open(Current)' <=> Open(Current)
        BY <1>9 DEF Open
    <2> QED
        BY <1>1, <1>2, <1>8, <1>9, <2>1, <2>2, <2>3, <2>4 DEF StatusTells, Answerable, Running
<1> QED
    BY <1>10, <1>11, <1>12, <1>13, <1>14 DEF CaseIInv

\* The bucket of what each status of a case with a gold stands for.
LEMMA OwnOutcomes ==
    /\ status \in Failures \ {"answered"} =>
           BucketOf(OwnOutcome) = "model" /\ OwnOutcome \notin Excluded \cup {"pass", "guardrail_false_rejection", "timeout"}
    /\ status \in {"pass", "expected_sql_error"} => OwnOutcome = status
    /\ status = "aborted" => OwnOutcome = "timeout"
    /\ status \in Breakdowns \ {"aborted"} => OwnOutcome \in {"infra_error", "harness_error", "llm_outage"}
<1>1. ASSUME status \in Failures \ {"answered"}
      PROVE  OwnOutcome \in {"declined_answer", "wrong_result", "guardrail_true_rejection", "safety_rejection",
                             "execution_error", "llm_error"}
    BY <1>1 DEF Failures, OwnOutcome
<1>2. \A o \in {"declined_answer", "wrong_result", "guardrail_true_rejection", "safety_rejection",
                "execution_error", "llm_error"} :
          BucketOf(o) = "model" /\ o \notin Excluded \cup {"pass", "guardrail_false_rejection", "timeout"}
    BY DEF BucketOf, Excluded
<1>3. /\ status \in {"pass", "expected_sql_error"} => OwnOutcome = status
      /\ status = "aborted" => OwnOutcome = "timeout"
      /\ status \in Breakdowns \ {"aborted"} => OwnOutcome \in {"infra_error", "harness_error", "llm_outage"}
    BY DEF OwnOutcome, Breakdowns
<1> QED
    BY <1>1, <1>2, <1>3

\* What the verdicts on the rejected attempts say, once each has one.
LEMMA VerdictsTell ==
    ASSUME AttemptsAreTrue, Unchecked = {}, tries \in Seq(Attempts)
    PROVE  /\ \A i \in DOMAIN tries : IsGuardrailRejected(tries[i]) /\ tries[i].sql.rows = "right" =>
                  Verdicts \cap {"false_rejection", "error", "error_infra"} # {}
           /\ "false_rejection" \in Verdicts =>
                  \E i \in DOMAIN tries : IsGuardrailRejected(tries[i]) /\ tries[i].sql.rows = "right"
           /\ "error" \in Verdicts \/ "error_infra" \in Verdicts <=> CheckBroke
           /\ CheckBroke => struck # {}
<1>1. ASSUME NEW i \in DOMAIN tries, IsGuardrailRejected(tries[i])
      PROVE  tries[i].check \in Checks \ {"none"} /\ tries[i].check \in Verdicts /\ AttemptIsTrue(tries[i], struck # {})
    <2>1. tries[i] \in Attempts
        BY <1>1
    <2> QED
        BY <1>1, <2>1 DEF Attempts, Unchecked, Verdicts, AttemptsAreTrue
<1>2. ASSUME NEW i \in DOMAIN tries, IsGuardrailRejected(tries[i]), tries[i].sql.rows = "right"
      PROVE  Verdicts \cap {"false_rejection", "error", "error_infra"} # {}
    <2>1. tries[i].check # "true_rejection"
        BY <1>1, <1>2 DEF AttemptIsTrue, CheckIsTrue
    <2> QED
        BY <1>1, <1>2, <2>1 DEF Checks
<1>3. ASSUME "false_rejection" \in Verdicts
      PROVE  \E i \in DOMAIN tries : IsGuardrailRejected(tries[i]) /\ tries[i].sql.rows = "right"
    BY <1>1, <1>3 DEF Verdicts, AttemptIsTrue, CheckIsTrue
<1>4. "error" \in Verdicts \/ "error_infra" \in Verdicts <=> CheckBroke
    BY DEF Verdicts, CheckBroke
<1>5. CheckBroke => struck # {}
    BY <1>1 DEF CheckBroke, AttemptIsTrue, CheckIsTrue
<1> QED
    BY <1>2, <1>3, <1>4, <1>5

\* The verdict on a case with a gold.
LEMMA AnswerIsJudged ==
    ASSUME CaseIInv, Answerable, at = "check", Unchecked = {},
           NEW final, final = CheckedOutcome(OwnOutcome)
    PROVE  LET thrownAway == \E i \in DOMAIN tries : IsGuardrailRejected(tries[i]) /\ tries[i].sql.rows = "right"
               bucket == IF IsSystems(final) THEN "system" ELSE BucketOf(final)
           IN /\ final = "pass" => Current.sql.rows = "right" /\ ~Aborted
              /\ bucket = "model" =>
                  /\ struck = {} /\ ~thrownAway /\ world.gold
                  /\ Current.validation # "none" => Current.validation # world.flag /\ ~world.hidden
              /\ final \notin Excluded /\ struck # {} => final \in {"pass", "guardrail_false_rejection", "timeout"}
              /\ final = "guardrail_false_rejection" => thrownAway
              /\ struck = {} => (final \notin Excluded <=> world.gold)
              /\ final # "declined"
<1> DEFINE own == OwnOutcome
<1> DEFINE thrownAway == \E i \in DOMAIN tries : IsGuardrailRejected(tries[i]) /\ tries[i].sql.rows = "right"
<1> DEFINE bucket == IF IsSystems(final) THEN "system" ELSE BucketOf(final)
<1>1. /\ CaseTypes /\ AttemptsAreTrue /\ StatusTells /\ at \notin Running
    BY DEF CaseIInv, Running
<1>2. /\ thrownAway => Verdicts \cap {"false_rejection", "error", "error_infra"} # {}
      /\ "false_rejection" \in Verdicts => thrownAway
      /\ "error" \in Verdicts \/ "error_infra" \in Verdicts <=> CheckBroke
      /\ CheckBroke => struck # {}
    BY <1>1, VerdictsTell DEF CaseTypes
<1> HIDE DEF thrownAway
<1>3. CASE status \in Failures
    <2>1. /\ BucketOf(own) = "model" /\ own \notin Excluded \cup {"pass", "guardrail_false_rejection", "timeout"}
          /\ status # "answered" /\ world.gold /\ tries # <<>>
        BY <1>1, <1>3, OwnOutcomes DEF StatusTells
    <2>2. struck = {} \/ CheckBroke
        BY <1>1, <1>3 DEF StatusTells
    <2>3. \/ final = "guardrail_false_rejection" /\ thrownAway
          \/ final \in {"infra_error", "harness_error"} /\ struck # {}
          \/ final = own /\ struck = {} /\ ~thrownAway
        BY <1>2, <2>1, <2>2 DEF CheckedOutcome
    <2>4. CASE final = "guardrail_false_rejection" /\ thrownAway
        <3>1. bucket = "system" /\ final \notin Excluded
            BY <2>4 DEF BucketOf, Excluded
        <3> QED
            BY <2>1, <2>4, <3>1 DEF thrownAway
    <2>5. CASE final \in {"infra_error", "harness_error"} /\ struck # {}
        <3>1. bucket # "model" /\ final \in Excluded
            BY <2>5 DEF BucketOf, Excluded
        <3> QED
            BY <2>5, <3>1
    <2>6. CASE final = own /\ struck = {} /\ ~thrownAway
        <3>1. ASSUME ~IsSystems(own), Current.validation # "none"
              PROVE  Current.validation # world.flag /\ ~world.hidden
            <4>1. world.flag \in Rules \cup {SafetyCode, "none"} /\ world.flag # "ok"
                BY <1>1, CaseRunAssumption DEF CaseTypes, Worlds, SafetyCode
            <4>2. CASE status \in {"clarify", "abstain", "llm_error"}
                <5>1. Current.sql = NoSql /\ AttemptIsTrue(Current, struck # {})
                    BY <1>1, <2>1, <4>2, CurrentIsAttempt DEF StatusTells, AttemptsAreTrue, CaseTypes, Current
                <5> QED
                    BY <3>1, <5>1 DEF AttemptIsTrue
            <4>3. CASE status \in {"result_mismatch", "retrieval_miss"}
                <5>1. own = "wrong_result" /\ Current.validation = "ok"
                    BY <1>1, <4>3 DEF OwnOutcome, StatusTells
                <5> QED
                    BY <3>1, <4>1, <5>1 DEF IsSystems, RetrievalSensitive
            <4>4. CASE status = "execution_error"
                <5>1. own = "execution_error" /\ Current.validation = "ok"
                    BY <1>1, <4>4 DEF OwnOutcome, StatusTells
                <5> QED
                    BY <3>1, <4>1, <5>1 DEF IsSystems, RetrievalSensitive
            <4>5. CASE status = "validation_error"
                <5>1. own \in Rejections
                    BY <4>5 DEF OwnOutcome, Rejections
                <5> QED
                    BY <3>1, <5>1 DEF IsSystems, RetrievalSensitive
            <4> QED
                BY <1>3, <2>1, <4>2, <4>3, <4>4, <4>5 DEF Failures
        <3>2. own # "declined"
            BY <1>3, <2>1 DEF OwnOutcome, Failures
        <3> QED
            BY <2>1, <2>6, <3>1, <3>2 DEF thrownAway
    <2> QED
        BY <2>3, <2>4, <2>5, <2>6
<1>4. CASE status = "pass"
    <2>1. own = "pass" /\ Current.sql.rows = "right" /\ ~Aborted /\ world.gold
        BY <1>1, <1>4, OwnOutcomes DEF StatusTells
    <2>2. final = "pass" /\ bucket # "model" /\ final \notin Excluded
        BY <2>1 DEF CheckedOutcome, BucketOf, Excluded
    <2> QED
        BY <2>1, <2>2
<1>5. CASE status = "expected_sql_error"
    <2>1. own = "expected_sql_error" /\ ~world.gold
        BY <1>1, <1>5, OwnOutcomes DEF StatusTells
    <2>2. final = "expected_sql_error" /\ bucket # "model" /\ final \in Excluded
        BY <2>1 DEF CheckedOutcome, BucketOf, Excluded
    <2> QED
        BY <2>1, <2>2
<1>6. CASE status \in Breakdowns
    <2>1. struck # {} /\ own \in {"timeout", "infra_error", "harness_error", "llm_outage"}
        BY <1>1, <1>6, OwnOutcomes DEF StatusTells
    <2>2. final = own /\ bucket # "model" /\ (final = "timeout" \/ final \in Excluded)
        BY <2>1 DEF CheckedOutcome, BucketOf, Excluded
    <2> QED
        BY <2>1, <2>2
<1> QED
    BY <1>1, <1>3, <1>4, <1>5, <1>6 DEF CaseTypes, StatusTells

\* Each cell of the confusion matrix is true of its attempt.
LEMMA CellsAreJudged ==
    ASSUME CaseIInv, Answerable, at = "check", Unchecked = {}, NEW i \in DOMAIN tries
    PROVE  /\ Cell(i) \in {"tp", "fn"} => tries[i].sql.rows # "right"
           /\ Cell(i) \in {"fp", "tn"} => tries[i].sql.rows = "right"
           /\ Cell(i) = "unknown" => struck # {}
<1>1. /\ CaseTypes /\ AttemptsAreTrue /\ StatusTells /\ LastIsOpen /\ at \notin Running /\ tries \in Seq(Attempts)
    BY DEF CaseIInv, Running, CaseTypes
<1>2. tries[i] \in Attempts /\ AttemptIsTrue(tries[i], struck # {}) /\ tries # <<>>
    BY <1>1 DEF AttemptsAreTrue
<1>3. CASE status \in {"expected_sql_error", "gold_infra", "evaluation_error"} \/ tries[i].validation = "none"
    BY <1>3 DEF Cell
<1>4. CASE tries[i].validation = SafetyCode
    BY <1>4 DEF Cell, RejectedCell, SafetyCode
<1>5. CASE status \notin {"expected_sql_error", "gold_infra", "evaluation_error"} /\ tries[i].validation \in Rules
    <2>1. tries[i].check \in Checks \ {"none"}
        BY <1>2, <1>5 DEF Unchecked, IsGuardrailRejected, Attempts
    <2>2. /\ tries[i].validation # "none" /\ tries[i].validation # SafetyCode
        BY <1>5, CaseRunAssumption
    <2>3. Cell(i) = RejectedCell(tries[i])
        BY <1>5, <2>2 DEF Cell
    <2> QED
        BY <1>2, <2>1, <2>2, <2>3 DEF RejectedCell, AttemptIsTrue, CheckIsTrue, Checks
<1>6. CASE status \notin {"expected_sql_error", "gold_infra", "evaluation_error"} /\ tries[i].validation = "ok"
    <2>1. Cell(i) = AcceptedCell(i)
        BY <1>6, CaseRunAssumption DEF Cell, SafetyCode
    <2>2. CASE tries[i].execution = "failed"
        <3>1. Cell(i) = "fn"
            BY <2>1, <2>2 DEF AcceptedCell
        <3> QED
            BY <1>2, <2>2, <3>1 DEF AttemptIsTrue
    <2>3. CASE tries[i].execution # "failed"
        <3>1. i = Len(tries) /\ tries[i] = Current
            BY <1>1, <1>6, <2>3 DEF LastIsOpen, Open, Current
        <3>2. /\ status \in {"pass", "result_mismatch", "retrieval_miss"} \/ struck # {}
              /\ status \in {"pass", "result_mismatch", "retrieval_miss"} => (Current.sql.rows = "right" <=> status = "pass")
            BY <1>1, <1>2, <1>6, <2>3, <3>1 DEF StatusTells, Open
        <3>3. /\ status = "pass" => Cell(i) = "tn"
              /\ status \in {"result_mismatch", "retrieval_miss"} => Cell(i) = "fn"
              /\ status \notin {"pass", "result_mismatch", "retrieval_miss"} => Cell(i) = "unknown"
            BY <2>1, <2>3, <3>1 DEF AcceptedCell
        <3> QED
            BY <3>1, <3>2, <3>3
    <2> QED
        BY <2>2, <2>3
<1> QED
    BY <1>2, <1>3, <1>4, <1>5, <1>6 DEF Attempts

\* The verdict on a case without a gold.
LEMMA BehaviorIsJudged ==
    ASSUME CaseIInv, ~Answerable, at = "check"
    PROVE  /\ BehaviorOutcome \notin {"pass", "guardrail_false_rejection"}
           /\ BehaviorOutcome = "declined" => ~ProducedSql /\ status = world.behavior
<1>1. status \in {"none", "pass", "expected_sql_error"} \cup Failures \cup Breakdowns
    BY DEF CaseIInv, CaseTypes
<1>2. status \notin {"none", "pass", "expected_sql_error"}
    BY DEF CaseIInv, StatusTells, Running
<1>3. CASE status \in {"clarify", "abstain"}
    BY <1>3 DEF BehaviorOutcome
<1>4. CASE status \in {"answered", "validation_error", "execution_error", "llm_error", "aborted"}
    BY <1>4 DEF BehaviorOutcome
<1>5. CASE status \in {"result_mismatch", "retrieval_miss", "gold_infra", "llm_outage", "infra_error", "evaluation_error"}
    <2>1. BehaviorOutcome = status
        BY <1>5 DEF BehaviorOutcome
    <2> QED
        BY <1>5, <2>1
<1> QED
    BY <1>1, <1>2, <1>3, <1>4, <1>5 DEF Failures, Breakdowns

LEMMA ClassifySound ==
    ASSUME CaseIInv, Classify
    PROVE  CaseIInv'
<1>1. /\ at = "check" /\ at' = "done" /\ (Answerable => Unchecked = {})
      /\ UNCHANGED <<world, tries, status, struck, checked>>
    BY DEF Classify
<1>2. CaseTypes' /\ AttemptsAreTrue' /\ LastIsOpen' /\ StatusTells'
    BY <1>1 DEF CaseIInv, CaseTypes, AttemptsAreTrue, LastIsOpen, StatusTells, Running, Current, Answerable, Aborted,
                CheckBroke
<1> DEFINE final == IF Answerable THEN CheckedOutcome(OwnOutcome) ELSE BehaviorOutcome
           bucket == IF Answerable /\ IsSystems(final) THEN "system" ELSE BucketOf(final)
           counts == Answerable /\ final \notin Excluded
           thrownAway == \E i \in DOMAIN tries : IsGuardrailRejected(tries[i]) /\ tries[i].sql.rows = "right"
<1>3. judged' = <<[outcome |-> final, bucket |-> bucket, counted |-> counts]>>
    BY DEF Classify
<1>4. /\ judged' # <<>> /\ judged'[1].outcome = final /\ judged'[1].bucket = bucket /\ judged'[1].counted = counts
    BY <1>3
<1>5. RunningTells'
    BY <1>1, <1>4 DEF RunningTells, Running
<1>6. /\ final = "pass" => Current.sql.rows = "right" /\ ~Aborted
      /\ Answerable /\ bucket = "model" =>
             /\ struck = {} /\ ~thrownAway /\ world.gold
             /\ Current.validation # "none" => Current.validation # world.flag /\ ~world.hidden
      /\ Answerable /\ counts /\ struck # {} => final \in {"pass", "guardrail_false_rejection", "timeout"}
      /\ final = "guardrail_false_rejection" => thrownAway
      /\ Answerable /\ struck = {} => (counts <=> world.gold)
      /\ ~Answerable => ~counts
      /\ final = "declined" => ~ProducedSql /\ status = world.behavior
    <2>1. CASE Answerable
        <3>1. final = CheckedOutcome(OwnOutcome)
            BY <2>1
        <3> HIDE DEF final
        <3> QED
            BY <1>1, <2>1, <3>1, AnswerIsJudged
    <2>2. CASE ~Answerable
        BY <1>1, <2>2, BehaviorIsJudged
    <2> QED
        BY <2>1, <2>2
<1> HIDE DEF final, bucket, counts
<1>7. /\ Answerable' = Answerable /\ Current' = Current /\ Aborted' = Aborted /\ ProducedSql' = ProducedSql
    BY <1>1 DEF Answerable, Current, Aborted, ProducedSql
<1>8. VerdictIsFair'
    BY <1>1, <1>4, <1>6, <1>7 DEF VerdictIsFair
<1>9. CellsAreTrue'
    <2> SUFFICES ASSUME Answerable, NEW i \in DOMAIN tries
                 PROVE  /\ Cell(i)' \in {"tp", "fn"} => tries[i].sql.rows # "right"
                        /\ Cell(i)' \in {"fp", "tn"} => tries[i].sql.rows = "right"
                        /\ Cell(i)' = "unknown" => struck # {}
        BY <1>1, <1>7 DEF CellsAreTrue
    <2>1. Cell(i)' = Cell(i)
        BY <1>1 DEF Cell, RejectedCell, AcceptedCell
    <2> QED
        BY <1>1, <2>1, CellsAreJudged
<1> QED
    BY <1>2, <1>5, <1>8, <1>9 DEF CaseIInv, JudgedFairly

\* What holds of a repetition at every step: each check and each execution is true of its SQL or
\* something broke, only the last attempt can be open, and the status tells what happened.
THEOREM CaseInvariance == CaseRunSpec => []CaseIInv
<1>1. CaseRunInit => CaseIInv
    BY CaseInitSound
<1>2. CaseIInv /\ [CaseRunNext]_caseRunVars => CaseIInv'
    <2> SUFFICES ASSUME CaseIInv, [CaseRunNext]_caseRunVars
                 PROVE  CaseIInv'
        OBVIOUS
    <2>1. CASE UNCHANGED caseRunVars
        BY <2>1 DEF caseRunVars, CaseIInv, CaseTypes, AttemptsAreTrue, LastIsOpen, RunningTells, StatusTells, CheckBroke,
                    JudgedFairly, VerdictIsFair, CellsAreTrue, Cell, RejectedCell, AcceptedCell, Answerable, Current,
                    Aborted, ProducedSql
    <2>2. CASE DeadlineStrikes \/ RunGolds \/ Generate
        BY <2>2, DeadlineSound, RunGoldsSound, GenerateSound
    <2>3. CASE Decide \/ CompletionFails
        BY <2>3, WithoutSqlSound
    <2>4. CASE Execute \/ Score \/ CheckRejection \/ Classify
        BY <2>4, ExecuteSound, ScoreSound, CheckRejectionSound, ClassifySound
    <2> QED
        BY <2>1, <2>2, <2>3, <2>4 DEF CaseRunNext
<1> QED
    BY <1>1, <1>2, PTL DEF CaseRunSpec

\* Neither the model nor a validator is blamed for what another did: the repetition's outcome and
\* bucket, and each cell of the guardrails' confusion matrix.
THEOREM JudgementIsFair == CaseRunSpec => []JudgedFairly
<1>1. CaseIInv => JudgedFairly
    BY DEF CaseIInv
<1> QED
    BY <1>1, CaseInvariance, PTL

-----------------------------------------------------------------------------
(* Summaries of cases.                                                       *)

\* The most frequent item of some, and how often one occurs among them.
At(items, x) == {i \in DOMAIN items : items[i] = x}
Leads(order, items, x) ==
    \A y \in Range(items) \ {x} :
        \/ Cardinality(At(items, x)) > Cardinality(At(items, y))
        \/ Cardinality(At(items, x)) = Cardinality(At(items, y)) /\ Place(order, x) < Place(order, y)

LEMMA SmallestNumber ==
    ASSUME NEW S \in SUBSET Nat, S # {}
    PROVE  \E j \in S : \A k \in S : j <= k
<1>1. \E j \in S : \A k \in S : ~(<<k, j>> \in OpToRel(<, Nat))
    BY NatLessThanWellFounded, WFMin
<1>2. \A j, k \in S : ~(<<k, j>> \in OpToRel(<, Nat)) => j <= k
    BY DEF OpToRel
<1> QED
    BY <1>1, <1>2

LEMMA PlaceTypes ==
    ASSUME NEW order, NEW x \in Range(order)
    PROVE  Place(order, x) \in DOMAIN order /\ order[Place(order, x)] = x
    BY DEF Place, Range

LEMMA OrderTypes ==
    /\ DOMAIN OutcomeOrder = 1 .. 19 /\ DOMAIN BucketOrder = 1 .. 6
    /\ BucketOrder[1] = "system" /\ BucketOrder[3] = "model"
    /\ \A n \in 1 .. 6 : (BucketOrder[n] = "system" => n = 1) /\ (BucketOrder[n] = "model" => n = 3)
    BY DEF OutcomeOrder, BucketOrder

\* Of finitely many items one leads, and only one.
LEMMA OneLeads ==
    ASSUME NEW order, DOMAIN order \in SUBSET Nat,
           NEW items, IsFiniteSet(DOMAIN items), DOMAIN items # {}, Range(items) \subseteq Range(order)
    PROVE  /\ PickMajority(order, items) \in Range(items)
           /\ Leads(order, items, PickMajority(order, items))
           /\ \A x \in Range(items) : Leads(order, items, x) => x = PickMajority(order, items)
<1> DEFINE Times(x) == Cardinality(At(items, x))
           Losses == {Cardinality(DOMAIN items) - Times(x) : x \in Range(items)}
<1>1. \A x : Times(x) \in Nat /\ Times(x) <= Cardinality(DOMAIN items) /\ IsFiniteSet(At(items, x))
    BY FS_Subset, FS_CardinalityType DEF At
<1>2. Cardinality(DOMAIN items) \in Nat
    BY FS_CardinalityType
<1>3. Range(items) # {}
    BY DEF Range
<1> HIDE DEF Times
<1>4. Losses \in SUBSET Nat /\ Losses # {}
    BY <1>1, <1>2, <1>3
<1>5. PICK most \in Range(items) : \A y \in Range(items) : Times(y) <= Times(most)
    <2>1. PICK least \in Losses : \A k \in Losses : least <= k
        BY <1>4, SmallestNumber
    <2>2. PICK most \in Range(items) : least = Cardinality(DOMAIN items) - Times(most)
        BY <2>1
    <2>3. \A y \in Range(items) : Cardinality(DOMAIN items) - Times(most) <= Cardinality(DOMAIN items) - Times(y)
        BY <2>1, <2>2
    <2> QED
        BY <1>1, <1>2, <2>3
<1> DEFINE Tied == {x \in Range(items) : Times(x) = Times(most)}
           Places == {Place(order, x) : x \in Tied}
<1>6. \A x \in Range(items) : Place(order, x) \in Nat
    BY PlaceTypes
<1>7. PICK first \in Tied : \A x \in Tied : Place(order, first) <= Place(order, x)
    <2>1. Places \in SUBSET Nat /\ Places # {}
        BY <1>5, <1>6
    <2>2. PICK p \in Places : \A k \in Places : p <= k
        BY <2>1, SmallestNumber
    <2> QED
        BY <2>2
<1>8. \A x, y \in Range(items) : Place(order, x) = Place(order, y) => x = y
    BY PlaceTypes
<1>9. \A x, y \in Range(items) : Leads(order, items, x) /\ Leads(order, items, y) => x = y
    <2> SUFFICES ASSUME NEW x \in Range(items), NEW y \in Range(items), x # y,
                        Leads(order, items, x), Leads(order, items, y)
                 PROVE  FALSE
        OBVIOUS
    <2>1. Times(x) > Times(y) \/ (Times(x) = Times(y) /\ Place(order, x) < Place(order, y))
        BY DEF Leads, Times
    <2>2. Times(y) > Times(x) \/ (Times(y) = Times(x) /\ Place(order, y) < Place(order, x))
        BY DEF Leads, Times
    <2> QED
        BY <1>1, <1>6, <2>1, <2>2
<1>10. Leads(order, items, first)
    <2> SUFFICES ASSUME NEW y \in Range(items) \ {first}
                 PROVE  Times(first) > Times(y) \/ (Times(first) = Times(y) /\ Place(order, first) < Place(order, y))
        BY DEF Leads, Times
    <2>1. Times(first) = Times(most) /\ first \in Range(items)
        BY <1>7
    <2>2. CASE Times(y) = Times(most)
        <3>1. Place(order, first) <= Place(order, y) /\ Place(order, first) # Place(order, y)
            BY <1>7, <1>8, <2>1, <2>2
        <3> QED
            BY <1>6, <2>1, <2>2, <3>1
    <2>3. CASE Times(y) # Times(most)
        BY <1>1, <1>5, <2>1, <2>3
    <2> QED
        BY <2>2, <2>3
<1>11. PickMajority(order, items) = CHOOSE x \in Range(items) : Leads(order, items, x)
    BY DEF PickMajority, Leads, At
<1> QED
    BY <1>7, <1>9, <1>10, <1>11

\* Of the repetitions of a list, those another takes elsewhere.
Origin(p, those) == {i \in DOMAIN p : p[i] \in those}
Rearranges(p, D) == IsFiniteSet(D) /\ p \in [D -> D] /\ \A i, j \in D : p[i] = p[j] => i = j

LEMMA CountMoved ==
    ASSUME NEW D, NEW p, Rearranges(p, D), NEW those \in SUBSET D
    PROVE  /\ Origin(p, those) \in SUBSET D
           /\ \A j \in those : \E i \in Origin(p, those) : p[i] = j
           /\ Cardinality(Origin(p, those)) = Cardinality(those)
           /\ Origin(p, those) = {} <=> those = {}
<1> DEFINE T == Origin(p, those)
           moved == [i \in T |-> p[i]]
<1>1. p \in Injection(D, D) /\ IsFiniteSet(D)
    BY DEF Rearranges, Injection, IsInjective
<1>2. p \in Surjection(D, D)
    BY <1>1, FS_Injection
<1>3. \A j \in D : \E i \in D : p[i] = j
    BY <1>2 DEF Surjection
<1>4. T \in SUBSET D /\ IsFiniteSet(T)
    BY <1>1, FS_Subset DEF Origin, Rearranges
<1>5. \A j \in those : \E i \in T : p[i] = j
    BY <1>3 DEF Origin, Rearranges
<1>6. moved \in Bijection(T, those)
    <2>1. moved \in [T -> those]
        BY DEF Origin
    <2>2. \A i, j \in T : moved[i] = moved[j] => i = j
        BY <1>4 DEF Rearranges
    <2>3. \A j \in those : \E i \in T : moved[i] = j
        BY <1>5
    <2> QED
        BY <2>1, <2>2, <2>3 DEF Bijection, Injection, Surjection, IsInjective
<1>7. Cardinality(those) = Cardinality(T)
    BY <1>4, <1>6, FS_Bijection DEF ExistsBijection
<1>8. T = {} <=> those = {}
    BY <1>5 DEF Origin
<1> QED
    BY <1>4, <1>5, <1>7, <1>8

\* What is most frequent does not depend on where the items are.
LEMMA MajorityMoved ==
    ASSUME NEW D, NEW p, Rearranges(p, D), NEW order, DOMAIN order \in SUBSET Nat,
           NEW items, DOMAIN items \in SUBSET D, DOMAIN items # {}, Range(items) \subseteq Range(order),
           NEW moved, DOMAIN moved = Origin(p, DOMAIN items), \A i \in DOMAIN moved : moved[i] = items[p[i]]
    PROVE  PickMajority(order, moved) = PickMajority(order, items)
<1>1. /\ IsFiniteSet(D) /\ DOMAIN moved \in SUBSET D /\ DOMAIN moved # {}
      /\ \A j \in DOMAIN items : \E i \in DOMAIN moved : p[i] = j
    BY CountMoved DEF Rearranges
<1>2. IsFiniteSet(DOMAIN items) /\ IsFiniteSet(DOMAIN moved)
    BY <1>1, FS_Subset
<1>3. \A i \in DOMAIN moved : p[i] \in DOMAIN items
    BY DEF Origin
<1>4. Range(moved) = Range(items)
    <2>1. \A i \in DOMAIN moved : moved[i] \in Range(items)
        BY <1>3 DEF Range
    <2>2. \A j \in DOMAIN items : items[j] \in Range(moved)
        BY <1>1 DEF Range
    <2> QED
        BY <2>1, <2>2 DEF Range
<1>5. \A x : Cardinality(At(moved, x)) = Cardinality(At(items, x))
    <2> TAKE x
    <2>1. At(items, x) \in SUBSET D
        BY DEF At
    <2>2. At(moved, x) = Origin(p, At(items, x))
        BY <1>3 DEF At, Origin
    <2> QED
        BY <2>1, <2>2, CountMoved
<1>6. \A x : Leads(order, moved, x) <=> Leads(order, items, x)
    BY <1>4, <1>5 DEF Leads
<1>7. PickMajority(order, moved) \in Range(items) /\ Leads(order, items, PickMajority(order, moved))
    BY <1>1, <1>2, <1>4, <1>6, OneLeads
<1> QED
    BY <1>2, <1>7, OneLeads

-----------------------------------------------------------------------------
LEMMA ListTypes ==
    ASSUME NEW list \in Seq(Judged), list # <<>>
    PROVE  /\ IsFiniteSet(DOMAIN list) /\ DOMAIN list # {}
           /\ \A i \in DOMAIN list :
                /\ list[i].outcome \in Range(OutcomeOrder) /\ list[i].bucket \in Range(BucketOrder)
                /\ list[i].counted => list[i].outcome \notin Excluded \cup Behaviors
                /\ list[i].bucket = "system" => list[i].counted
           /\ CountedReps(list) \in SUBSET DOMAIN list /\ ScoredReps(list) \in SUBSET DOMAIN list
           /\ \A o : With(list, o) \in SUBSET DOMAIN list
<1>1. DOMAIN list = 1 .. Len(list) /\ Len(list) \in Nat /\ Len(list) # 0
    BY EmptySeq
<1>2. IsFiniteSet(DOMAIN list) /\ DOMAIN list # {}
    <2>1. 1 \in 1 .. Len(list)
        BY <1>1
    <2>2. IsFiniteSet(1 .. Len(list))
        BY <1>1, FS_Interval
    <2> QED
        BY <1>1, <2>1, <2>2
<1>3. \A i \in DOMAIN list : list[i] \in Judged
    BY <1>1, ElementOfSeq
<1> QED
    BY <1>2, <1>3 DEF Judged, Outcomes, CountedReps, ScoredReps, With

\* The repetitions a case's outcome is taken from: some, and of those that count all or none of an outcome.
LEMMA PoolTypes ==
    ASSUME NEW list \in Seq(Judged), list # <<>>
    PROVE  /\ PoolOf(list) \in SUBSET DOMAIN list /\ PoolOf(list) # {}
           /\ CountedReps(list) # {} =>
                PoolOf(list) = {i \in CountedReps(list) : i \in With(list, "pass") <=> MajorityPass(list)}
<1> DEFINE C == CountedReps(list)
           S == ScoredReps(list)
           P == C \cap With(list, "pass")
           H == S \cap With(list, "declined")
<1>1. IsFiniteSet(C) /\ IsFiniteSet(S) /\ C \in SUBSET DOMAIN list /\ S \in SUBSET DOMAIN list /\ DOMAIN list # {}
    BY ListTypes, FS_Subset
<1>2. C # {} => {i \in C : i \in With(list, "pass") <=> MajorityPass(list)} # {}
    <2>1. CASE MajorityPass(list)
        <3>1. Cardinality(P) \in Nat /\ Cardinality(C) \in Nat /\ 2 * Cardinality(P) > Cardinality(C)
            BY <1>1, <2>1, FS_Subset, FS_CardinalityType DEF MajorityPass, Passes
        <3> HIDE DEF P, C
        <3>2. P # {}
            <4>1. Cardinality(P) # 0
                BY <3>1
            <4>2. Cardinality({}) = 0
                BY FS_EmptySet
            <4> QED
                BY <4>1, <4>2
        <3> USE DEF P, C
        <3> QED
            BY <2>1, <3>2
    <2>2. CASE ~MajorityPass(list) /\ C # {}
        <3>1. ~(2 * Cardinality(P) > Cardinality(C))
            BY <2>2 DEF MajorityPass, Passes
        <3>2. Cardinality(C) \in Nat /\ Cardinality(C) # 0
            BY <1>1, <2>2, FS_CardinalityType, FS_EmptySet
        <3> HIDE DEF P, C
        <3>3. P # C
            BY <3>1, <3>2
        <3> USE DEF P, C
        <3> QED
            BY <2>2, <3>3
    <2> QED
        BY <2>1, <2>2
<1>3. S # {} => {i \in S : i \in With(list, "declined") <=> MajorityHandled(list)} # {}
    <2>1. CASE MajorityHandled(list)
        <3>1. Cardinality(H) \in Nat /\ Cardinality(S) \in Nat /\ 2 * Cardinality(H) > Cardinality(S)
            BY <1>1, <2>1, FS_Subset, FS_CardinalityType DEF MajorityHandled
        <3> HIDE DEF H, S
        <3>2. H # {}
            <4>1. Cardinality(H) # 0
                BY <3>1
            <4>2. Cardinality({}) = 0
                BY FS_EmptySet
            <4> QED
                BY <4>1, <4>2
        <3> USE DEF H, S
        <3> QED
            BY <2>1, <3>2
    <2>2. CASE ~MajorityHandled(list) /\ S # {}
        <3>1. ~(2 * Cardinality(H) > Cardinality(S))
            BY <2>2 DEF MajorityHandled
        <3>2. Cardinality(S) \in Nat /\ Cardinality(S) # 0
            BY <1>1, <2>2, FS_CardinalityType, FS_EmptySet
        <3> HIDE DEF H, S
        <3>3. H # S
            BY <3>1, <3>2
        <3> USE DEF H, S
        <3> QED
            BY <2>2, <3>3
    <2> QED
        BY <2>1, <2>2
<1> QED
    BY <1>1, <1>2, <1>3 DEF PoolOf

LEMMA MovedList ==
    ASSUME NEW list \in Seq(Judged), list # <<>>, NEW p, Rearranges(p, DOMAIN list),
           NEW other, other = [i \in DOMAIN list |-> list[p[i]]]
    PROVE  /\ CountedReps(other) = Origin(p, CountedReps(list))
           /\ ScoredReps(other) = Origin(p, ScoredReps(list))
           /\ \A o : With(other, o) = Origin(p, With(list, o))
           /\ DOMAIN other = Origin(p, DOMAIN list)
<1>1. DOMAIN other = DOMAIN list /\ p \in [DOMAIN list -> DOMAIN list] /\ \A i \in DOMAIN list : other[i] = list[p[i]]
    BY DEF Rearranges
<1> QED
    BY <1>1 DEF CountedReps, ScoredReps, With, Origin

LEMMA MovedVerdict ==
    ASSUME NEW list \in Seq(Judged), list # <<>>, NEW p, Rearranges(p, DOMAIN list),
           NEW other, other = [i \in DOMAIN list |-> list[p[i]]]
    PROVE  /\ Cardinality(CountedReps(other)) = Cardinality(CountedReps(list))
           /\ CountedReps(other) = {} <=> CountedReps(list) = {}
           /\ ScoredReps(other) = {} <=> ScoredReps(list) = {}
           /\ Passes(other) = Passes(list) /\ (MajorityPass(other) <=> MajorityPass(list))
           /\ MajorityHandled(other) <=> MajorityHandled(list)
<1> DEFINE D == DOMAIN list
<1>1. /\ CountedReps(other) = Origin(p, CountedReps(list))
      /\ ScoredReps(other) = Origin(p, ScoredReps(list))
      /\ \A o : With(other, o) = Origin(p, With(list, o))
    BY MovedList
<1>2. CountedReps(list) \in SUBSET D /\ ScoredReps(list) \in SUBSET D
    BY ListTypes
<1>3. /\ CountedReps(other) \cap With(other, "pass") = Origin(p, CountedReps(list) \cap With(list, "pass"))
      /\ ScoredReps(other) \cap With(other, "declined") = Origin(p, ScoredReps(list) \cap With(list, "declined"))
    BY <1>1 DEF Origin
<1>4. /\ Cardinality(CountedReps(other)) = Cardinality(CountedReps(list))
      /\ CountedReps(other) = {} <=> CountedReps(list) = {}
      /\ Cardinality(ScoredReps(other)) = Cardinality(ScoredReps(list))
      /\ ScoredReps(other) = {} <=> ScoredReps(list) = {}
    <2>1. /\ Cardinality(Origin(p, CountedReps(list))) = Cardinality(CountedReps(list))
          /\ Origin(p, CountedReps(list)) = {} <=> CountedReps(list) = {}
        BY <1>2, CountMoved
    <2>2. /\ Cardinality(Origin(p, ScoredReps(list))) = Cardinality(ScoredReps(list))
          /\ Origin(p, ScoredReps(list)) = {} <=> ScoredReps(list) = {}
        BY <1>2, CountMoved
    <2> QED
        BY ONLY <1>1, <2>1, <2>2
<1>5. Passes(other) = Passes(list)
    <2>1. CountedReps(list) \cap With(list, "pass") \in SUBSET D
        BY <1>2
    <2>2. Cardinality(Origin(p, CountedReps(list) \cap With(list, "pass"))) = Cardinality(CountedReps(list) \cap With(list, "pass"))
        BY <2>1, CountMoved
    <2> QED
        BY ONLY <1>3, <2>2 DEF Passes
<1>6. Cardinality(ScoredReps(other) \cap With(other, "declined")) = Cardinality(ScoredReps(list) \cap With(list, "declined"))
    <2>1. ScoredReps(list) \cap With(list, "declined") \in SUBSET D
        BY <1>2
    <2>2. Cardinality(Origin(p, ScoredReps(list) \cap With(list, "declined")))
             = Cardinality(ScoredReps(list) \cap With(list, "declined"))
        BY <2>1, CountMoved
    <2> QED
        BY ONLY <1>3, <2>2
<1> QED
    BY <1>4, <1>5, <1>6 DEF MajorityPass, MajorityHandled

LEMMA MovedPool ==
    ASSUME NEW list \in Seq(Judged), list # <<>>, NEW p, Rearranges(p, DOMAIN list),
           NEW other, other = [i \in DOMAIN list |-> list[p[i]]]
    PROVE  PoolOf(other) = Origin(p, PoolOf(list))
<1>1. /\ CountedReps(other) = Origin(p, CountedReps(list))
      /\ ScoredReps(other) = Origin(p, ScoredReps(list))
      /\ \A o : With(other, o) = Origin(p, With(list, o))
      /\ DOMAIN other = Origin(p, DOMAIN list)
    BY MovedList
<1>2. /\ CountedReps(other) = {} <=> CountedReps(list) = {}
      /\ ScoredReps(other) = {} <=> ScoredReps(list) = {}
      /\ MajorityPass(other) <=> MajorityPass(list)
      /\ MajorityHandled(other) <=> MajorityHandled(list)
    BY MovedVerdict
<1>3. {i \in CountedReps(other) : i \in With(other, "pass") <=> MajorityPass(other)}
         = Origin(p, {i \in CountedReps(list) : i \in With(list, "pass") <=> MajorityPass(list)})
    <2>1. CountedReps(other) = Origin(p, CountedReps(list)) /\ With(other, "pass") = Origin(p, With(list, "pass"))
        BY <1>1
    <2>2. \A i : i \in CountedReps(other) <=> i \in DOMAIN p /\ p[i] \in CountedReps(list)
        BY <2>1 DEF Origin
    <2>3. \A i \in DOMAIN p : i \in With(other, "pass") <=> p[i] \in With(list, "pass")
        BY <2>1 DEF Origin
    <2> QED
        BY ONLY <1>2, <2>2, <2>3 DEF Origin
<1>4. {i \in ScoredReps(other) : i \in With(other, "declined") <=> MajorityHandled(other)}
         = Origin(p, {i \in ScoredReps(list) : i \in With(list, "declined") <=> MajorityHandled(list)})
    <2>1. ScoredReps(other) = Origin(p, ScoredReps(list)) /\ With(other, "declined") = Origin(p, With(list, "declined"))
        BY <1>1
    <2>2. \A i : i \in ScoredReps(other) <=> i \in DOMAIN p /\ p[i] \in ScoredReps(list)
        BY <2>1 DEF Origin
    <2>3. \A i \in DOMAIN p : i \in With(other, "declined") <=> p[i] \in With(list, "declined")
        BY <2>1 DEF Origin
    <2> QED
        BY ONLY <1>2, <2>2, <2>3 DEF Origin
<1>5. CASE CountedReps(list) # {}
    BY <1>2, <1>3, <1>5 DEF PoolOf
<1>6. CASE CountedReps(list) = {} /\ ScoredReps(list) # {}
    BY <1>2, <1>4, <1>6 DEF PoolOf
<1>7. CASE CountedReps(list) = {} /\ ScoredReps(list) = {}
    BY <1>1, <1>2, <1>7 DEF PoolOf
<1> QED
    BY <1>5, <1>6, <1>7

\* The outcome of a case is one of its pool, and the bucket one of those with that outcome.
LEMMA LeadersAreThere ==
    ASSUME NEW list \in Seq(Judged), list # <<>>,
           NEW pool, pool = PoolOf(list), NEW main, main = MajorityOutcome(list)
    PROVE  /\ \E i \in pool : list[i].outcome = main
           /\ pool \cap With(list, main) # {}
           /\ DOMAIN OutcomesOf(list, pool) = pool /\ Range(OutcomesOf(list, pool)) \subseteq Range(OutcomeOrder)
           /\ \A those \in SUBSET DOMAIN list :
                DOMAIN BucketsOf(list, those) = those /\ Range(BucketsOf(list, those)) \subseteq Range(BucketOrder)
<1>1. pool \in SUBSET DOMAIN list /\ pool # {} /\ IsFiniteSet(DOMAIN list)
    BY PoolTypes, ListTypes
<1>2. DOMAIN OutcomesOf(list, pool) = pool /\ \A i \in pool : OutcomesOf(list, pool)[i] = list[i].outcome
    BY DEF OutcomesOf
<1>3. Range(OutcomesOf(list, pool)) \subseteq Range(OutcomeOrder)
    <2>1. \A i \in pool : list[i].outcome \in Range(OutcomeOrder)
        BY <1>1, ListTypes
    <2> QED
        BY <1>2, <2>1 DEF Range
<1>4. main \in Range(OutcomesOf(list, pool))
    <2>1. IsFiniteSet(pool) /\ DOMAIN OutcomeOrder \in SUBSET Nat
        BY <1>1, FS_Subset, OrderTypes
    <2>2. PickMajority(OutcomeOrder, OutcomesOf(list, pool)) \in Range(OutcomesOf(list, pool))
        BY <1>1, <1>2, <1>3, <2>1, OneLeads
    <2> QED
        BY <2>2 DEF MajorityOutcome
<1>5. \E i \in pool : list[i].outcome = main
    BY <1>2, <1>4 DEF Range
<1>6. ASSUME NEW those \in SUBSET DOMAIN list
      PROVE  DOMAIN BucketsOf(list, those) = those /\ Range(BucketsOf(list, those)) \subseteq Range(BucketOrder)
    <2>1. \A i \in those : list[i].bucket \in Range(BucketOrder)
        BY ListTypes
    <2>2. DOMAIN BucketsOf(list, those) = those /\ \A i \in those : BucketsOf(list, those)[i] = list[i].bucket
        BY DEF BucketsOf
    <2> QED
        BY <2>1, <2>2 DEF Range
<1> QED
    BY <1>1, <1>2, <1>3, <1>5, <1>6 DEF With

\* A summary does not depend on the order of the repetitions.
LEMMA OrderIsIrrelevant ==
    ASSUME NEW list \in Seq(Judged), list # <<>>, NEW p, Rearranges(p, DOMAIN list),
           NEW other, other = [i \in DOMAIN list |-> list[p[i]]]
    PROVE  Summarize(other) = Summarize(list)
<1> DEFINE pool == PoolOf(list)
           main == MajorityOutcome(list)
           agreeing == pool \cap With(list, main)
<1>1. /\ PoolOf(other) = Origin(p, pool) /\ With(other, main) = Origin(p, With(list, main))
      /\ \A i \in DOMAIN list : other[i] = list[p[i]]
      /\ DOMAIN p = DOMAIN list
    <2>1. PoolOf(other) = Origin(p, pool)
        BY MovedPool
    <2>2. \A o : With(other, o) = Origin(p, With(list, o))
        BY MovedList
    <2>3. DOMAIN p = DOMAIN list /\ \A i \in DOMAIN list : other[i] = list[p[i]]
        BY DEF Rearranges
    <2> HIDE DEF pool, main
    <2> QED
        BY <2>1, <2>2, <2>3
<1>2. pool \in SUBSET DOMAIN list /\ pool # {} /\ agreeing \in SUBSET DOMAIN list /\ agreeing # {}
    BY PoolTypes, LeadersAreThere
<1>3. MajorityOutcome(other) = main
    <2> DEFINE items == OutcomesOf(list, pool)
               moved == OutcomesOf(other, Origin(p, pool))
    <2>1. DOMAIN items = pool /\ Range(items) \subseteq Range(OutcomeOrder) /\ DOMAIN OutcomeOrder \in SUBSET Nat
        BY LeadersAreThere, OrderTypes
    <2>2. DOMAIN moved = Origin(p, pool)
        BY DEF OutcomesOf
    <2>3. \A i \in Origin(p, pool) : moved[i] = items[p[i]]
        BY <1>1 DEF OutcomesOf, Origin
    <2> HIDE DEF items, moved, pool
    <2>4. PickMajority(OutcomeOrder, moved) = PickMajority(OutcomeOrder, items)
        BY <1>2, <2>1, <2>2, <2>3, MajorityMoved
    <2> USE DEF items, moved
    <2> QED
        BY <1>1, <2>4 DEF MajorityOutcome, pool
<1>4. PoolOf(other) \cap With(other, main) = Origin(p, agreeing)
    BY <1>1 DEF Origin
<1>5. MajorityBucket(other, Origin(p, agreeing)) = MajorityBucket(list, agreeing)
    <2> DEFINE items == BucketsOf(list, agreeing)
               moved == BucketsOf(other, Origin(p, agreeing))
    <2> HIDE DEF agreeing
    <2>1. DOMAIN items = agreeing /\ Range(items) \subseteq Range(BucketOrder) /\ DOMAIN BucketOrder \in SUBSET Nat
        <3>1. DOMAIN items = agreeing /\ Range(items) \subseteq Range(BucketOrder)
            BY <1>2, LeadersAreThere
        <3> QED
            BY <3>1, OrderTypes
    <2>2. DOMAIN moved = Origin(p, agreeing)
        BY DEF BucketsOf
    <2>3. \A i \in Origin(p, agreeing) : moved[i] = items[p[i]]
        BY <1>1 DEF BucketsOf, Origin
    <2> HIDE DEF items, moved
    <2>4. PickMajority(BucketOrder, moved) = PickMajority(BucketOrder, items)
        BY <1>2, <2>1, <2>2, <2>3, MajorityMoved
    <2> USE DEF items, moved
    <2> QED
        BY <2>4 DEF MajorityBucket
<1>6. /\ Cardinality(CountedReps(other)) = Cardinality(CountedReps(list)) /\ Passes(other) = Passes(list)
      /\ HasMajority(other) <=> HasMajority(list)
    <2>1. /\ Cardinality(CountedReps(other)) = Cardinality(CountedReps(list)) /\ Passes(other) = Passes(list)
          /\ CountedReps(other) = {} <=> CountedReps(list) = {}
          /\ MajorityPass(other) <=> MajorityPass(list)
        BY MovedVerdict
    <2> QED
        BY ONLY <2>1 DEF HasMajority
<1>7. HasMajority(other) = HasMajority(list)
    BY <1>6 DEF HasMajority, MajorityPass
<1> QED
    BY <1>3, <1>4, <1>5, <1>6, <1>7 DEF Summarize

\* A case with repetitions that count is a pass exactly when most of them are.
LEMMA VerdictNamesFailure ==
    ASSUME NEW list \in Seq(Judged), list # <<>>, CountedReps(list) # {}
    PROVE  /\ HasMajority(list) <=> MajorityOutcome(list) = "pass"
           /\ HasMajority(list) <=> Passes(list) > Cardinality(CountedReps(list)) - Passes(list)
           /\ MajorityOutcome(list) \notin Excluded \cup Behaviors
<1> DEFINE main == MajorityOutcome(list)
<1>1. PICK i \in PoolOf(list) : list[i].outcome = main
    BY LeadersAreThere
<1>2. i \in CountedReps(list) /\ (i \in With(list, "pass") <=> MajorityPass(list))
    BY <1>1, PoolTypes
<1>3. i \in DOMAIN list /\ list[i].counted
    BY <1>2 DEF CountedReps
<1>4. main = "pass" <=> MajorityPass(list)
    BY <1>1, <1>2, <1>3 DEF With
<1>5. main \notin Excluded \cup Behaviors
    BY <1>1, <1>3, ListTypes
<1>6. Cardinality(CountedReps(list)) \in Nat /\ Passes(list) \in Nat
    <2>1. IsFiniteSet(CountedReps(list))
        BY ListTypes, FS_Subset
    <2> QED
        BY <2>1, FS_Subset, FS_CardinalityType DEF Passes
<1> QED
    BY <1>4, <1>5, <1>6 DEF HasMajority, MajorityPass

\* A case's bucket is that of a repetition with its outcome, and the model's only when more of them are.
LEMMA BucketIsFair ==
    ASSUME NEW list \in Seq(Judged), list # <<>>,
           NEW main, main = MajorityOutcome(list), NEW agreeing, agreeing = PoolOf(list) \cap With(list, main),
           NEW bucket, bucket = MajorityBucket(list, agreeing)
    PROVE  /\ \E i \in DOMAIN list : list[i].outcome = main /\ list[i].bucket = bucket
           /\ bucket = "model" =>
                Cardinality({i \in DOMAIN list : list[i].outcome = main /\ list[i].bucket = "model"})
                    > Cardinality({i \in DOMAIN list : list[i].outcome = main /\ list[i].bucket = "system"})
<1> DEFINE items == BucketsOf(list, agreeing)
           Charged(b) == {i \in DOMAIN list : list[i].outcome = main /\ list[i].bucket = b}
<1>1. agreeing \in SUBSET DOMAIN list /\ agreeing # {} /\ IsFiniteSet(DOMAIN list)
    BY PoolTypes, LeadersAreThere, ListTypes
<1>2. DOMAIN items = agreeing /\ (\A i \in agreeing : items[i] = list[i].bucket) /\ Range(items) \subseteq Range(BucketOrder)
    <2>1. DOMAIN items = agreeing /\ Range(items) \subseteq Range(BucketOrder)
        BY <1>1, LeadersAreThere
    <2> QED
        BY <2>1 DEF BucketsOf
<1>3. bucket \in Range(items) /\ Leads(BucketOrder, items, bucket)
    <2>1. IsFiniteSet(agreeing) /\ DOMAIN BucketOrder \in SUBSET Nat
        BY <1>1, FS_Subset, OrderTypes
    <2> HIDE DEF items
    <2>2. PickMajority(BucketOrder, items) \in Range(items) /\ Leads(BucketOrder, items, PickMajority(BucketOrder, items))
        BY <1>1, <1>2, <2>1, OneLeads
    <2> USE DEF items
    <2> QED
        BY <2>2 DEF MajorityBucket
<1>4. \A i \in agreeing : list[i].outcome = main
    BY DEF With
<1>5. \E i \in agreeing : list[i].bucket = bucket
    BY <1>2, <1>3 DEF Range
<1>6. \A b : At(items, b) \in SUBSET Charged(b) /\ IsFiniteSet(Charged(b)) /\ IsFiniteSet(At(items, b))
    <2> TAKE b
    <2>1. At(items, b) \in SUBSET Charged(b)
        BY <1>1, <1>2, <1>4 DEF At
    <2>2. Charged(b) \in SUBSET DOMAIN list
        OBVIOUS
    <2>3. IsFiniteSet(Charged(b))
        BY <1>1, <2>2, FS_Subset
    <2> HIDE DEF Charged, items
    <2> QED
        BY <2>1, <2>3, FS_Subset
<1>7. Charged("system") \in SUBSET At(items, "system")
    <2> SUFFICES ASSUME NEW i \in Charged("system")
                 PROVE  i \in agreeing
        BY <1>2 DEF At
    <2>1. i \in CountedReps(list) /\ i \in With(list, main)
        BY ListTypes DEF CountedReps, With
    <2>2. PICK j \in agreeing : TRUE
        BY <1>1
    <2>3. j \in DOMAIN list /\ list[j].outcome = list[i].outcome
        BY <1>1, <1>4, <2>2
    <2>4. PoolOf(list) = {k \in CountedReps(list) : k \in With(list, "pass") <=> MajorityPass(list)}
        BY <2>1, PoolTypes
    <2>5. j \in With(list, "pass") <=> MajorityPass(list)
        BY <2>2, <2>4
    <2>6. i \in With(list, "pass") <=> j \in With(list, "pass")
        BY <2>1, <2>3 DEF With
    <2> QED
        BY <2>1, <2>4, <2>5, <2>6
<1>8. Place(BucketOrder, "system") < Place(BucketOrder, "model")
    <2>1. "system" \in Range(BucketOrder) /\ "model" \in Range(BucketOrder)
        BY OrderTypes DEF Range
    <2> QED
        BY <2>1, OrderTypes, PlaceTypes
<1>9. ASSUME bucket = "model"
      PROVE  Cardinality(Charged("model")) > Cardinality(Charged("system"))
    <2> HIDE DEF Charged, items
    <2>1. /\ Cardinality(At(items, "model")) <= Cardinality(Charged("model"))
          /\ Cardinality(Charged("system")) <= Cardinality(At(items, "system"))
        BY <1>6, <1>7, FS_Subset
    <2>2. /\ Cardinality(At(items, "model")) \in Nat /\ Cardinality(Charged("model")) \in Nat
          /\ Cardinality(Charged("system")) \in Nat /\ Cardinality(At(items, "system")) \in Nat
        BY <1>6, FS_CardinalityType
    <2>3. Cardinality(At(items, "model")) > Cardinality(At(items, "system"))
        <3>1. CASE "system" \in Range(items)
            <4>1. Place(BucketOrder, "system") \in Nat /\ Place(BucketOrder, "model") \in Nat
                BY <1>2, <1>3, <1>9, <3>1, PlaceTypes, OrderTypes
            <4>2. "system" \in Range(items) \ {"model"} /\ Leads(BucketOrder, items, "model")
                BY <1>3, <1>9, <3>1
            <4>3. \/ Cardinality(At(items, "model")) > Cardinality(At(items, "system"))
                  \/ Place(BucketOrder, "model") < Place(BucketOrder, "system")
                BY <4>2 DEF Leads
            <4> QED
                BY <1>8, <4>1, <4>3
        <3>2. CASE "system" \notin Range(items)
            <4>1. At(items, "system") = {} /\ At(items, "model") # {}
                BY <1>3, <1>9, <3>2 DEF At, Range
            <4>2. Cardinality(At(items, "system")) = 0 /\ Cardinality(At(items, "model")) # 0
                BY <1>6, <4>1, FS_EmptySet
            <4> QED
                BY <2>2, <4>2
        <3> QED
            BY <3>1, <3>2
    <2> QED
        BY <2>1, <2>2, <2>3
<1> QED
    BY <1>1, <1>4, <1>5, <1>9

\* Whatever repetitions a case had, its summary is fair.
THEOREM SummariesAreFair == SummarySpec => []SummaryIsFair
<1> DEFINE Inv == reps \in SomeRepetitions /\ (summary # <<>> => summary = <<Summarize(reps)>>)
<1>1. SummaryInit => Inv
    BY DEF SummaryInit
<1>2. Inv /\ [SummaryNext]_summaryVars => Inv'
    BY DEF SummaryNext, SummarizeCase, summaryVars
<1>3. Inv => SummaryIsFair
    <2> SUFFICES ASSUME Inv, summary # <<>>
                 PROVE  SummaryIsFair
        BY DEF SummaryIsFair
    <2> DEFINE main == MajorityOutcome(reps)
               agreeing == PoolOf(reps) \cap With(reps, main)
               s == Summarize(reps)
    <2>1. reps \in Seq(Judged) /\ reps # <<>> /\ summary[1] = s
        BY SummaryAssumption
    <2>2. /\ s.counted = Cardinality(CountedReps(reps)) /\ s.passes = Passes(reps) /\ s.majority = HasMajority(reps)
          /\ s.outcome = main /\ s.bucket = MajorityBucket(reps, agreeing)
        BY DEF Summarize
    <2> HIDE DEF s, agreeing, main
    <2>3. ASSUME NEW p \in {q \in [DOMAIN reps -> DOMAIN reps] : \A i, j \in DOMAIN q : q[i] = q[j] => i = j}
          PROVE  Summarize([i \in DOMAIN reps |-> reps[p[i]]]) = s
        <3>1. Rearranges(p, DOMAIN reps)
            BY <2>1, ListTypes DEF Rearranges
        <3> QED
            BY <2>1, <3>1, OrderIsIrrelevant DEF s
    <2>4. s.counted > 0 => /\ s.majority <=> s.outcome = "pass"
                           /\ s.majority <=> s.passes > s.counted - s.passes
                           /\ s.outcome \notin Excluded \cup Behaviors
        <3>1. CASE CountedReps(reps) = {}
            <4>1. ~(Cardinality(CountedReps(reps)) > 0)
                BY <3>1, FS_EmptySet
            <4> QED
                BY <2>2, <4>1
        <3>2. CASE CountedReps(reps) # {}
            BY <2>1, <2>2, <3>2, VerdictNamesFailure DEF main
        <3> QED
            BY <3>1, <3>2
    <2>5. /\ \E i \in DOMAIN reps : reps[i].outcome = s.outcome /\ reps[i].bucket = s.bucket
          /\ s.bucket = "model" =>
                Cardinality({i \in DOMAIN reps : reps[i].outcome = s.outcome /\ reps[i].bucket = "model"})
                    > Cardinality({i \in DOMAIN reps : reps[i].outcome = s.outcome /\ reps[i].bucket = "system"})
        <3> DEFINE bucket == MajorityBucket(reps, agreeing)
        <3>1. agreeing = PoolOf(reps) \cap With(reps, main) /\ main = MajorityOutcome(reps)
            BY DEF agreeing, main
        <3> HIDE DEF bucket
        <3>2. bucket = MajorityBucket(reps, agreeing)
            BY DEF bucket
        <3>3. /\ \E i \in DOMAIN reps : reps[i].outcome = main /\ reps[i].bucket = bucket
              /\ bucket = "model" =>
                    Cardinality({i \in DOMAIN reps : reps[i].outcome = main /\ reps[i].bucket = "model"})
                        > Cardinality({i \in DOMAIN reps : reps[i].outcome = main /\ reps[i].bucket = "system"})
            BY <2>1, <3>1, <3>2, BucketIsFair
        <3> QED
            BY <2>2, <3>2, <3>3
    <2> QED
        BY <2>1, <2>3, <2>4, <2>5 DEF SummaryIsFair
<1> QED
    BY <1>1, <1>2, <1>3, PTL DEF SummarySpec

-----------------------------------------------------------------------------
(* What reports and the console show of holdout cases (HoldoutDisplay).      *)

\* A report of the baseline e with options o, and another that a reader takes for it.
LookAlike(r, t, e, o) ==
    /\ r \in Results /\ t \in Results
    /\ \A id \in ReportCases \ HoldoutCases : r[id] = t[id]
    /\ Aggregate(r, e, o) = Aggregate(t, e, o)
    /\ ~o.reveal

LEMMA SameListed ==
    ASSUME NEW r, NEW t, NEW e, NEW o, LookAlike(r, t, e, o)
    PROVE  Listed(CaseRecords(r), o) = Listed(CaseRecords(t), o)
BY DEF LookAlike, Listed, Restrict, CaseRecords, HiddenIds

LEMMA SameDevRows ==
    ASSUME NEW r, NEW t, NEW e, NEW o, LookAlike(r, t, e, o)
    PROVE  OfSplit(CaseRecords(r), FALSE) = OfSplit(CaseRecords(t), FALSE)
BY DEF LookAlike, OfSplit, Restrict, CaseRecords

LEMMA DisjointUnion ==
    ASSUME NEW S, NEW T, IsFiniteSet(S), IsFiniteSet(T), S \cap T = {}
    PROVE  Cardinality(S \cup T) = Cardinality(S) + Cardinality(T)
<1>1. Cardinality(S \cup T) = Cardinality(S) + Cardinality(T) - Cardinality(S \cap T)
  BY FS_Union
<1>2. Cardinality(S \cap T) = 0 /\ Cardinality(S) \in Nat /\ Cardinality(T) \in Nat
  BY FS_EmptySet, FS_CardinalityType
<1> QED
  BY <1>1, <1>2

-----------------------------------------------------------------------------
(* Every counted case is in one of the two rows.                            *)

LEMMA UpToIsFinite == ASSUME NEW n \in Nat PROVE IsFiniteSet(1 .. n)
<1>1. 1 \in Int /\ n \in Int
  OBVIOUS
<1> QED
  BY ONLY <1>1, FS_Interval

LEMMA RecordOf ==
    ASSUME NEW r \in Results, NEW id \in ReportCases
    PROVE  /\ CaseRecords(r)[id] = [reps |-> r[id], summary |-> Summarize(r[id])]
           /\ r[id] \in Seq(Repetitions)
<1>1. r \in [ReportCases -> Seq(Repetitions)]
  BY DisplayAssumption
<1>2. r[id] \in Range(r)
  BY <1>1 DEF Range
<1>3. r[id] \in Lists
  BY <1>2 DEF Lists
<1>4. SummaryOf[r[id]] = Summarize(r[id])
  BY <1>3 DEF SummaryOf
<1> QED
  BY <1>1, <1>4 DEF CaseRecords, Record

LEMMA CountsOf ==
    ASSUME NEW r \in Results, NEW id \in ReportCases
    PROVE  /\ CaseRecords(r)[id].summary.counted = Cardinality(CountedReps(r[id]))
           /\ CaseRecords(r)[id].summary.passes = Passes(r[id])
           /\ CaseRecords(r)[id].summary.counted \in Nat
           /\ CaseRecords(r)[id].summary.passes \in Nat
           /\ id \in DeclineCases => CaseRecords(r)[id].summary.counted = 0
<1>1. /\ CaseRecords(r)[id].summary.counted = Cardinality(CountedReps(r[id]))
      /\ CaseRecords(r)[id].summary.passes = Passes(r[id])
  <2>1. /\ Summarize(r[id]).counted = Cardinality(CountedReps(r[id]))
        /\ Summarize(r[id]).passes = Passes(r[id])
    BY DEF Summarize
  <2>2. CaseRecords(r)[id].summary = Summarize(r[id])
    <3>1. CaseRecords(r)[id] = [reps |-> r[id], summary |-> Summarize(r[id])]
      BY RecordOf
    <3> QED
      BY <3>1
  <2> QED
    BY <2>1, <2>2
<1>2. IsFiniteSet(DOMAIN r[id])
  <2>1. DOMAIN r[id] = 1 .. Len(r[id]) /\ Len(r[id]) \in Nat
    BY RecordOf
  <2>2. IsFiniteSet(1 .. Len(r[id]))
    BY <2>1, UpToIsFinite
  <2> QED
    BY <2>1, <2>2
<1>3. /\ IsFiniteSet(CountedReps(r[id]))
      /\ IsFiniteSet(CountedReps(r[id]) \cap With(r[id], "pass"))
  BY <1>2, FS_Subset DEF CountedReps
<1>4. Cardinality(CountedReps(r[id])) \in Nat /\ Passes(r[id]) \in Nat
  BY <1>3, FS_CardinalityType DEF Passes
<1>5. id \in DeclineCases => Cardinality(CountedReps(r[id])) = 0
  BY DisplayAssumption, FS_EmptySet
<1> QED
  BY <1>1, <1>4, <1>5

\* The counted cases of a split.
CountedIn(r, isHoldout) == {id \in ReportCases : ((id \in HoldoutCases) <=> isHoldout) /\ CaseRecords(r)[id].summary.counted > 0}
Rates(r, ids) == [id \in ids |-> RateOf(CaseRecords(r)[id].summary)]

LEMMA RatesAreNat ==
    ASSUME NEW r \in Results, NEW id \in ReportCases, CaseRecords(r)[id].summary.counted > 0
    PROVE  RateOf(CaseRecords(r)[id].summary) \in Nat
<1> DEFINE c == CaseRecords(r)[id].summary.counted
           p == CaseRecords(r)[id].summary.passes
           q == Shares \div c
<1>1. c \in Nat /\ p \in Nat /\ c > 0
  BY CountsOf
<1>2. Shares \in Nat
  BY DisplayAssumption
<1>3. RateOf(CaseRecords(r)[id].summary) = p * q
  BY DEF RateOf
<1> HIDE DEF c, p
<1>4. q \in Nat
  BY <1>1, <1>2
<1> HIDE DEF q
<1>5. p * q \in Nat
  BY <1>1, <1>4
<1> QED
  BY <1>3, <1>5

LEMMA SplitIsCounted ==
    ASSUME NEW r \in Results, NEW isHoldout \in BOOLEAN, NEW shown
    PROVE  /\ SplitRow(CaseRecords(r), isHoldout, shown).cases = Cardinality(CountedIn(r, isHoldout))
           /\ SplitRow(CaseRecords(r), isHoldout, shown).total = Total(Rates(r, CountedIn(r, isHoldout)))
<1> DEFINE records == OfSplit(CaseRecords(r), isHoldout)
<1>1. DOMAIN CaseRecords(r) = ReportCases
  BY DEF CaseRecords
<1>2. /\ DOMAIN records = {id \in ReportCases : (id \in HoldoutCases) <=> isHoldout}
      /\ \A id \in DOMAIN records : records[id] = CaseRecords(r)[id]
  BY <1>1 DEF OfSplit, Restrict
<1> HIDE DEF records
<1>3. CountedOf(records) = CountedIn(r, isHoldout)
  BY <1>2 DEF CountedOf, CountedIn
<1>4. CountedIn(r, isHoldout) \subseteq DOMAIN records
  BY <1>2 DEF CountedIn
<1>5. RatesOf(records, CountedIn(r, isHoldout)) = Rates(r, CountedIn(r, isHoldout))
  BY <1>2, <1>4 DEF RatesOf, Rates
<1>6. /\ SummarizeAccuracy(records).cases = Cardinality(CountedIn(r, isHoldout))
      /\ SummarizeAccuracy(records).rates = Rates(r, CountedIn(r, isHoldout))
  BY <1>3, <1>5 DEF SummarizeAccuracy
<1> QED
  BY <1>6 DEF SplitRow, records

LEMMA AllIsCounted ==
    ASSUME NEW r \in Results
    PROVE  LET all == SummarizeAccuracy(AnswersOf(CaseRecords(r)))
               both == CountedIn(r, FALSE) \cup CountedIn(r, TRUE)
           IN  all.cases = Cardinality(both) /\ all.rates = Rates(r, both)
<1> DEFINE records == AnswersOf(CaseRecords(r))
           both == CountedIn(r, FALSE) \cup CountedIn(r, TRUE)
<1>1. DOMAIN CaseRecords(r) = ReportCases
  BY DEF CaseRecords
<1>2. /\ DOMAIN records = ReportCases \ DeclineCases
      /\ \A id \in DOMAIN records : records[id] = CaseRecords(r)[id]
  BY <1>1 DEF AnswersOf, Restrict, IsBehaviorRecord
<1> HIDE DEF records
<1>3. both = {id \in ReportCases : CaseRecords(r)[id].summary.counted > 0}
  BY DEF CountedIn
<1>4. \A id \in both : id \notin DeclineCases
  <2> SUFFICES ASSUME NEW id \in both, id \in DeclineCases PROVE FALSE
    OBVIOUS
  <2>1. id \in ReportCases /\ CaseRecords(r)[id].summary.counted > 0
    BY <1>3
  <2>2. CaseRecords(r)[id].summary.counted = 0
    BY <2>1, CountsOf
  <2> QED
    BY <2>1, <2>2
<1>5. CountedOf(records) = both
  <2> HIDE DEF both
  <2> SUFFICES ASSUME NEW id PROVE id \in CountedOf(records) <=> id \in both
    OBVIOUS
  <2>1. id \in CountedOf(records) <=> id \in DOMAIN records /\ records[id].summary.counted > 0
    BY DEF CountedOf
  <2>2. id \in DOMAIN records <=> id \in ReportCases /\ id \notin DeclineCases
    BY <1>2
  <2>3. id \in DOMAIN records => records[id] = CaseRecords(r)[id]
    BY <1>2
  <2>4. id \in both <=> id \in ReportCases /\ CaseRecords(r)[id].summary.counted > 0
    BY <1>3
  <2>5. id \in both => id \notin DeclineCases
    BY <1>4
  <2> QED
    BY <2>1, <2>2, <2>3, <2>4, <2>5
<1>6. both \subseteq DOMAIN records
  BY <1>2, <1>3, <1>4
<1> HIDE DEF both
<1>7. RatesOf(records, both) = Rates(r, both)
  BY <1>2, <1>6 DEF RatesOf, Rates
<1>8. SummarizeAccuracy(records).cases = Cardinality(both) /\ SummarizeAccuracy(records).rates = Rates(r, both)
  BY <1>5, <1>7 DEF SummarizeAccuracy
<1> QED
  BY <1>8 DEF records, both

\* The shares of cases, one element each.
SharesOf(r, ids) == UNION {{id} \X (1 .. Rates(r, ids)[id]) : id \in ids}

LEMMA TotalsAdd ==
    ASSUME NEW r \in Results
    PROVE  LET dev == CountedIn(r, FALSE)
               kept == CountedIn(r, TRUE)
           IN  /\ Cardinality(dev \cup kept) = Cardinality(dev) + Cardinality(kept)
               /\ Total(Rates(r, dev \cup kept)) = Total(Rates(r, dev)) + Total(Rates(r, kept))
<1> DEFINE dev == CountedIn(r, FALSE)
           kept == CountedIn(r, TRUE)
<1>1. IsFiniteSet(dev) /\ IsFiniteSet(kept) /\ dev \cap kept = {}
  BY DisplayAssumption, FS_Subset DEF CountedIn
<1>2. Cardinality(dev \cup kept) = Cardinality(dev) + Cardinality(kept)
  BY <1>1, DisjointUnion
<1>3. ASSUME NEW ids \in SUBSET (dev \cup kept)
      PROVE  /\ Total(Rates(r, ids)) = Cardinality(SharesOf(r, ids))
             /\ IsFiniteSet(SharesOf(r, ids))
  <2>1. DOMAIN Rates(r, ids) = ids
    BY DEF Rates
  <2>2. Total(Rates(r, ids)) = Cardinality(SharesOf(r, ids))
    BY <2>1 DEF Total, SharesOf
  <2>3. IsFiniteSet(ids)
    BY <1>1, FS_Union, FS_Subset
  <2>4. ASSUME NEW id \in ids PROVE IsFiniteSet({id} \X (1 .. Rates(r, ids)[id]))
    <3>1. id \in ReportCases /\ CaseRecords(r)[id].summary.counted > 0
      BY DEF CountedIn
    <3>2. Rates(r, ids)[id] \in Nat
      BY <3>1, RatesAreNat DEF Rates
    <3>3. IsFiniteSet(1 .. Rates(r, ids)[id])
      BY <3>2, UpToIsFinite
    <3>4. IsFiniteSet({id})
      BY FS_Singleton
    <3> QED
      BY <3>3, <3>4, FS_Product
  <2> DEFINE parts == {{id} \X (1 .. Rates(r, ids)[id]) : id \in ids}
             part == [id \in ids |-> {id} \X (1 .. Rates(r, ids)[id])]
  <2>5. part \in Surjection(ids, parts)
    BY DEF Surjection
  <2>6. IsFiniteSet(parts)
    <3> HIDE DEF part, parts
    <3> QED
      BY ONLY <2>3, <2>5, FS_Surjection
  <2>7. \A p \in parts : IsFiniteSet(p)
    BY <2>4
  <2>8. IsFiniteSet(UNION parts)
    <3> HIDE DEF parts, part
    <3> QED
      BY <2>6, <2>7, FS_UNION
  <2> QED
    BY <2>2, <2>8 DEF SharesOf
<1>4. SharesOf(r, dev \cup kept) = SharesOf(r, dev) \cup SharesOf(r, kept)
  <2> HIDE DEF dev, kept
  <2> QED
    BY DEF SharesOf, Rates
<1>5. SharesOf(r, dev) \cap SharesOf(r, kept) = {}
  <2> SUFFICES ASSUME NEW x \in SharesOf(r, dev), x \in SharesOf(r, kept) PROVE FALSE
    OBVIOUS
  <2> HIDE DEF dev, kept
  <2>1. x[1] \in dev /\ x[1] \in kept
    BY DEF SharesOf
  <2> QED
    BY <1>1, <2>1
<1>6. /\ Total(Rates(r, dev)) = Cardinality(SharesOf(r, dev)) /\ IsFiniteSet(SharesOf(r, dev))
      /\ Total(Rates(r, kept)) = Cardinality(SharesOf(r, kept)) /\ IsFiniteSet(SharesOf(r, kept))
      /\ Total(Rates(r, dev \cup kept)) = Cardinality(SharesOf(r, dev \cup kept))
  BY <1>3
<1> HIDE DEF dev, kept
<1>7. Cardinality(SharesOf(r, dev) \cup SharesOf(r, kept)) = Cardinality(SharesOf(r, dev)) + Cardinality(SharesOf(r, kept))
  BY <1>5, <1>6, DisjointUnion
<1>8. Total(Rates(r, dev \cup kept)) = Total(Rates(r, dev)) + Total(Rates(r, kept))
  BY <1>4, <1>6, <1>7
<1> QED
  BY <1>2, <1>8 DEF dev, kept

Strict(r) ==
    LET all == SummarizeAccuracy(AnswersOf(CaseRecords(r))) IN <<all.cases, Total(all.rates)>>

LEMMA StrictIsTheRows ==
    ASSUME NEW r \in Results, NEW x, NEW y
    PROVE  LET dev == SplitRow(CaseRecords(r), FALSE, x)
               kept == SplitRow(CaseRecords(r), TRUE, y)
           IN  Strict(r) = <<dev.cases + kept.cases, dev.total + kept.total>>
<1> DEFINE both == CountedIn(r, FALSE) \cup CountedIn(r, TRUE)
           dev == SplitRow(CaseRecords(r), FALSE, x)
           kept == SplitRow(CaseRecords(r), TRUE, y)
<1>1. Strict(r) = <<Cardinality(both), Total(Rates(r, both))>>
  BY AllIsCounted DEF Strict
<1>2. dev.cases = Cardinality(CountedIn(r, FALSE)) /\ dev.total = Total(Rates(r, CountedIn(r, FALSE)))
  BY SplitIsCounted
<1>3. kept.cases = Cardinality(CountedIn(r, TRUE)) /\ kept.total = Total(Rates(r, CountedIn(r, TRUE)))
  BY SplitIsCounted
<1>4. /\ Cardinality(both) = Cardinality(CountedIn(r, FALSE)) + Cardinality(CountedIn(r, TRUE))
      /\ Total(Rates(r, both)) = Total(Rates(r, CountedIn(r, FALSE))) + Total(Rates(r, CountedIn(r, TRUE)))
  BY TotalsAdd
<1> HIDE DEF both, dev, kept
<1>5. Strict(r) = <<dev.cases + kept.cases, dev.total + kept.total>>
  BY <1>1, <1>2, <1>3, <1>4
<1> QED
  BY <1>5 DEF dev, kept

-----------------------------------------------------------------------------
(* The comparison: its cases are known, and the visible ones are the same.   *)

Asked == ReportCases \ DeclineCases
KnownCases(e) == Asked \cap DOMAIN e
SameGold(e) == {id \in KnownCases(e) : e[id].same}
RemovedOf(e) == {id \in DOMAIN e : ~IsBehaviorRecord(id)} \ ReportCases
HoldoutOf(e) == HoldoutCases \cap (Asked \cup RemovedOf(e))

BeforeOf(e, id) == SummaryOf[e[id].reps]
AfterOf(r, id) == CaseRecords(r)[id].summary
Tested(r, e) == {id \in SameGold(e) : Label(BeforeOf(e, id)) = "counted" /\ Label(AfterOf(r, id)) = "counted"}
PairOf(r, e, id) == [before |-> Side(BeforeOf(e, id)), after |-> Side(AfterOf(r, id))]
LabelsOf(r, e, id) == [before |-> Label(BeforeOf(e, id)), after |-> Label(AfterOf(r, id))]
PairsOf(r, e) == [id \in Tested(r, e) |-> PairOf(r, e, id)]
NotCountedOf(r, e) == [id \in SameGold(e) \ Tested(r, e) |-> LabelsOf(r, e, id)]
Comparison(r, e) == CompareReports(e, CaseRecords(r))

LEMMA ComparisonIs ==
    ASSUME NEW r, NEW e
    PROVE  /\ Comparison(r, e).pairs = PairsOf(r, e)
           /\ Comparison(r, e).notCounted = NotCountedOf(r, e)
           /\ Comparison(r, e).goldChanged = KnownCases(e) \ SameGold(e)
           /\ Comparison(r, e).new = Asked \ DOMAIN e
           /\ Comparison(r, e).removed = RemovedOf(e)
           /\ Comparison(r, e).holdout = HoldoutOf(e)
<1>1. DOMAIN CaseRecords(r) = ReportCases
  BY DEF CaseRecords
<1>2. DOMAIN AnswersOf(CaseRecords(r)) = Asked
  BY <1>1 DEF AnswersOf, Restrict, IsBehaviorRecord, Asked
<1> QED
  BY <1>1, <1>2 DEF Comparison, CompareReports, KnownCases, SameGold, RemovedOf, HoldoutOf, BeforeOf, AfterOf, Tested,
     PairOf, LabelsOf, PairsOf, NotCountedOf

LEMMA VisibleAreTheSame ==
    ASSUME NEW r, NEW t, NEW e, NEW o, LookAlike(r, t, e, o), NEW id \in Asked \ HoldoutOf(e)
    PROVE  /\ id \in Tested(r, e) <=> id \in Tested(t, e)
           /\ PairOf(r, e, id) = PairOf(t, e, id)
           /\ LabelsOf(r, e, id) = LabelsOf(t, e, id)
<1>1. id \in ReportCases \ HoldoutCases
  BY DEF Asked, HoldoutOf
<1>2. r[id] = t[id]
  BY <1>1 DEF LookAlike
<1>3. AfterOf(r, id) = AfterOf(t, id)
  BY <1>1, <1>2 DEF AfterOf, CaseRecords
<1> QED
  BY <1>3 DEF Tested, PairOf, LabelsOf

VisibleOf(entries, e) == Restrict(entries, DOMAIN entries \ HoldoutOf(e))

LEMMA SameVisibleEntries ==
    ASSUME NEW r, NEW t, NEW e, NEW o, LookAlike(r, t, e, o)
    PROVE  /\ VisibleOf(Comparison(r, e).pairs, e) = VisibleOf(Comparison(t, e).pairs, e)
           /\ VisibleOf(Comparison(r, e).notCounted, e) = VisibleOf(Comparison(t, e).notCounted, e)
<1>1. SameGold(e) \subseteq Asked /\ Tested(r, e) \subseteq SameGold(e) /\ Tested(t, e) \subseteq SameGold(e)
  BY DEF SameGold, KnownCases, Tested
<1>2. Tested(r, e) \ HoldoutOf(e) = Tested(t, e) \ HoldoutOf(e)
  BY <1>1, VisibleAreTheSame
<1>3. (SameGold(e) \ Tested(r, e)) \ HoldoutOf(e) = (SameGold(e) \ Tested(t, e)) \ HoldoutOf(e)
  BY <1>1, VisibleAreTheSame
<1>4. ASSUME NEW p
      PROVE  /\ VisibleOf(Comparison(p, e).pairs, e) = [id \in Tested(p, e) \ HoldoutOf(e) |-> PairOf(p, e, id)]
             /\ VisibleOf(Comparison(p, e).notCounted, e) =
                  [id \in (SameGold(e) \ Tested(p, e)) \ HoldoutOf(e) |-> LabelsOf(p, e, id)]
  <2>1. Comparison(p, e).pairs = PairsOf(p, e) /\ Comparison(p, e).notCounted = NotCountedOf(p, e)
    BY ComparisonIs
  <2> QED
    BY <2>1 DEF VisibleOf, Restrict, PairsOf, NotCountedOf
<1>5. \A id \in Tested(r, e) \ HoldoutOf(e) : PairOf(r, e, id) = PairOf(t, e, id)
  BY <1>1, VisibleAreTheSame
<1>6. \A id \in (SameGold(e) \ Tested(r, e)) \ HoldoutOf(e) : LabelsOf(r, e, id) = LabelsOf(t, e, id)
  BY <1>1, VisibleAreTheSame
<1>7. VisibleOf(Comparison(r, e).pairs, e) = VisibleOf(Comparison(t, e).pairs, e)
  <2>1. VisibleOf(Comparison(r, e).pairs, e) = [id \in Tested(r, e) \ HoldoutOf(e) |-> PairOf(r, e, id)]
    BY <1>4
  <2>2. VisibleOf(Comparison(t, e).pairs, e) = [id \in Tested(t, e) \ HoldoutOf(e) |-> PairOf(t, e, id)]
    BY <1>4
  <2> QED
    BY ONLY <1>2, <1>5, <2>1, <2>2
<1>8. VisibleOf(Comparison(r, e).notCounted, e) = VisibleOf(Comparison(t, e).notCounted, e)
  <2>1. VisibleOf(Comparison(r, e).notCounted, e) = [id \in (SameGold(e) \ Tested(r, e)) \ HoldoutOf(e) |-> LabelsOf(r, e, id)]
    BY <1>4
  <2>2. VisibleOf(Comparison(t, e).notCounted, e) = [id \in (SameGold(e) \ Tested(t, e)) \ HoldoutOf(e) |-> LabelsOf(t, e, id)]
    BY <1>4
  <2> QED
    BY ONLY <1>3, <1>6, <2>1, <2>2
<1> QED
  BY <1>7, <1>8

\* A recording that pairs no holdout case shows what it paired.
LEMMA NoneHidden ==
    ASSUME NEW r, NEW e, HoldoutOf(e) = {} \/ PairsNoHoldoutCase(Comparison(r, e))
    PROVE  Comparison(r, e).pairs = VisibleOf(Comparison(r, e).pairs, e)
<1>1. Tested(r, e) \subseteq SameGold(e) /\ SameGold(e) \subseteq KnownCases(e) /\ KnownCases(e) \subseteq Asked
  BY DEF SameGold, KnownCases, Tested
<1>2. /\ Comparison(r, e).pairs = PairsOf(r, e)
      /\ DOMAIN Comparison(r, e).notCounted = SameGold(e) \ Tested(r, e)
      /\ Comparison(r, e).goldChanged = KnownCases(e) \ SameGold(e)
      /\ Comparison(r, e).new = Asked \ DOMAIN e
      /\ Comparison(r, e).removed = RemovedOf(e)
      /\ Comparison(r, e).holdout = HoldoutOf(e)
  <2>1. Comparison(r, e).notCounted = NotCountedOf(r, e)
    BY ComparisonIs
  <2>2. DOMAIN Comparison(r, e).notCounted = SameGold(e) \ Tested(r, e)
    BY <2>1 DEF NotCountedOf
  <2> QED
    BY <2>2, ComparisonIs
<1>3. \/ Tested(r, e) = {}
      \/ HoldoutOf(e) \subseteq (KnownCases(e) \ SameGold(e)) \cup (SameGold(e) \ Tested(r, e)) \cup (Asked \ DOMAIN e) \cup RemovedOf(e)
  BY <1>2 DEF PairsNoHoldoutCase, PairsOf
<1>4. Tested(r, e) \cap RemovedOf(e) = {} /\ KnownCases(e) \subseteq DOMAIN e
  BY <1>1 DEF RemovedOf, Asked, KnownCases
<1>5. Tested(r, e) \ HoldoutOf(e) = Tested(r, e)
  BY <1>1, <1>3, <1>4
<1> QED
  BY <1>2, <1>5 DEF VisibleOf, Restrict, PairsOf

LEMMA SameComparison ==
    ASSUME NEW r, NEW t, NEW e, NEW o, LookAlike(r, t, e, o)
    PROVE  DisplayedComparison(Comparison(r, e), o) = DisplayedComparison(Comparison(t, e), o)
<1> DEFINE Known(p) == o.stored \/ HoldoutOf(e) = {} \/ PairsNoHoldoutCase(Comparison(p, e))
           ShownPairs(p) == IF o.stored THEN VisibleOf(Comparison(p, e).pairs, e) ELSE Comparison(p, e).pairs
           Shown(p) == [figures |-> IF Known(p) THEN <<PairFigures(ShownPairs(p))>> ELSE <<>>,
                        lists |-> IF Known(p) THEN <<PairLists(ShownPairs(p))>> ELSE <<>>,
                        goldChanged |-> (KnownCases(e) \ SameGold(e)) \ HoldoutOf(e),
                        notCounted |-> VisibleOf(Comparison(p, e).notCounted, e),
                        new |-> (Asked \ DOMAIN e) \ HoldoutOf(e),
                        removed |-> RemovedOf(e) \ HoldoutOf(e), hiddenCases |-> Cardinality(HoldoutOf(e))]
<1>1. ~o.reveal
  BY DEF LookAlike
<1>2. ASSUME NEW p PROVE DisplayedComparison(Comparison(p, e), o) = Shown(p)
  <2> DEFINE c == Comparison(p, e)
  <2>1. /\ c.goldChanged = KnownCases(e) \ SameGold(e)
        /\ c.new = Asked \ DOMAIN e
        /\ c.removed = RemovedOf(e)
        /\ c.holdout = HoldoutOf(e)
    BY ComparisonIs
  <2> HIDE DEF c
  <2> QED
    BY <1>1, <2>1 DEF DisplayedComparison, VisibleOf, c
<1>3. (o.stored \/ PairsNoHoldoutCase(Comparison(r, e))) <=> (o.stored \/ PairsNoHoldoutCase(Comparison(t, e)))
  <2>1. ASSUME NEW p PROVE Aggregate(p, e, o).unpaired = (o.stored \/ PairsNoHoldoutCase(Comparison(p, e)))
    BY DEF Aggregate, AggregateOf, Comparison
  <2>2. Aggregate(r, e, o).unpaired = Aggregate(t, e, o).unpaired
    BY DEF LookAlike
  <2> QED
    BY <2>1, <2>2
<1>4. Known(r) <=> Known(t)
  BY <1>3
<1>5. ASSUME Known(r) PROVE ShownPairs(r) = ShownPairs(t)
  <2>1. CASE o.stored
    BY <2>1, SameVisibleEntries
  <2>2. CASE ~o.stored
    <3>1. ShownPairs(r) = VisibleOf(Comparison(r, e).pairs, e)
      BY <1>5, <2>2, NoneHidden
    <3>2. ShownPairs(t) = VisibleOf(Comparison(t, e).pairs, e)
      BY <1>4, <1>5, <2>2, NoneHidden
    <3> QED
      BY <3>1, <3>2, SameVisibleEntries
  <2> QED
    BY <2>1, <2>2
<1>6. VisibleOf(Comparison(r, e).notCounted, e) = VisibleOf(Comparison(t, e).notCounted, e)
  BY SameVisibleEntries
<1> HIDE DEF Known, ShownPairs
<1>7. Shown(r) = Shown(t)
  BY <1>4, <1>5, <1>6
<1> HIDE DEF Shown
<1> QED
  BY <1>2, <1>7

-----------------------------------------------------------------------------
(* The line of the holdout's pairs: equal tallies of outcomes, equal counts. *)

LEMMA EqualTallies ==
    ASSUME NEW f, NEW g, IsFiniteSet(DOMAIN f), IsFiniteSet(DOMAIN g), Tally(f) = Tally(g), NEW K
    PROVE  Cardinality({i \in DOMAIN f : f[i] \in K}) = Cardinality({j \in DOMAIN g : g[j] \in K})
<1> DEFINE PlacesOf(h, x) == {i \in DOMAIN h : h[i] = x}
           A == {i \in DOMAIN f : f[i] \in K}
           B == {j \in DOMAIN g : g[j] \in K}
<1>1. Range(f) = Range(g) /\ \A x \in Range(f) : Cardinality(PlacesOf(f, x)) = Cardinality(PlacesOf(g, x))
  BY DEF Tally
<1>2. \A x : IsFiniteSet(PlacesOf(f, x)) /\ IsFiniteSet(PlacesOf(g, x))
  BY FS_Subset
<1>3. IsFiniteSet(A) /\ IsFiniteSet(B)
  BY FS_Subset
<1> DEFINE b == [x \in Range(f) |-> CHOOSE h : h \in Bijection(PlacesOf(f, x), PlacesOf(g, x))]
           m == [i \in A |-> b[f[i]][i]]
<1>4. ASSUME NEW x \in Range(f) PROVE b[x] \in Bijection(PlacesOf(f, x), PlacesOf(g, x))
  <2>1. ExistsBijection(PlacesOf(f, x), PlacesOf(g, x))
    <3> HIDE DEF PlacesOf
    <3> QED
      BY <1>1, <1>2, FS_SameCardinalityBij
  <2> HIDE DEF PlacesOf
  <2> QED
    BY <2>1 DEF ExistsBijection
<1>5. \A i \in DOMAIN f : f[i] \in Range(f) /\ i \in PlacesOf(f, f[i])
  BY DEF Range
<1>6. \A j \in DOMAIN g : g[j] \in Range(f) /\ j \in PlacesOf(g, g[j])
  BY <1>1 DEF Range
<1> HIDE DEF b
<1>7. \A i \in A : m[i] \in DOMAIN g /\ g[m[i]] = f[i]
  <2> TAKE i \in A
  <2>1. b[f[i]] \in [PlacesOf(f, f[i]) -> PlacesOf(g, f[i])]
    BY <1>4, <1>5 DEF Bijection, Injection
  <2>2. i \in PlacesOf(f, f[i])
    BY <1>5
  <2>3. b[f[i]][i] \in PlacesOf(g, f[i])
    BY <2>1, <2>2
  <2> QED
    BY <2>3
<1>8. m \in [A -> B]
  BY <1>7
<1>9. ASSUME NEW i \in A, NEW j \in A, m[i] = m[j] PROVE i = j
  <2>1. f[i] = f[j]
    BY <1>7, <1>9
  <2>2. b[f[i]][i] = b[f[i]][j]
    BY <1>9, <2>1
  <2>3. i \in PlacesOf(f, f[i]) /\ j \in PlacesOf(f, f[i])
    BY <1>5, <2>1
  <2>4. b[f[i]] \in Bijection(PlacesOf(f, f[i]), PlacesOf(g, f[i]))
    BY <1>4, <1>5
  <2> HIDE DEF PlacesOf, m, A
  <2> QED
    BY <2>2, <2>3, <2>4 DEF Bijection, Injection, IsInjective
<1>10. ASSUME NEW j \in B PROVE \E i \in A : m[i] = j
  <2>1. g[j] \in Range(f) /\ j \in PlacesOf(g, g[j])
    BY <1>6
  <2>2. b[g[j]] \in Bijection(PlacesOf(f, g[j]), PlacesOf(g, g[j]))
    BY <1>4, <2>1
  <2>3. PICK i \in PlacesOf(f, g[j]) : b[g[j]][i] = j
    <3> HIDE DEF PlacesOf
    <3> QED
      BY <2>1, <2>2 DEF Bijection, Surjection
  <2>4. i \in A /\ f[i] = g[j]
    OBVIOUS
  <2> QED
    BY <2>3, <2>4
<1> HIDE DEF A, B, m
<1>11. m \in Bijection(A, B)
  BY <1>8, <1>9, <1>10 DEF Bijection, Injection, Surjection, IsInjective
<1>12. Cardinality(A) = Cardinality(B)
  <2>1. ExistsBijection(A, B)
    BY <1>11 DEF ExistsBijection
  <2> QED
    BY <1>3, <2>1, FS_Bijection
<1> QED
  BY <1>12 DEF A, B

\* Outcomes as HoldoutPairSummary orders them.
KeysOf(pairs) == Each(OutcomeKey, pairs)

LEMMA EmptyRange == ASSUME NEW f PROVE DOMAIN f = {} <=> Range(f) = {}
BY DEF Range

LEMMA CountsOfKeys ==
    ASSUME NEW pairs, NEW others, IsFiniteSet(DOMAIN pairs), IsFiniteSet(DOMAIN others),
           Tally(KeysOf(pairs)) = Tally(KeysOf(others))
    PROVE  /\ PairCounts(pairs) = PairCounts(others)
           /\ DOMAIN pairs = {} <=> DOMAIN others = {}
<1> DEFINE All == Range(KeysOf(pairs))
           Worse == {k \in All : k[2] /\ ~k[4]}
           Better == {k \in All : ~k[2] /\ k[4]}
           Both == {k \in All : k[2] /\ k[4]}
           Count(list, K) == Cardinality({i \in DOMAIN KeysOf(list) : KeysOf(list)[i] \in K})
<1>1. Range(KeysOf(others)) = All
  BY DEF Tally
<1>2. ASSUME NEW list PROVE DOMAIN KeysOf(list) = DOMAIN list
  BY DEF KeysOf, Each
<1>3. ASSUME NEW list, NEW i \in DOMAIN list
      PROVE  /\ KeysOf(list)[i][2] = list[i].before.majority
             /\ KeysOf(list)[i][4] = list[i].after.majority
             /\ KeysOf(list)[i] \in Range(KeysOf(list))
  BY <1>2 DEF KeysOf, Each, OutcomeKey, Range
<1>4. ASSUME NEW K PROVE Count(pairs, K) = Count(others, K)
  BY <1>2, EqualTallies
<1>5. ASSUME NEW list, Range(KeysOf(list)) = All
      PROVE  PairCounts(list) = [paired |-> Count(list, All), regressions |-> Count(list, Worse),
                                 improvements |-> Count(list, Better), bothPass |-> Count(list, Both)]
  <2>1. DOMAIN list = {i \in DOMAIN KeysOf(list) : KeysOf(list)[i] \in All}
    BY <1>2, <1>3, <1>5
  <2>2. Regressed(list) = {i \in DOMAIN KeysOf(list) : KeysOf(list)[i] \in Worse}
    BY <1>2, <1>3, <1>5 DEF Regressed, Chosen
  <2>3. Improved(list) = {i \in DOMAIN KeysOf(list) : KeysOf(list)[i] \in Better}
    BY <1>2, <1>3, <1>5 DEF Improved, Chosen
  <2>4. Chosen(list, LAMBDA p : p.before.majority /\ p.after.majority) = {i \in DOMAIN KeysOf(list) : KeysOf(list)[i] \in Both}
    BY <1>2, <1>3, <1>5 DEF Chosen
  <2> HIDE DEF All, Worse, Better, Both
  <2> QED
    BY <2>1, <2>2, <2>3, <2>4 DEF PairCounts
<1>6. DOMAIN pairs = {} <=> DOMAIN others = {}
  <2>1. ASSUME NEW list PROVE DOMAIN list = {} <=> Range(KeysOf(list)) = {}
    BY <1>2, EmptyRange
  <2> QED
    BY <1>1, <2>1
<1> HIDE DEF All, Worse, Better, Both, Count
<1>7. PairCounts(pairs) = PairCounts(others)
  BY <1>1, <1>4, <1>5 DEF All
<1> QED
  BY <1>6, <1>7

LineOf(r, e, o) == IF o.summary THEN HoldoutPairSummary(Comparison(r, e), o) ELSE <<>>

LEMMA SameLine ==
    ASSUME NEW r, NEW t, NEW e, NEW o, LookAlike(r, t, e, o)
    PROVE  LineOf(r, e, o) = LineOf(t, e, o)
<1>1. CASE o.summary /\ o.stored
  <2>1. ASSUME NEW p PROVE IsFiniteSet(DOMAIN Holdout(Comparison(p, e)))
    <3>1. DOMAIN Comparison(p, e).pairs = Tested(p, e)
      <4>1. Comparison(p, e).pairs = PairsOf(p, e)
        BY ComparisonIs
      <4> QED
        BY <4>1 DEF PairsOf
    <3>2. DOMAIN Holdout(Comparison(p, e)) \subseteq ReportCases
      BY <3>1 DEF Holdout, Restrict, Tested, SameGold, KnownCases, Asked
    <3> QED
      BY <3>2, DisplayAssumption, FS_Subset
  <2>2. ASSUME NEW p PROVE Aggregate(p, e, o).paired = Tally(KeysOf(Holdout(Comparison(p, e))))
    BY <1>1 DEF Aggregate, AggregateOf, Comparison, KeysOf
  <2>3. Tally(KeysOf(Holdout(Comparison(r, e)))) = Tally(KeysOf(Holdout(Comparison(t, e))))
    BY <2>2 DEF LookAlike
  <2>4. /\ PairCounts(Holdout(Comparison(r, e))) = PairCounts(Holdout(Comparison(t, e)))
        /\ DOMAIN Holdout(Comparison(r, e)) = {} <=> DOMAIN Holdout(Comparison(t, e)) = {}
    BY <2>1, <2>3, CountsOfKeys
  <2> QED
    BY <2>3, <2>4 DEF LineOf, HoldoutPairSummary, KeysOf
<1>2. CASE ~(o.summary /\ o.stored)
  BY <1>2 DEF LineOf, HoldoutPairSummary
<1> QED
  BY <1>1, <1>2

-----------------------------------------------------------------------------
(* The whole report, and the reason of a failed run.                        *)

LEMMA SameRows ==
    ASSUME NEW r, NEW t, NEW e, NEW o, LookAlike(r, t, e, o)
    PROVE  /\ SplitRow(CaseRecords(r), FALSE, TRUE) = SplitRow(CaseRecords(t), FALSE, TRUE)
           /\ SplitRow(CaseRecords(r), TRUE, FALSE) = SplitRow(CaseRecords(t), TRUE, FALSE)
           /\ Strict(r) = Strict(t)
<1>1. SplitRow(CaseRecords(r), FALSE, TRUE) = SplitRow(CaseRecords(t), FALSE, TRUE)
  BY SameDevRows DEF SplitRow
<1>2. SplitRow(CaseRecords(r), TRUE, FALSE) = SplitRow(CaseRecords(t), TRUE, FALSE)
  <2>1. ASSUME NEW p PROVE Aggregate(p, e, o).row = SplitRow(CaseRecords(p), TRUE, FALSE)
    BY DEF Aggregate, AggregateOf
  <2> QED
    BY <2>1 DEF LookAlike
<1>3. Strict(r) = Strict(t)
  <2> DEFINE RowsOf(p) == <<SplitRow(CaseRecords(p), FALSE, TRUE).cases + SplitRow(CaseRecords(p), TRUE, FALSE).cases,
                            SplitRow(CaseRecords(p), FALSE, TRUE).total + SplitRow(CaseRecords(p), TRUE, FALSE).total>>
  <2>1. ASSUME NEW p \in Results PROVE Strict(p) = RowsOf(p)
    BY StrictIsTheRows
  <2>2. RowsOf(r) = RowsOf(t)
    BY <1>1, <1>2
  <2> HIDE DEF RowsOf
  <2> QED
    BY <2>1, <2>2 DEF LookAlike
<1> QED
  BY <1>1, <1>2, <1>3

BudgetOf(r, o) == IF o.budget THEN <<BudgetRow(CaseRecords(r), Listed(CaseRecords(r), o))>> ELSE <<>>

LEMMA SameBudget ==
    ASSUME NEW r, NEW t, NEW e, NEW o, LookAlike(r, t, e, o)
    PROVE  BudgetOf(r, o) = BudgetOf(t, o)
<1> DEFINE Row(p) == BudgetRow(CaseRecords(p), Listed(CaseRecords(p), o))
<1>1. ASSUME NEW p PROVE Aggregate(p, e, o).budget = IF o.budget THEN <<Row(p).spent, Row(p).unnamed>> ELSE <<>>
  BY DEF Aggregate, AggregateOf
<1>2. ASSUME NEW p
      PROVE  Row(p) = [spent |-> Row(p).spent, named |-> Unrun(Listed(CaseRecords(p), o)), unnamed |-> Row(p).unnamed]
  BY DEF BudgetRow
<1>3. Unrun(Listed(CaseRecords(r), o)) = Unrun(Listed(CaseRecords(t), o))
  BY SameListed
<1> HIDE DEF Row
<1>4. CASE o.budget
  <2>1. <<Row(r).spent, Row(r).unnamed>> = <<Row(t).spent, Row(t).unnamed>>
    BY <1>1, <1>4 DEF LookAlike
  <2>2. Row(r).spent = Row(t).spent /\ Row(r).unnamed = Row(t).unnamed
    BY <2>1
  <2>3. Row(r) = Row(t)
    BY <1>2, <1>3, <2>2
  <2> QED
    BY <1>4, <2>3 DEF BudgetOf, Row
<1>5. CASE ~o.budget
  BY <1>5 DEF BudgetOf
<1> QED
  BY <1>4, <1>5

LEMMA SameProgress ==
    ASSUME NEW r, NEW t, NEW e, NEW o, LookAlike(r, t, e, o)
    PROVE  Progress(Listed(CaseRecords(r), o), Withheld(CaseRecords(r), o))
             = Progress(Listed(CaseRecords(t), o), Withheld(CaseRecords(t), o))
<1>1. ASSUME NEW p PROVE Aggregate(p, e, o).repetitions = Cardinality(DOMAIN RepsOf(Withheld(CaseRecords(p), o)))
  BY DEF Aggregate, AggregateOf
<1>2. Cardinality(DOMAIN RepsOf(Withheld(CaseRecords(r), o))) = Cardinality(DOMAIN RepsOf(Withheld(CaseRecords(t), o)))
  BY <1>1 DEF LookAlike
<1> QED
  BY <1>2, SameListed DEF Progress

\* The report, by what each of its parts is computed from.
ReportOf(strict, dev, kept, listed, budget, comparison, line, progress, hidden) ==
    LET answers == AnswersOf(listed) IN
    [strict |-> strict,
     accuracy |-> SummarizeAccuracy(answers),
     dev |-> dev, holdout |-> kept,
     attribution |-> SummarizeAttribution(answers),
     confusion |-> Tally(Each(FinalCell, RepsOf(answers))),
     behavior |-> SummarizeBehavior(listed),
     hidden |-> <<Cardinality(hidden), Cardinality(hidden \cap DeclineCases)>>,
     usage |-> SummarizeRunUsage(listed),
     reliability |-> SummarizeReliability(answers),
     excluded |-> Cardinality(DOMAIN answers) - Cardinality(CountedOf(answers)),
     cancelled |-> Cardinality(Chosen(listed, LAMBDA c : With(c.reps, "cancelled") # {})),
     rows |-> Each(CaseRow, listed),
     budget |-> budget, comparison |-> comparison, line |-> line, progress |-> progress]

LEMMA DisplayIs ==
    ASSUME NEW r, NEW e, NEW o
    PROVE  Display(r, e, o) =
             ReportOf(Strict(r), SplitRow(CaseRecords(r), FALSE, TRUE), SplitRow(CaseRecords(r), TRUE, o.reveal),
                      Listed(CaseRecords(r), o), BudgetOf(r, o), DisplayedComparison(Comparison(r, e), o), LineOf(r, e, o),
                      Progress(Listed(CaseRecords(r), o), Withheld(CaseRecords(r), o)), ReportCases \cap HiddenIds(o))
BY DEF Display, ReportOf, Strict, BudgetOf, Comparison, LineOf

LEMMA SameReport ==
    ASSUME NEW r, NEW t, NEW e, NEW o, LookAlike(r, t, e, o)
    PROVE  Display(r, e, o) = Display(t, e, o)
<1>1. SplitRow(CaseRecords(r), TRUE, o.reveal) = SplitRow(CaseRecords(t), TRUE, o.reveal)
  <2>1. ASSUME NEW p PROVE SplitRow(CaseRecords(p), TRUE, o.reveal) = SplitRow(CaseRecords(p), TRUE, FALSE)
    BY DEF SplitRow, LookAlike
  <2> QED
    BY <2>1, SameRows
<1>2. Listed(CaseRecords(r), o) = Listed(CaseRecords(t), o)
  BY SameListed
<1>3. Strict(r) = Strict(t) /\ SplitRow(CaseRecords(r), FALSE, TRUE) = SplitRow(CaseRecords(t), FALSE, TRUE)
  BY SameRows
<1>4. BudgetOf(r, o) = BudgetOf(t, o) /\ LineOf(r, e, o) = LineOf(t, e, o)
  BY SameBudget, SameLine
<1>5. DisplayedComparison(Comparison(r, e), o) = DisplayedComparison(Comparison(t, e), o)
  BY SameComparison
<1>6. Progress(Listed(CaseRecords(r), o), Withheld(CaseRecords(r), o))
        = Progress(Listed(CaseRecords(t), o), Withheld(CaseRecords(t), o))
  BY SameProgress
<1> QED
  BY <1>1, <1>2, <1>3, <1>4, <1>5, <1>6, DisplayIs

\* Without a gate a run fails for its cases alone.
LEMMA FailureIs ==
    ASSUME NEW r, NEW e, NEW o, ~o.gate, ComputeExit(r, e, o).code = 1
    PROVE  ComputeExit(r, e, o) = [code |-> 1, reasons |-> <<FALSE, <<>>, FailedCounts(Listed(CaseRecords(r), o))>>]
<1> DEFINE records == CaseRecords(r)
           c == CompareReports(e, records)
           failed == FailedCases(records, o)
<1>1. failed = FailedCounts(Listed(records, o)) \/ failed = <<>>
  BY DEF FailedCases
<1>2. ComputeExit(r, e, o) = ExitOf(records, c, o)
  BY DEF ComputeExit
<1> HIDE DEF records, c, failed
<1>3. GateFails(c, o) = FALSE
  BY DEF GateFails
<1>4. /\ failed # <<>>
      /\ ExitOf(records, c, o) = [code |-> 1, reasons |-> <<FALSE, <<>>, failed>>]
  <2> DEFINE x == ExitOf(records, c, o)
             two == [code |-> 2, reasons |-> <<Doubts(records, c, o)>>]
             one == [code |-> 1, reasons |-> <<FALSE, <<>>, failed>>]
             zero == [code |-> 0, reasons |-> <<>>]
  <2>1. x = two \/ (failed # <<>> /\ x = one) \/ x = zero
    BY <1>3 DEF ExitOf, failed
  <2>2. x.code = 1
    BY <1>2
  <2>3. two.code = 2 /\ zero.code = 0
    OBVIOUS
  <2> HIDE DEF x, two, one, zero
  <2>4. x # two /\ x # zero
    BY <2>2, <2>3
  <2> QED
    BY <2>1, <2>4 DEF x, one
<1> QED
  BY <1>1, <1>2, <1>4 DEF records

-----------------------------------------------------------------------------
(* The policy.                                                              *)

DisplayIInv ==
    /\ results \in Results /\ baseline \in Baselines /\ option \in DisplayOptions
    /\ printed # <<>> =>
         printed = <<[report |-> Display(results, baseline, option), exit |-> ComputeExit(results, baseline, option)]>>

(* What is published is the report of the results and its exit (renderReportMarkdown, computeExitCode). *)
THEOREM DisplayInvariance == DisplaySpec => []DisplayIInv
<1>1. DisplayInit => DisplayIInv
  BY DEF DisplayInit, DisplayIInv
<1>2. DisplayIInv /\ [DisplayNext]_displayVars => DisplayIInv'
  <2> SUFFICES ASSUME DisplayIInv, [DisplayNext]_displayVars PROVE DisplayIInv'
    OBVIOUS
  <2>1. CASE Publish
    BY <2>1 DEF Publish, DisplayIInv
  <2>2. CASE UNCHANGED displayVars
    BY <2>2 DEF displayVars, DisplayIInv
  <2> QED
    BY <2>1, <2>2 DEF DisplayNext
<1> QED
  BY <1>1, <1>2, PTL DEF DisplaySpec

LEMMA AlikeLooksAlike ==
    ASSUME DisplayIInv, ~option.reveal, NEW r \in Alike
    PROVE  LookAlike(r, results, baseline, option)
<1>1. results \in Results /\ baseline \in Baselines /\ option \in DisplayOptions
  BY DEF DisplayIInv
<1>2. /\ r \in Results /\ \A id \in ReportCases \ HoldoutCases : r[id] = results[id]
      /\ KnownOf[<<r, baseline, option>>] = KnownOf[<<results, baseline, option>>]
  BY DEF Alike
<1>3. Aggregate(r, baseline, option) = Aggregate(results, baseline, option)
  <2>1. <<r, baseline, option>> \in Reports /\ <<results, baseline, option>> \in Reports
    BY <1>1, <1>2 DEF Reports
  <2>2. KnownOf[<<r, baseline, option>>] = Aggregate(r, baseline, option)
    BY <2>1 DEF KnownOf
  <2>3. KnownOf[<<results, baseline, option>>] = Aggregate(results, baseline, option)
    BY <2>1 DEF KnownOf
  <2> QED
    BY <1>2, <2>2, <2>3
<1> QED
  BY <1>1, <1>2, <1>3 DEF LookAlike

(* Whatever the cases, their results and the baseline: what is printed with the holdout hidden says    *)
(* no more about its outcomes than the aggregate that a reader may have (report-markdown.js).           *)
THEOREM HoldoutIsKept == DisplaySpec => []HoldoutStaysHidden
<1>1. DisplayIInv => HoldoutStaysHidden
  <2> SUFFICES ASSUME DisplayIInv, printed # <<>>, ~option.reveal, NEW r \in Alike
               PROVE  /\ DisplayOf[<<r, baseline, option>>] = printed[1].report
                      /\ ~option.gate /\ printed[1].exit.code = 1 => SameExit(ComputeExit(r, baseline, option))
    BY DEF HoldoutStaysHidden
  <2>1. LookAlike(r, results, baseline, option)
    BY AlikeLooksAlike
  <2>2. /\ printed[1].report = Display(results, baseline, option)
        /\ printed[1].exit = ComputeExit(results, baseline, option)
    BY DEF DisplayIInv
  <2>3. DisplayOf[<<r, baseline, option>>] = Display(r, baseline, option)
    <3>1. <<r, baseline, option>> \in Reports
      BY <2>1 DEF Reports, DisplayIInv, LookAlike
    <3> QED
      BY <3>1 DEF DisplayOf
  <2>4. DisplayOf[<<r, baseline, option>>] = printed[1].report
    BY <2>1, <2>2, <2>3, SameReport
  <2>5. ASSUME ~option.gate, printed[1].exit.code = 1, ComputeExit(r, baseline, option).code = 1
        PROVE  ComputeExit(r, baseline, option) = printed[1].exit
    <3>1. Listed(CaseRecords(r), option) = Listed(CaseRecords(results), option)
      BY <2>1, SameListed
    <3>2. ComputeExit(results, baseline, option) =
            [code |-> 1, reasons |-> <<FALSE, <<>>, FailedCounts(Listed(CaseRecords(results), option))>>]
      BY <2>2, <2>5, FailureIs
    <3>3. ComputeExit(r, baseline, option) =
            [code |-> 1, reasons |-> <<FALSE, <<>>, FailedCounts(Listed(CaseRecords(r), option))>>]
      BY <2>5, FailureIs
    <3> QED
      BY <2>2, <3>1, <3>2, <3>3
  <2> QED
    BY <2>2, <2>4, <2>5 DEF SameExit
<1> QED
  BY <1>1, DisplayInvariance, PTL

=============================================================================
