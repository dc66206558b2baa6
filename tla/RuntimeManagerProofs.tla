------------------------ MODULE RuntimeManagerProofs ------------------------
(***************************************************************************)
(* Proofs about RuntimeManager for every number of requests and runtimes,   *)
(* with and without a grace period.                                         *)
(***************************************************************************)
EXTENDS RuntimeManager, FiniteSetTheorems, TLAPS

-----------------------------------------------------------------------------
(* The inductive invariant.  LeaseCount ties the counter to the requests;     *)
(* Why says on what ground an entry may be closing; Tracked says who still    *)
(* knows an entry that is not closing.                                        *)

Using ==
    \A r \in Requests :
        stage[r] # "idle" =>
            /\ uses[r] \in Runtimes
            /\ Born(uses[r])
            /\ stage[r] = "loading" => pool[uses[r]] # "ended"

\* Entries that were not created yet.
Fresh ==
    \A e \in Runtimes : ~Born(e) =>
        /\ load[e] = "none" /\ pool[e] = "none"
        /\ timer[e] = "off" /\ closing[e] = "no" /\ ~retired[e]
        /\ e # current /\ e # refreshing /\ e \notin retiring

Refreshes ==
    refreshing # None =>
        /\ load[refreshing] = "loading"
        /\ refreshing # current
        /\ ~retired[refreshing]
        /\ refreshing \notin retiring
        /\ closing[refreshing] = "no" \/ closed

\* The ground for closing an entry.
Why ==
    \A e \in Runtimes : closing[e] # "no" =>
        \/ closed
        \/ timer[e] = "fired"
        \/ retired[e] /\ inFlight[e] = 0

\* Only a retired entry has a grace timer.
Timed == \A e \in Runtimes : timer[e] # "off" => retired[e]

Ended ==
    \A e \in Runtimes :
        /\ pool[e] = "ended" => closing[e] # "no"
        /\ pool[e] # "none" <=> load[e] = "ready"

\* Who will close an entry that is not closing yet.
Tracked ==
    \A e \in Runtimes : Born(e) =>
        \/ closing[e] # "no"
        \/ load[e] = "failed"
        \/ e = current
        \/ e = refreshing /\ ~closed
        \/ /\ e \in retiring /\ retired[e] /\ inFlight[e] > 0 /\ ~closed
           /\ HasGrace => timer[e] = "armed"

IInv ==
    /\ TypeOK
    /\ LeaseCount
    /\ Using
    /\ Fresh
    /\ CurrentServes
    /\ Refreshes
    /\ Why
    /\ Timed
    /\ Ended
    /\ Tracked

-----------------------------------------------------------------------------
(* Counting leases *)

LEMMA UsersFinite ==
  \A e : IsFiniteSet(Users(e)) /\ Cardinality(Users(e)) \in Nat
<1>1. TAKE e
<1>2. Users(e) \in SUBSET Requests
  BY DEF Users
<1>3. IsFiniteSet(Users(e))
  BY <1>2, RequestsFinite, FS_Subset
<1>4. QED
  BY <1>3, FS_CardinalityType

\* A request that has a runtime is counted, so the count is not zero.
LEMMA UserCounted ==
  ASSUME LeaseCount, NEW r \in Requests, stage[r] # "idle", uses[r] \in Runtimes
  PROVE  inFlight[uses[r]] \in Nat \ {0}
<1>1. r \in Users(uses[r])
  BY DEF Users
<1>2. Users(uses[r]) # {}
  BY <1>1
<1>3. Cardinality(Users(uses[r])) # 0
  BY <1>2, UsersFinite, FS_EmptySet
<1>4. QED
  BY <1>3, UsersFinite DEF LeaseCount

\* acquire() adds its caller to the users of one entry.
LEMMA AcquireCounts ==
  ASSUME IInv, NEW r \in Requests, Acquire(r)
  PROVE  LeaseCount'
<1>1. PICK f \in Runtimes : /\ inFlight' = [inFlight EXCEPT ![f] = @ + 1]
                            /\ uses' = [uses EXCEPT ![r] = f]
  BY DEF Acquire
<1>2. stage[r] = "idle" /\ stage' = [stage EXCEPT ![r] = "loading"]
  BY DEF Acquire
<1>3. TypeOK /\ LeaseCount
  BY DEF IInv
<1>4. Users(f)' = Users(f) \cup {r} /\ r \notin Users(f)
  BY <1>1, <1>2, <1>3 DEF Users, TypeOK
<1>5. \A e \in Runtimes \ {f} : Users(e)' = Users(e)
  BY <1>1, <1>2, <1>3 DEF Users, TypeOK
<1>6. Cardinality(Users(f)') = Cardinality(Users(f)) + 1
  BY <1>4, UsersFinite, FS_AddElement
<1>7. QED
  BY <1>1, <1>3, <1>5, <1>6 DEF LeaseCount, TypeOK

\* Giving a lease back takes its caller out of the users of its entry.
LEMMA GiveBackCounts ==
  ASSUME IInv, NEW r \in Requests, stage[r] # "idle", GiveBack(r)
  PROVE  LeaseCount'
<1>1. TypeOK /\ LeaseCount /\ uses[r] \in Runtimes
  BY DEF IInv, Using
<1>0. PICK f \in Runtimes : f = uses[r]
  BY <1>1
<1>2. Users(f)' = Users(f) \ {r} /\ r \in Users(f)
  BY <1>0, <1>1 DEF Users, TypeOK, GiveBack, Runtimes, None
<1>3. \A e \in Runtimes \ {f} : Users(e)' = Users(e)
  BY <1>0, <1>1 DEF Users, TypeOK, GiveBack, Runtimes, None
<1>4. Cardinality(Users(f)') = Cardinality(Users(f)) - 1
  BY <1>2, UsersFinite, FS_RemoveElement
<1>5. QED
  BY <1>0, <1>1, <1>3, <1>4 DEF LeaseCount, TypeOK, GiveBack

\* A step that moves no request changes no count.
LEMMA OthersCount ==
  ASSUME LeaseCount, UNCHANGED <<stage, uses, inFlight>>
  PROVE  LeaseCount'
<1>1. \A e : Users(e)' = Users(e)
  BY DEF Users
<1>2. QED
  BY <1>1 DEF LeaseCount

\* The step from holding a load to holding the runtime keeps the users.
LEMMA ReturnCounts ==
  ASSUME IInv, NEW r \in Requests, AcquireReturns(r)
  PROVE  LeaseCount'
<1>1. \A e : Users(e)' = Users(e)
  BY DEF Users, AcquireReturns, IInv, TypeOK
<1>2. QED
  BY <1>1 DEF LeaseCount, IInv, AcquireReturns, entryVars

-----------------------------------------------------------------------------
(* The invariant is inductive *)

LEMMA InitEstablishes == Init => IInv
<1> SUFFICES ASSUME Init PROVE IInv
  OBVIOUS
<1> USE MaxRuntimesPositive DEF Init, Runtimes, None, Born
<1>1. TypeOK
  <2>1. nextId \in 1 .. MaxRuntimes + 1
    OBVIOUS
  <2>2. retired \in [Runtimes -> BOOLEAN]
    OBVIOUS
  <2>3. QED
    BY <2>1, <2>2 DEF TypeOK
<1>2. LeaseCount
  <2>1. \A e \in Runtimes : Users(e) = {}
    BY DEF Users
  <2>2. QED
    BY <2>1, FS_EmptySet DEF LeaseCount
<1>3. Using /\ Fresh /\ CurrentServes /\ Refreshes /\ Why /\ Timed /\ Ended /\ Tracked
  BY SMTT(30) DEF Using, Fresh, CurrentServes, Refreshes, Why, Timed, Ended, Tracked
<1>4. QED
  BY <1>1, <1>2, <1>3 DEF IInv

\* acquire() up to its await: a new entry is fresh, the current one serves.
LEMMA AcquireStep ==
  ASSUME IInv, NEW r \in Requests, Acquire(r)
  PROVE  IInv'
<1>0. TypeOK /\ Fresh /\ Using /\ CurrentServes
  BY DEF IInv
<1>1. PICK f \in Runtimes :
        /\ inFlight' = [inFlight EXCEPT ![f] = @ + 1]
        /\ uses' = [uses EXCEPT ![r] = f]
        /\ current' = f
        /\ \/ /\ current = None /\ f = nextId /\ nextId' = f + 1
              /\ load' = [load EXCEPT ![f] = "loading"]
           \/ f = current /\ nextId' = nextId /\ load' = load
  <2>1. CASE current = None
    BY <2>1 DEF Acquire, CreateEntry
  <2>2. CASE current # None
    BY <2>2 DEF Acquire
  <2>3. QED
    BY <2>1, <2>2
<1>2. /\ stage' = [stage EXCEPT ![r] = "loading"]
      /\ ~closed
      /\ UNCHANGED <<pool, retired, timer, closing, refreshing, retiring, closed,
                     shutdown, closeSet>>
  BY DEF Acquire
<1>3. /\ f < nextId'
      /\ nextId' >= nextId
      /\ \A e \in Runtimes \ {f} : (Born(e)' <=> Born(e)) /\ load'[e] = load[e]
      /\ load'[f] \in {"loading", "ready"}
      /\ ~retired[f] /\ closing[f] = "no"
  <2>1. CASE f = nextId /\ nextId' = f + 1 /\ load' = [load EXCEPT ![f] = "loading"]
    BY <1>0, <2>1 DEF TypeOK, Fresh, Born, Runtimes
  <2>2. CASE f = current /\ nextId' = nextId /\ load' = load
    BY <1>0, <2>2 DEF TypeOK, Fresh, CurrentServes, Born, Runtimes, None
  <2>3. QED
    BY <1>1, <2>1, <2>2
<1>4. TypeOK'
  <2>1. nextId' \in 1 .. MaxRuntimes + 1 /\ load' \in [Runtimes -> {"none", "loading", "ready", "failed"}]
    BY <1>0, <1>1, MaxRuntimesPositive DEF TypeOK, Runtimes
  <2>2. inFlight' \in [Runtimes -> Nat]
    BY <1>0, <1>1 DEF TypeOK
  <2>3. /\ uses' \in [Requests -> Runtimes \cup {None}]
        /\ stage' \in [Requests -> {"idle", "loading", "holding"}]
    BY <1>0, <1>1, <1>2 DEF TypeOK
  <2>4. QED
    BY <1>0, <1>1, <1>2, <2>1, <2>2, <2>3 DEF TypeOK
<1>5. LeaseCount'
  BY AcquireCounts
<1>6. Using'
  <2>1. pool'[f] # "ended"
    BY <1>2, <1>3 DEF IInv, Ended
  <2>2. \A q \in Requests \ {r} : stage'[q] = stage[q] /\ uses'[q] = uses[q]
    BY <1>0, <1>1, <1>2 DEF TypeOK
  <2>3. uses'[r] = f
    BY <1>0, <1>1 DEF TypeOK
  <2>4. QED
    BY <1>0, <1>2, <1>3, <2>1, <2>2, <2>3 DEF TypeOK, Using, Born, Runtimes
<1>7. Fresh'
  BY <1>0, <1>1, <1>2, <1>3 DEF Fresh, TypeOK, Born
<1>8. CurrentServes'
  BY <1>1, <1>2, <1>3 DEF CurrentServes
<1>9. Refreshes'
  BY <1>0, <1>1, <1>2, <1>3 DEF IInv, Refreshes, Fresh, TypeOK, Born, None, Runtimes
<1>10. Why' /\ Timed' /\ Ended'
  BY <1>0, <1>1, <1>2, <1>3 DEF IInv, TypeOK, Why, Timed, Ended, Fresh, Born
<1>11. Tracked'
  <2>1. inFlight' \in [Runtimes -> Nat] /\ \A e \in Runtimes : inFlight'[e] >= inFlight[e]
    BY <1>0, <1>1 DEF TypeOK
  <2>2. \A e \in Runtimes \ {f} : e # current
    BY <1>0, <1>1 DEF TypeOK, None, Runtimes
  <2>3. QED
    BY <1>0, <1>1, <1>2, <1>3, <2>1, <2>2 DEF IInv, Tracked, TypeOK
<1>12. QED
  BY <1>4, <1>5, <1>6, <1>7, <1>8, <1>9, <1>10, <1>11 DEF IInv

\* acquire() throws.
LEMMA AcquireFailsStep ==
  ASSUME IInv, NEW r \in Requests, AcquireFails(r)
  PROVE  IInv'
<1> USE DEF AcquireFails, GiveBack, managerVars
<1>0. TypeOK /\ LeaseCount /\ Using /\ Fresh
  BY DEF IInv
<1>1. uses[r] \in Runtimes /\ inFlight[uses[r]] \in Nat \ {0}
  BY <1>0, UserCounted DEF Using
<1>2. TypeOK'
  BY <1>0, <1>1, MaxRuntimesPositive DEF TypeOK, Runtimes, None
<1>3. LeaseCount'
  BY GiveBackCounts DEF IInv
<1>4. Using'
  BY <1>0, <1>1, MaxRuntimesPositive DEF IInv, TypeOK, Using, CurrentServes, Fresh, Born, Runtimes, None
<1>5. Fresh'
  BY <1>0, <1>1 DEF IInv, TypeOK, Fresh, Born, Using, CurrentServes, Refreshes, Runtimes, None
<1>6. CurrentServes' /\ Refreshes'
  BY <1>0, <1>1 DEF IInv, TypeOK, Fresh, Born, CurrentServes, Refreshes, Tracked, Runtimes, None
<1>7. Why' /\ Timed' /\ Ended'
  BY <1>0, <1>1 DEF IInv, TypeOK, Fresh, Born, Using, CurrentServes, Refreshes, Why, Timed, Ended, Runtimes, None
<1>8. Tracked'
  BY <1>0, <1>1 DEF IInv, TypeOK, Fresh, Born, Using, CurrentServes, Refreshes, Why, Timed, Ended, Tracked, Runtimes, None
<1>9. QED
  BY <1>2, <1>3, <1>4, <1>5, <1>6, <1>7, <1>8 DEF IInv

\* acquire() returns a lease.
LEMMA AcquireReturnsStep ==
  ASSUME IInv, NEW r \in Requests, AcquireReturns(r)
  PROVE  IInv'
<1> USE DEF AcquireReturns, entryVars, managerVars
<1>0. TypeOK /\ LeaseCount /\ Using /\ Fresh
  BY DEF IInv
<1>2. TypeOK'
  BY <1>0, MaxRuntimesPositive DEF TypeOK, Runtimes, None
<1>3. LeaseCount'
  BY ReturnCounts DEF IInv
<1>4. Using'
  BY <1>0, MaxRuntimesPositive DEF IInv, TypeOK, Using, CurrentServes, Fresh, Born, Runtimes, None
<1>5. Fresh'
  BY <1>0 DEF IInv, TypeOK, Fresh, Born, Using, CurrentServes, Refreshes, Runtimes, None
<1>6. CurrentServes' /\ Refreshes'
  BY <1>0 DEF IInv, TypeOK, Fresh, Born, CurrentServes, Refreshes, Tracked, Runtimes, None
<1>7. Why' /\ Timed' /\ Ended'
  BY <1>0 DEF IInv, TypeOK, Fresh, Born, Using, CurrentServes, Refreshes, Why, Timed, Ended, Runtimes, None
<1>8. Tracked'
  BY <1>0 DEF IInv, TypeOK, Fresh, Born, Using, CurrentServes, Refreshes, Why, Timed, Ended, Tracked, Runtimes, None
<1>9. QED
  BY <1>2, <1>3, <1>4, <1>5, <1>6, <1>7, <1>8 DEF IInv

\* release(): the last user of a retired entry closes it.
LEMMA ReleaseStep ==
  ASSUME IInv, NEW r \in Requests, Release(r)
  PROVE  IInv'
<1>0. TypeOK /\ LeaseCount /\ Using /\ Fresh
  BY DEF IInv
<1>1. stage[r] = "holding" /\ GiveBack(r)
  BY DEF Release
<1>2. PICK f \in Runtimes : f = uses[r] /\ Born(f) /\ inFlight[f] \in Nat \ {0}
  BY <1>0, <1>1, UserCounted DEF Using
<1>3. /\ inFlight' = [inFlight EXCEPT ![f] = @ - 1]
      /\ stage' = [stage EXCEPT ![r] = "idle"]
      /\ uses' = [uses EXCEPT ![r] = None]
      /\ UNCHANGED <<nextId, load, pool, retired, current, refreshing, retiring,
                     closed, shutdown, closeSet>>
  BY <1>1, <1>2 DEF Release, GiveBack, managerVars
\* What happens to the entry, and only to it.
<1>4. /\ closing' \in [Runtimes -> {"no", "requested", "settled"}]
      /\ timer' \in [Runtimes -> {"off", "armed", "fired"}]
      /\ \A e \in Runtimes : closing[e] # "no" => closing'[e] # "no"
      /\ \A e \in Runtimes : closing'[e] = "no" => timer'[e] = timer[e]
      /\ \A e \in Runtimes : timer[e] = "fired" => timer'[e] = "fired"
      /\ \A e \in Runtimes : timer[e] = "off" => timer'[e] = "off"
      /\ \A e \in Runtimes \ {f} : closing'[e] = closing[e] /\ timer'[e] = timer[e]
      /\ retired[f] /\ inFlight[f] = 1 => closing'[f] # "no"
      /\ ~(retired[f] /\ inFlight[f] = 1) => closing' = closing /\ timer' = timer
  <2>1. CASE retired[f] /\ inFlight[f] = 1
    <3>1. CloseEntries({f})
      BY <1>2, <2>1 DEF Release
    <3>2. QED
      BY <1>0, <2>1, <3>1 DEF CloseEntries, TypeOK
  <2>2. CASE ~(retired[f] /\ inFlight[f] = 1)
    <3>1. closing' = closing /\ timer' = timer
      BY <1>2, <2>2 DEF Release
    <3>2. QED
      BY <1>0, <2>2, <3>1 DEF TypeOK
  <2>3. QED
    BY <2>1, <2>2
<1>5. TypeOK'
  <2>1. inFlight' \in [Runtimes -> Nat]
    <3>1. inFlight[f] - 1 \in Nat
      BY <1>2
    <3>2. QED
      BY <1>0, <1>3, <3>1 DEF TypeOK
  <2>2. /\ uses' \in [Requests -> Runtimes \cup {None}]
        /\ stage' \in [Requests -> {"idle", "loading", "holding"}]
    BY <1>0, <1>3 DEF TypeOK
  <2>3. QED
    BY <1>0, <1>3, <1>4, <2>1, <2>2 DEF TypeOK
<1>6. LeaseCount'
  BY <1>1, GiveBackCounts
<1>7. Using'
  BY <1>0, <1>3 DEF TypeOK, Using, Born
<1>8. Fresh'
  BY <1>0, <1>2, <1>3, <1>4 DEF Fresh, Born
<1>9. CurrentServes'
  BY <1>3, <1>4, <1>2, <1>0 DEF IInv, CurrentServes, TypeOK, None
<1>10. Refreshes'
  BY <1>3, <1>4, <1>2, <1>0 DEF IInv, Refreshes, TypeOK, None
<1>11. Why'
  <2> SUFFICES ASSUME NEW e \in Runtimes, closing'[e] # "no"
                 PROVE  closed' \/ timer'[e] = "fired" \/ (retired'[e] /\ inFlight'[e] = 0)
    BY DEF Why
  <2>2. closing[e] # "no" => closed \/ timer[e] = "fired" \/ (retired[e] /\ inFlight[e] = 0)
    BY DEF IInv, Why
  <2>3. /\ closed' = closed /\ retired' = retired
        /\ timer[e] = "fired" => timer'[e] = "fired"
        /\ e # f => closing'[e] = closing[e]
    BY <1>3, <1>4
  <2>4. inFlight'[e] = IF e = f THEN inFlight[e] - 1 ELSE inFlight[e]
    BY <1>0, <1>3 DEF TypeOK
  <2>5. CASE e # f
    BY <2>2, <2>3, <2>4, <2>5
  <2>6. CASE e = f
    <3>1. inFlight[f] # 0 /\ (closing[f] = "no" => retired[f] /\ inFlight[f] = 1)
      BY <1>2, <1>4, <2>6
    <3>2. QED
      BY <2>2, <2>3, <2>4, <2>6, <3>1
  <2>7. QED
    BY <2>5, <2>6
<1>12. Timed' /\ Ended'
  <2>1. \A e \in Runtimes : timer'[e] # "off" => timer[e] # "off"
    BY <1>4
  <2>2. QED
    BY <1>3, <1>4, <2>1 DEF IInv, Timed, Ended
<1>13. Tracked'
  <2>1. \A e \in Runtimes : closing'[e] = "no" /\ retired[e] /\ inFlight[e] > 0 => inFlight'[e] > 0
    BY <1>0, <1>2, <1>3, <1>4 DEF TypeOK
  <2>2. QED
    BY <1>3, <1>4, <2>1 DEF IInv, Tracked, Born
<1>14. QED
  BY <1>5, <1>6, <1>7, <1>8, <1>9, <1>10, <1>11, <1>12, <1>13 DEF IInv

\* refresh() starts a load.
LEMMA StartRefreshStep ==
  ASSUME IInv, StartRefresh
  PROVE  IInv'
<1> USE DEF StartRefresh, CreateEntry, requestVars
<1>0. TypeOK /\ LeaseCount /\ Using /\ Fresh
  BY DEF IInv
<1>2. TypeOK'
  BY <1>0, MaxRuntimesPositive DEF TypeOK, Runtimes, None
<1>3. LeaseCount'
  BY OthersCount DEF IInv
<1>4. Using'
  BY <1>0, MaxRuntimesPositive DEF IInv, TypeOK, Using, CurrentServes, Fresh, Born, Runtimes, None
<1>5. Fresh'
  BY <1>0 DEF IInv, TypeOK, Fresh, Born, Using, CurrentServes, Refreshes, Runtimes, None
<1>6. CurrentServes' /\ Refreshes'
  BY <1>0 DEF IInv, TypeOK, Fresh, Born, CurrentServes, Refreshes, Tracked, Runtimes, None
<1>7. Why' /\ Timed' /\ Ended'
  BY <1>0 DEF IInv, TypeOK, Fresh, Born, Using, CurrentServes, Refreshes, Why, Timed, Ended, Runtimes, None
<1>8. Tracked'
  BY <1>0 DEF IInv, TypeOK, Fresh, Born, Using, CurrentServes, Refreshes, Why, Timed, Ended, Tracked, Runtimes, None
<1>9. QED
  BY <1>2, <1>3, <1>4, <1>5, <1>6, <1>7, <1>8 DEF IInv

\* a load succeeds.
LEMMA LoadOkStep ==
  ASSUME IInv, NEW n \in Runtimes, LoadOk(n)
  PROVE  IInv'
<1> USE DEF LoadOk, managerVars, requestVars
<1>0. TypeOK /\ LeaseCount /\ Using /\ Fresh
  BY DEF IInv
<1>2. TypeOK'
  BY <1>0, MaxRuntimesPositive DEF TypeOK, Runtimes, None
<1>3. LeaseCount'
  BY OthersCount DEF IInv
<1>4. Using'
  BY <1>0, MaxRuntimesPositive DEF IInv, TypeOK, Using, CurrentServes, Fresh, Born, Runtimes, None
<1>5. Fresh'
  BY <1>0 DEF IInv, TypeOK, Fresh, Born, Using, CurrentServes, Refreshes, Runtimes, None
<1>6. CurrentServes' /\ Refreshes'
  BY <1>0 DEF IInv, TypeOK, Fresh, Born, CurrentServes, Refreshes, Tracked, Runtimes, None
<1>7. Why' /\ Timed' /\ Ended'
  BY <1>0 DEF IInv, TypeOK, Fresh, Born, Using, CurrentServes, Refreshes, Why, Timed, Ended, Runtimes, None
<1>8. Tracked'
  BY <1>0 DEF IInv, TypeOK, Fresh, Born, Using, CurrentServes, Refreshes, Why, Timed, Ended, Tracked, Runtimes, None
<1>9. QED
  BY <1>2, <1>3, <1>4, <1>5, <1>6, <1>7, <1>8 DEF IInv

\* the load of a refresh succeeds: in service, the new entry serves and the old
\* one is closed or has users to close it; during shutdown the new one is closed.
LEMMA RefreshOkStep ==
  ASSUME IInv, NEW n \in Runtimes, RefreshOk(n)
  PROVE  IInv'
<1>0. TypeOK /\ LeaseCount /\ Using /\ Fresh /\ CurrentServes /\ Refreshes
  BY DEF IInv
<1>1. /\ load[n] = "loading" /\ n = refreshing /\ refreshing # None /\ Born(n)
      /\ load' = [load EXCEPT ![n] = "ready"]
      /\ pool' = [pool EXCEPT ![n] = "open"]
      /\ refreshing' = None
      /\ UNCHANGED <<nextId, inFlight, closed, shutdown, closeSet, stage, uses>>
  BY <1>0 DEF RefreshOk, requestVars, Runtimes, None, Fresh
<1>2. LeaseCount'
  BY <1>1, OthersCount DEF IInv
<1>3. CASE closed
  <2>1. /\ UNCHANGED <<current, retired, retiring>>
        /\ CloseEntries({n})
    BY <1>3 DEF RefreshOk
  <2>2. /\ closing' \in [Runtimes -> {"no", "requested", "settled"}]
        /\ timer' \in [Runtimes -> {"off", "armed", "fired"}]
        /\ closing'[n] # "no"
        /\ \A e \in Runtimes \ {n} : closing'[e] = closing[e] /\ timer'[e] = timer[e]
    BY <1>0, <2>1 DEF CloseEntries, TypeOK
  <2>3. TypeOK' /\ Using'
    BY <1>0, <1>1, <2>1, <2>2 DEF TypeOK, Using, Born, None
  <2>4. Fresh' /\ CurrentServes' /\ Refreshes'
    BY <1>0, <1>1, <1>3, <2>1, <2>2 DEF TypeOK, Fresh, CurrentServes, Refreshes, Born, None, Runtimes
  <2>5. Why' /\ Timed' /\ Ended'
    <3>1. timer'[n] # "off" => timer[n] # "off"
      BY <1>0, <2>1 DEF CloseEntries, TypeOK
    <3>2. QED
      BY <1>0, <1>1, <1>3, <2>1, <2>2, <3>1 DEF IInv, TypeOK, Why, Timed, Ended
  <2>6. Tracked'
    BY <1>0, <1>1, <1>3, <2>1, <2>2 DEF IInv, TypeOK, Tracked, Born
  <2>7. QED
    BY <1>2, <2>3, <2>4, <2>5, <2>6 DEF IInv
<1>4. CASE ~closed /\ current = None
  <2>1. current' = n /\ UNCHANGED <<retired, retiring, timer, closing>>
    BY <1>4 DEF RefreshOk
  <2>2. TypeOK' /\ Using'
    BY <1>0, <1>1, <2>1 DEF TypeOK, Using, Born, None
  <2>3. Fresh' /\ CurrentServes' /\ Refreshes'
    BY <1>0, <1>1, <1>4, <2>1 DEF TypeOK, Fresh, CurrentServes, Refreshes, Born, None, Runtimes
  <2>4. Why' /\ Timed' /\ Ended'
    BY <1>0, <1>1, <1>4, <2>1 DEF IInv, TypeOK, Why, Timed, Ended
  <2>5. Tracked'
    BY <1>0, <1>1, <1>4, <2>1 DEF IInv, TypeOK, Tracked, Born, Runtimes, None
  <2>6. QED
    BY <1>2, <2>2, <2>3, <2>4, <2>5 DEF IInv
<1>5. CASE ~closed /\ current # None
  <2>0. PICK o \in Runtimes : o = current /\ o # n /\ Born(o)
    BY <1>0, <1>1, <1>5 DEF TypeOK, Refreshes, Fresh
  <2>1. current' = n /\ Retire(o)
    BY <1>5, <2>0 DEF RefreshOk
  <2>2. /\ retired' = [retired EXCEPT ![o] = TRUE]
        /\ retiring' = retiring \cup {o}
        /\ closing' \in [Runtimes -> {"no", "requested", "settled"}]
        /\ timer' \in [Runtimes -> {"off", "armed", "fired"}]
        /\ \A e \in Runtimes \ {o} : closing'[e] = closing[e] /\ timer'[e] = timer[e]
        /\ inFlight[o] = 0 => closing'[o] # "no"
        /\ inFlight[o] # 0 => closing'[o] = closing[o] /\ (HasGrace => timer'[o] = "armed")
    <3>1. CASE inFlight[o] = 0
      <4>1. CloseEntries({o})
        BY <2>1, <3>1 DEF Retire
      <4>2. QED
        BY <1>0, <2>1, <3>1, <4>1 DEF CloseEntries, TypeOK, Retire
    <3>2. CASE inFlight[o] # 0
      <4>1. closing' = closing /\ timer' = IF HasGrace THEN [timer EXCEPT ![o] = "armed"] ELSE timer
        BY <2>1, <3>2 DEF Retire
      <4>2. QED
        BY <1>0, <2>1, <3>2, <4>1 DEF TypeOK, Retire
    <3>3. QED
      BY <3>1, <3>2
  <2>3. TypeOK' /\ Using'
    BY <1>0, <1>1, <2>0, <2>1, <2>2 DEF TypeOK, Using, Born, None
  <2>4. Fresh' /\ CurrentServes' /\ Refreshes'
    BY <1>0, <1>1, <1>5, <2>0, <2>1, <2>2 DEF TypeOK, Fresh, CurrentServes, Refreshes, Born, None, Runtimes
  <2>5. Why' /\ Timed' /\ Ended'
    BY <1>0, <1>1, <1>5, <2>0, <2>1, <2>2 DEF IInv, TypeOK, Why, Timed, Ended, CurrentServes
  <2>6. Tracked'
    BY <1>0, <1>1, <1>5, <2>0, <2>1, <2>2 DEF IInv, TypeOK, Tracked, Born, None, Runtimes
  <2>7. QED
    BY <1>2, <2>3, <2>4, <2>5, <2>6 DEF IInv
<1>6. QED
  BY <1>3, <1>4, <1>5

\* a load fails.
LEMMA LoadFailsStep ==
  ASSUME IInv, NEW n \in Runtimes, LoadFails(n)
  PROVE  IInv'
<1> USE DEF LoadFails, requestVars
<1>0. TypeOK /\ LeaseCount /\ Using /\ Fresh
  BY DEF IInv
<1>2. TypeOK'
  BY <1>0, MaxRuntimesPositive DEF TypeOK, Runtimes, None
<1>3. LeaseCount'
  BY OthersCount DEF IInv
<1>4. Using'
  BY <1>0, MaxRuntimesPositive DEF IInv, TypeOK, Using, CurrentServes, Fresh, Born, Runtimes, None
<1>5. Fresh'
  BY <1>0 DEF IInv, TypeOK, Fresh, Born, Using, CurrentServes, Refreshes, Runtimes, None
<1>6. CurrentServes' /\ Refreshes'
  <2>1. CASE current = n
    BY <1>0, <2>1 DEF IInv, TypeOK, CurrentServes, Refreshes, Runtimes, None
  <2>2. CASE current # n
    BY <1>0, <2>2 DEF IInv, TypeOK, CurrentServes, Refreshes, Runtimes, None
  <2>3. QED
    BY <2>1, <2>2
<1>7. Why' /\ Timed' /\ Ended'
  BY <1>0 DEF IInv, TypeOK, Fresh, Born, Using, CurrentServes, Refreshes, Why, Timed, Ended, Runtimes, None
<1>8. Tracked'
  BY <1>0 DEF IInv, TypeOK, Fresh, Born, Using, CurrentServes, Refreshes, Why, Timed, Ended, Tracked, Runtimes, None
<1>9. QED
  BY <1>2, <1>3, <1>4, <1>5, <1>6, <1>7, <1>8 DEF IInv

\* a grace timer fires.
LEMMA GraceExpiresStep ==
  ASSUME IInv, NEW n \in Runtimes, GraceExpires(n)
  PROVE  IInv'
<1> USE DEF GraceExpires, managerVars, requestVars
<1>0. TypeOK /\ LeaseCount /\ Using /\ Fresh
  BY DEF IInv
<1>2. TypeOK'
  BY <1>0, MaxRuntimesPositive DEF TypeOK, Runtimes, None
<1>3. LeaseCount'
  BY OthersCount DEF IInv
<1>4. Using'
  BY <1>0, MaxRuntimesPositive DEF IInv, TypeOK, Using, CurrentServes, Fresh, Born, Runtimes, None
<1>5. Fresh'
  BY <1>0 DEF IInv, TypeOK, Fresh, Born, Using, CurrentServes, Refreshes, Runtimes, None
<1>6. CurrentServes' /\ Refreshes'
  BY <1>0 DEF IInv, TypeOK, CurrentServes, Refreshes, Timed
<1>7. Why' /\ Timed' /\ Ended'
  BY <1>0 DEF IInv, TypeOK, Fresh, Born, Using, CurrentServes, Refreshes, Why, Timed, Ended, Runtimes, None
<1>8. Tracked'
  BY <1>0 DEF IInv, TypeOK, Fresh, Born, Using, CurrentServes, Refreshes, Why, Timed, Ended, Tracked, Runtimes, None
<1>9. QED
  BY <1>2, <1>3, <1>4, <1>5, <1>6, <1>7, <1>8 DEF IInv

\* runtime.close() is called.
LEMMA EndPoolStep ==
  ASSUME IInv, NEW n \in Runtimes, EndPool(n)
  PROVE  IInv'
<1> USE DEF EndPool, managerVars, requestVars
<1>0. TypeOK /\ LeaseCount /\ Using /\ Fresh
  BY DEF IInv
<1>2. TypeOK'
  BY <1>0, MaxRuntimesPositive DEF TypeOK, Runtimes, None
<1>3. LeaseCount'
  BY OthersCount DEF IInv
<1>4. Using'
  BY <1>0, MaxRuntimesPositive DEF IInv, TypeOK, Using, CurrentServes, Fresh, Born, Runtimes, None
<1>5. Fresh'
  BY <1>0 DEF IInv, TypeOK, Fresh, Born, Using, CurrentServes, Refreshes, Runtimes, None
<1>6. CurrentServes' /\ Refreshes'
  BY <1>0 DEF IInv, TypeOK, Fresh, Born, CurrentServes, Refreshes, Tracked, Runtimes, None
<1>7. Why' /\ Timed' /\ Ended'
  BY <1>0 DEF IInv, TypeOK, Fresh, Born, Using, CurrentServes, Refreshes, Why, Timed, Ended, Runtimes, None
<1>8. Tracked'
  BY <1>0 DEF IInv, TypeOK, Fresh, Born, Using, CurrentServes, Refreshes, Why, Timed, Ended, Tracked, Runtimes, None
<1>9. QED
  BY <1>2, <1>3, <1>4, <1>5, <1>6, <1>7, <1>8 DEF IInv

\* runtime.close() settles.
LEMMA CloseSettlesStep ==
  ASSUME IInv, NEW n \in Runtimes, CloseSettles(n)
  PROVE  IInv'
<1> USE DEF CloseSettles, requestVars
<1>0. TypeOK /\ LeaseCount /\ Using /\ Fresh
  BY DEF IInv
<1>2. TypeOK'
  BY <1>0, MaxRuntimesPositive DEF TypeOK, Runtimes, None
<1>3. LeaseCount'
  BY OthersCount DEF IInv
<1>4. Using'
  BY <1>0, MaxRuntimesPositive DEF IInv, TypeOK, Using, CurrentServes, Fresh, Born, Runtimes, None
<1>5. Fresh'
  BY <1>0 DEF IInv, TypeOK, Fresh, Born, Using, CurrentServes, Refreshes, Runtimes, None
<1>6. CurrentServes' /\ Refreshes'
  BY <1>0 DEF IInv, TypeOK, Fresh, Born, CurrentServes, Refreshes, Tracked, Runtimes, None
<1>7. Why' /\ Timed' /\ Ended'
  BY <1>0 DEF IInv, TypeOK, Fresh, Born, Using, CurrentServes, Refreshes, Why, Timed, Ended, Runtimes, None
<1>8. Tracked'
  BY <1>0 DEF IInv, TypeOK, Fresh, Born, Using, CurrentServes, Refreshes, Why, Timed, Ended, Tracked, Runtimes, None
<1>9. QED
  BY <1>2, <1>3, <1>4, <1>5, <1>6, <1>7, <1>8 DEF IInv

\* close() up to its await.
LEMMA ShutdownStep ==
  ASSUME IInv, Shutdown
  PROVE  IInv'
<1> USE DEF Shutdown, Open, CloseEntries, requestVars
<1>0. TypeOK /\ LeaseCount /\ Using /\ Fresh
  BY DEF IInv
<1>2. TypeOK'
  BY <1>0, MaxRuntimesPositive DEF TypeOK, Runtimes, None
<1>3. LeaseCount'
  BY OthersCount DEF IInv
<1>4. Using'
  BY <1>0, MaxRuntimesPositive DEF IInv, TypeOK, Using, CurrentServes, Fresh, Born, Runtimes, None
<1>5. Fresh'
  BY <1>0 DEF IInv, TypeOK, Fresh, Born, Using, CurrentServes, Refreshes, Runtimes, None
<1>6. CurrentServes' /\ Refreshes'
  BY <1>0 DEF IInv, TypeOK, Fresh, Born, CurrentServes, Refreshes, Tracked, Runtimes, None
<1>7. Why' /\ Timed' /\ Ended'
  BY <1>0 DEF IInv, TypeOK, Fresh, Born, Using, CurrentServes, Refreshes, Why, Timed, Ended, Runtimes, None
<1>8. Tracked'
  BY <1>0 DEF IInv, TypeOK, Fresh, Born, Using, CurrentServes, Refreshes, Why, Timed, Ended, Tracked, Runtimes, None
<1>9. QED
  BY <1>2, <1>3, <1>4, <1>5, <1>6, <1>7, <1>8 DEF IInv

\* close() returns, and steps that change nothing.
LEMMA QuietStep ==
  ASSUME IInv, (\E timedOut \in BOOLEAN : ShutdownReturns(timedOut)) \/ UNCHANGED vars
  PROVE  IInv'
<1>1. /\ UNCHANGED <<nextId, load, pool, inFlight, retired, timer, closing, current,
                     refreshing, retiring, closed, closeSet, stage, uses>>
      /\ shutdown' \in {"no", "waiting", "returned"}
  BY DEF IInv, TypeOK, ShutdownReturns, entryVars, requestVars, vars
<1>2. TypeOK'
  BY <1>1 DEF IInv, TypeOK
<1>3. LeaseCount'
  BY <1>1, OthersCount DEF IInv
<1>4. /\ Using' /\ Fresh' /\ CurrentServes' /\ Refreshes'
      /\ Why' /\ Timed' /\ Ended' /\ Tracked'
  BY <1>1 DEF IInv, Using, Fresh, CurrentServes, Refreshes, Why, Timed, Ended, Tracked, Born
<1>5. QED
  BY <1>2, <1>3, <1>4 DEF IInv

LEMMA NextPreserves == IInv /\ [Next]_vars => IInv'
<1> SUFFICES ASSUME IInv, [Next]_vars PROVE IInv'
  OBVIOUS
<1>1. ASSUME NEW r \in Requests, RequestStep(r) PROVE IInv'
  BY <1>1, AcquireStep, AcquireFailsStep, AcquireReturnsStep, ReleaseStep DEF RequestStep
<1>2. ASSUME NEW e \in Runtimes, RuntimeStep(e) PROVE IInv'
  BY <1>2, LoadOkStep, RefreshOkStep, LoadFailsStep, GraceExpiresStep, EndPoolStep,
     CloseSettlesStep DEF RuntimeStep
<1>3. QED
  BY <1>1, <1>2, StartRefreshStep, ShutdownStep, QuietStep DEF Next

THEOREM Invariance == Spec => []IInv
  BY InitEstablishes, NextPreserves, PTL DEF Spec

-----------------------------------------------------------------------------
(* What follows from the invariant *)

\* entry.inFlight is exact, whatever loads, refreshes and shutdown do.
THEOREM LeaseCountHolds == Spec => []LeaseCount
  BY Invariance, PTL DEF IInv

\* New requests never get a runtime that failed, was replaced or is closing.
THEOREM CurrentServesHolds == Spec => []CurrentServes
  BY Invariance, PTL DEF IInv

LEMMA NotUnderLease == IInv => NoCloseUnderLease
<1> SUFFICES ASSUME IInv, NEW r \in Requests, stage[r] = "holding", pool[uses[r]] = "ended"
             PROVE  closed \/ timer[uses[r]] = "fired"
  BY DEF NoCloseUnderLease
<1>1. uses[r] \in Runtimes /\ inFlight[uses[r]] # 0
  BY UserCounted DEF IInv, Using
<1>2. closing[uses[r]] # "no"
  BY <1>1 DEF IInv, Ended
<1>3. QED
  BY <1>1, <1>2 DEF IInv, Why

\* A refresh never closes a pool under a running query: only the end of the
\* grace period and shutdown do.
THEOREM NoCloseUnderLeaseHolds == Spec => []NoCloseUnderLease
  BY Invariance, NotUnderLease, PTL

LEMMA NothingOrphaned == IInv => NoOrphanPool
<1> SUFFICES ASSUME IInv, NEW e \in Runtimes, pool[e] = "open", closing[e] = "no"
             PROVE  \/ e = current
                    \/ e \in retiring /\ inFlight[e] > 0 /\ (HasGrace => timer[e] = "armed")
  BY DEF NoOrphanPool
<1>1. Born(e)
  BY DEF IInv, Fresh
<1>2. load[e] = "ready"
  BY DEF IInv, Ended
<1>3. e # refreshing
  BY <1>2 DEF IInv, Refreshes, Runtimes, None
<1>4. QED
  BY <1>1, <1>2, <1>3 DEF IInv, Tracked

\* No open pool is forgotten: it is in service or somebody will close it.
THEOREM NoOrphanPoolHolds == Spec => []NoOrphanPool
  BY Invariance, NothingOrphaned, PTL

LEMMA AllReached == IInv => ShutdownReachesAll
  BY DEF IInv, Tracked, CurrentServes, ShutdownReachesAll, None, Runtimes

\* Shutdown closes every runtime ever built, the one a refresh is building too.
THEOREM ShutdownReachesAllHolds == Spec => []ShutdownReachesAll
  BY Invariance, AllReached, PTL

LEMMA OnlyReturnsLease ==
  ASSUME IInv, [Next]_vars, NEW r \in Requests, stage[r] # "holding", stage'[r] = "holding"
  PROVE  ~closed
<1>1. TypeOK
  BY DEF IInv
<1>2. ASSUME NEW q \in Requests, RequestStep(q) PROVE ~closed
  BY <1>1, <1>2 DEF RequestStep, Acquire, AcquireFails, AcquireReturns, Release, GiveBack, TypeOK
<1>3. stage' # stage
  OBVIOUS
<1>4. ASSUME NEW e \in Runtimes, RuntimeStep(e) PROVE FALSE
  BY <1>3, <1>4 DEF RuntimeStep, LoadOk, RefreshOk, LoadFails, GraceExpires, EndPool,
     CloseSettles, requestVars
<1>5. ~UNCHANGED vars /\ ~StartRefresh /\ ~Shutdown
  BY <1>3 DEF vars, StartRefresh, Shutdown, requestVars
<1>6. ASSUME NEW timedOut \in BOOLEAN, ShutdownReturns(timedOut) PROVE FALSE
  BY <1>3, <1>6 DEF ShutdownReturns, requestVars
<1>7. QED
  BY <1>2, <1>4, <1>5, <1>6 DEF Next

\* acquire() hands out no lease once shutdown has begun.
THEOREM NoLeaseAfterShutdownHolds == Spec => NoLeaseAfterShutdown
<1>1. IInv /\ [Next]_vars =>
        [\A r \in Requests : stage[r] # "holding" /\ stage'[r] = "holding" => ~closed]_vars
  BY OnlyReturnsLease
<1>2. QED
  BY <1>1, Invariance, PTL DEF Spec, NoLeaseAfterShutdown

-----------------------------------------------------------------------------
(* The contract is implemented *)

LEMMA InitRefines == Init => Contract!Init
  BY DEF Init, Contract!Init, Leases, Holders, Replaced, Expired

LEMMA RequestRefines ==
  ASSUME IInv, NEW r \in Requests, RequestStep(r)
  PROVE  [Contract!Next]_(Contract!vars)
<1>0. TypeOK /\ Using
  BY DEF IInv
<1>1. CASE Acquire(r)
  <2>1. /\ stage[r] = "idle" /\ stage' = [stage EXCEPT ![r] = "loading"]
        /\ \E f : uses' = [uses EXCEPT ![r] = f]
    BY <1>1 DEF Acquire
  <2>2. Leases' = Leases
    BY <1>0, <2>1 DEF Leases, Holders, TypeOK
  <2>3. QED
    BY <1>1, <2>2 DEF Acquire, Contract!vars, Replaced, Expired
<1>2. CASE AcquireFails(r)
  <2>1. stage[r] = "loading" /\ GiveBack(r)
    BY <1>2 DEF AcquireFails
  <2>2. Leases' = Leases
    BY <1>0, <2>1 DEF GiveBack, Leases, Holders, TypeOK
  <2>3. QED
    BY <1>2, <2>2 DEF AcquireFails, managerVars, Contract!vars, Replaced, Expired
\* The lease is granted on an open pool: requests that awaited the load are
\* answered before the pool ends.
<1>3. CASE AcquireReturns(r)
  <2>1. PICK f \in Runtimes : f = uses[r]
    BY <1>0, <1>3 DEF AcquireReturns, Using
  <2>2. pool[f] = "open"
    BY <1>0, <1>3, <2>1 DEF AcquireReturns, IInv, Using, Ended, TypeOK
  <2>3. \A e \in Runtimes : r \notin Leases[e]
    BY <1>3 DEF AcquireReturns, Leases, Holders
  <2>4. Leases' = [Leases EXCEPT ![f] = @ \cup {r}]
    <3>1. /\ stage' = [stage EXCEPT ![r] = "holding"]
          /\ uses' = uses
      BY <1>3 DEF AcquireReturns
    <3>2. Holders(f)' = Holders(f) \cup {r}
      BY <1>0, <2>1, <3>1 DEF Holders, TypeOK
    <3>3. \A e \in Runtimes \ {f} : Holders(e)' = Holders(e)
      BY <1>0, <2>1, <3>1 DEF Holders, TypeOK
    <3>4. QED
      BY <3>2, <3>3 DEF Leases
  <2>5. /\ UNCHANGED <<pool, closed, Replaced, Expired>>
        /\ ~closed
    BY <1>3 DEF AcquireReturns, entryVars, managerVars, Replaced, Expired
  <2>6. Contract!Lease(r, f)
    BY <2>2, <2>3, <2>4, <2>5 DEF Contract!Lease
  <2>7. QED
    BY <2>6 DEF Contract!Next
<1>4. CASE Release(r)
  <2>1. PICK f \in Runtimes : f = uses[r]
    BY <1>0, <1>4 DEF Release, Using
  <2>2. r \in Leases[f]
    BY <1>4, <2>1 DEF Release, Leases, Holders
  <2>3. Leases' = [Leases EXCEPT ![f] = @ \ {r}]
    <3>1. /\ stage' = [stage EXCEPT ![r] = "idle"]
          /\ uses' = [uses EXCEPT ![r] = None]
      BY <1>4 DEF Release, GiveBack
    <3>2. Holders(f)' = Holders(f) \ {r}
      BY <1>0, <2>1, <3>1 DEF Holders, TypeOK
    <3>3. \A e \in Runtimes \ {f} : Holders(e)' = Holders(e)
      BY <1>0, <2>1, <3>1 DEF Holders, TypeOK
    <3>4. QED
      BY <3>2, <3>3 DEF Leases
  <2>4. Expired' = Expired
    BY <1>0, <1>4, <2>1 DEF Release, CloseEntries, Expired, TypeOK
  <2>5. UNCHANGED <<pool, closed, Replaced>>
    BY <1>4 DEF Release, managerVars, Replaced
  <2>6. Contract!Return(r, f)
    BY <2>2, <2>3, <2>4, <2>5 DEF Contract!Return
  <2>7. QED
    BY <2>6 DEF Contract!Next
<1>5. QED
  BY <1>1, <1>2, <1>3, <1>4 DEF RequestStep

LEMMA RuntimeRefines ==
  ASSUME IInv, NEW e \in Runtimes, RuntimeStep(e)
  PROVE  [Contract!Next]_(Contract!vars)
<1>0. TypeOK /\ Leases' = Leases
  BY DEF IInv, RuntimeStep, LoadOk, RefreshOk, LoadFails, GraceExpires, EndPool, CloseSettles,
         requestVars, Leases, Holders
<1>1. CASE LoadOk(e)
  <2>1. pool[e] = "none"
    BY <1>0, <1>1 DEF LoadOk, IInv, Ended
  <2>2. /\ pool' = [pool EXCEPT ![e] = "open"]
        /\ UNCHANGED <<closed, Replaced, Expired>>
    BY <1>1 DEF LoadOk, managerVars, Replaced, Expired
  <2>3. {} \in SUBSET (Runtimes \ {e}) /\ Replaced' = Replaced \cup {}
    BY <2>2
  <2>4. Contract!Open(e)
    BY <1>0, <2>1, <2>2, <2>3 DEF Contract!Open
  <2>5. QED
    BY <2>4 DEF Contract!Next
<1>2. CASE RefreshOk(e)
  <2>1. pool[e] = "none" /\ pool' = [pool EXCEPT ![e] = "open"] /\ closed' = closed
    BY <1>0, <1>2 DEF RefreshOk, IInv, Ended
  <2>2. current # e
    BY <1>0, <1>2 DEF RefreshOk, IInv, Refreshes, None, Runtimes
  <2>3. Expired' = Expired /\ \E old \in SUBSET (Runtimes \ {e}) : Replaced' = Replaced \cup old
    <3>1. CASE closed \/ current = None
      <4>1. retired' = retired /\ (CloseEntries({e}) \/ timer' = timer)
        BY <1>2, <3>1 DEF RefreshOk
      <4>2. Replaced' = Replaced \cup {} /\ {} \in SUBSET (Runtimes \ {e})
        BY <4>1 DEF Replaced
      <4>3. Expired' = Expired
        BY <1>0, <4>1 DEF CloseEntries, Expired, TypeOK
      <4>4. QED
        BY <4>2, <4>3
    <3>2. CASE ~closed /\ current # None
      <4>1. PICK o \in Runtimes : o = current /\ Retire(o)
        BY <1>0, <1>2, <3>2 DEF RefreshOk, TypeOK
      <4>2. Replaced' = Replaced \cup {o} /\ {o} \in SUBSET (Runtimes \ {e})
        BY <1>0, <2>2, <4>1 DEF Retire, Replaced, TypeOK
      <4>3. ~retired[o] /\ timer[o] = "off"
        BY <1>0, <4>1 DEF IInv, CurrentServes, Timed, None, Runtimes
      <4>4. Expired' = Expired
        BY <1>0, <4>1, <4>3 DEF Retire, CloseEntries, Expired, TypeOK
      <4>5. QED
        BY <4>2, <4>4
    <3>3. QED
      BY <3>1, <3>2
  <2>4. Contract!Open(e)
    BY <1>0, <2>1, <2>3 DEF Contract!Open
  <2>5. QED
    BY <2>4 DEF Contract!Next
<1>3. CASE LoadFails(e)
  BY <1>0, <1>3 DEF LoadFails, Contract!vars, Replaced, Expired
<1>4. CASE GraceExpires(e)
  <2>1. e \in Replaced
    BY <1>4 DEF GraceExpires, IInv, Timed, Replaced
  <2>2. Expired' = Expired \cup {e}
    BY <1>0, <1>4 DEF GraceExpires, Expired, TypeOK
  <2>3. UNCHANGED <<pool, closed, Replaced>>
    BY <1>4 DEF GraceExpires, managerVars, Replaced
  <2>4. Contract!Expire(e)
    BY <1>0, <2>1, <2>2, <2>3 DEF Contract!Expire
  <2>5. QED
    BY <2>4 DEF Contract!Next
\* A pool ends on one of the grounds the invariant names.
<1>5. CASE EndPool(e)
  <2>1. closed \/ e \in Expired \/ (e \in Replaced /\ inFlight[e] = 0)
    BY <1>5 DEF EndPool, IInv, Why, Expired, Replaced
  <2>2. inFlight[e] = 0 => Leases[e] = {}
    <3>1. \A r \in Requests : stage[r] = "holding" /\ uses[r] = e => inFlight[e] # 0
      BY UserCounted DEF IInv
    <3>2. QED
      BY <3>1 DEF Leases, Holders
  <2>3. /\ pool[e] = "open" /\ pool' = [pool EXCEPT ![e] = "ended"]
        /\ UNCHANGED <<closed, Replaced, Expired>>
    BY <1>5 DEF EndPool, managerVars, Replaced, Expired
  <2>4. Contract!End(e)
    BY <1>0, <2>1, <2>2, <2>3 DEF Contract!End
  <2>5. QED
    BY <2>4 DEF Contract!Next
<1>6. CASE CloseSettles(e)
  BY <1>0, <1>6 DEF CloseSettles, Contract!vars, Replaced, Expired
<1>7. QED
  BY <1>1, <1>2, <1>3, <1>4, <1>5, <1>6 DEF RuntimeStep

LEMMA NextRefines ==
  ASSUME IInv, [Next]_vars
  PROVE  [Contract!Next]_(Contract!vars)
<1>1. CASE StartRefresh
  BY <1>1 DEF StartRefresh, requestVars, Contract!vars, Leases, Holders, Replaced, Expired
<1>2. CASE Shutdown
  <2>1. Expired' = Expired
    BY <1>2 DEF Shutdown, CloseEntries, Expired, IInv, TypeOK
  <2>2. Contract!Shutdown
    BY <1>2, <2>1 DEF Shutdown, requestVars, Contract!Shutdown, Leases, Holders, Replaced
  <2>3. QED
    BY <2>2 DEF Contract!Next
<1>3. ASSUME NEW timedOut \in BOOLEAN, ShutdownReturns(timedOut)
      PROVE  [Contract!Next]_(Contract!vars)
  BY <1>3 DEF ShutdownReturns, entryVars, requestVars, Contract!vars, Leases, Holders, Replaced, Expired
<1>4. CASE UNCHANGED vars
  BY <1>4 DEF vars, Contract!vars, Leases, Holders, Replaced, Expired
<1>5. QED
  BY <1>1, <1>2, <1>3, <1>4, RequestRefines, RuntimeRefines DEF Next

\* The manager implements RuntimeContract, whatever the number of requests and
\* runtimes: the steps of the manager are steps of the contract or change
\* nothing it can see.
THEOREM RefinesContract == Spec => ImplementsContract
<1>1. IInv /\ [Next]_vars => [Contract!Next]_(Contract!vars)
  BY NextRefines
<1>2. QED
  BY <1>1, InitRefines, Invariance, PTL DEF Spec, Contract!Spec, ImplementsContract

=============================================================================
