------------------------- MODULE AnswerServerProofs -------------------------
(***************************************************************************)
(* Proofs about AnswerServer for every number of requests, refreshes,       *)
(* runtimes, inspections, table sets and cache entries.                     *)
(***************************************************************************)
EXTENDS AnswerServer, SequenceTheorems, TLAPS

-----------------------------------------------------------------------------
(* The inductive invariant.  CacheIsFresh needs to know that whoever may still *)
(* write (its generation is the cache's) holds a lease no older than the last   *)
(* clear.                                                                     *)

Working(r) == phase[r] \notin {"idle", "done"}

Writers ==
    \A r \in Requests : Working(r) =>
        /\ lease[r] \in Versions
        /\ began[r] <= generation
        /\ began[r] = generation => lease[r] >= clearedFor

Swaps ==
    /\ clearedFor <= current
    /\ refreshing # None => refreshing > current

LateIsDone == \A r \in late : phase[r] = "done"

Waiting ==
    \A r \in Requests :
        /\ phase[r] \in {"inspecting", "running"} => awaits[r] \in Inspections
        /\ phase[r] = "running" => inspection[awaits[r]] \in Databases

IInv ==
    /\ TypeOK
    /\ CacheIsFresh
    /\ NotReadyIsNotKept
    /\ NoLeaseLeaked
    /\ Writers
    /\ Swaps
    /\ LateIsDone
    /\ Waiting

-----------------------------------------------------------------------------
(* The cache *)

LEMMA PlaceOfKey ==
  ASSUME NEW c, NEW key \in Keys(c)
  PROVE  Place(c, key) \in 1 .. Len(c) /\ c[Place(c, key)].key = key
BY DEF Keys, Place

\* Deleting a key drops one entry and keeps the others.
LEMMA WithoutKeeps ==
  ASSUME NEW c \in Seq(Entries), NEW key \in Keys(c)
  PROVE  /\ Without(c, key) \in Seq(Entries)
         /\ Len(Without(c, key)) = Len(c) - 1
         /\ \A n \in 1 .. Len(Without(c, key)) : \E m \in 1 .. Len(c) : Without(c, key)[n] = c[m]
<1> DEFINE p == Place(c, key)
           before == SubSeq(c, 1, p - 1)
           after == SubSeq(c, p + 1, Len(c))
<1>1. p \in 1 .. Len(c) /\ Len(c) \in Nat
  BY PlaceOfKey, LenProperties
<1>2. \A i \in 1 .. Len(c) : c[i] \in Entries
  BY ElementOfSeq
<1> HIDE DEF p
<1>3. /\ before \in Seq(Entries)
      /\ Len(before) = p - 1
      /\ \A i \in 1 .. p - 1 : before[i] = c[i]
  <2>1. p - 1 \in Int /\ \A i \in 1 .. p - 1 : c[i] \in Entries
    BY <1>1, <1>2
  <2>2. /\ before \in Seq(Entries)
        /\ Len(before) = IF 1 <= p - 1 THEN (p - 1) - 1 + 1 ELSE 0
        /\ \A i \in 1 .. (p - 1) - 1 + 1 : before[i] = c[1 + i - 1]
    BY <2>1, SubSeqProperties
  <2> QED BY <2>2, <1>1
<1>4. /\ after \in Seq(Entries)
      /\ Len(after) = Len(c) - p
      /\ \A i \in 1 .. Len(c) - p : after[i] = c[p + i]
  <2>1. p + 1 \in Int /\ Len(c) \in Int /\ \A i \in p + 1 .. Len(c) : c[i] \in Entries
    BY <1>1, <1>2
  <2>2. /\ after \in Seq(Entries)
        /\ Len(after) = IF p + 1 <= Len(c) THEN Len(c) - (p + 1) + 1 ELSE 0
        /\ \A i \in 1 .. Len(c) - (p + 1) + 1 : after[i] = c[p + 1 + i - 1]
    BY <2>1, SubSeqProperties
  <2> QED BY <2>2, <1>1
<1>5. Without(c, key) = before \o after
  BY DEF Without, p
<1> HIDE DEF before, after
<1>6. /\ before \o after \in Seq(Entries)
      /\ Len(before \o after) = Len(before) + Len(after)
      /\ \A i \in 1 .. Len(before) + Len(after) :
           (before \o after)[i] = IF i <= Len(before) THEN before[i] ELSE after[i - Len(before)]
  BY <1>3, <1>4, ConcatProperties
<1>7. Len(before) + Len(after) = Len(c) - 1
  BY <1>1, <1>3, <1>4
<1>8. ASSUME NEW n \in 1 .. Len(before \o after)
      PROVE  \E m \in 1 .. Len(c) : (before \o after)[n] = c[m]
  <2>1. n \in 1 .. Len(c) - 1
    BY <1>6, <1>7
  <2>2. CASE n <= p - 1
    <3>1. (before \o after)[n] = c[n]
      BY <2>1, <2>2, <1>1, <1>3, <1>6, <1>7
    <3> QED BY <3>1, <2>1, <1>1
  <2>3. CASE ~ (n <= p - 1)
    <3>1. (before \o after)[n] = after[n - (p - 1)]
      BY <2>1, <2>3, <1>1, <1>3, <1>6, <1>7
    <3>2. n - (p - 1) \in 1 .. Len(c) - p
      BY <2>1, <2>3, <1>1
    <3>3. after[n - (p - 1)] = c[p + (n - (p - 1))]
      BY <3>2, <1>4
    <3>4. p + (n - (p - 1)) \in 1 .. Len(c)
      BY <3>2, <1>1
    <3> QED BY <3>1, <3>3, <3>4
  <2> QED BY <2>2, <2>3
<1> QED BY <1>5, <1>6, <1>7, <1>8

\* A hit keeps the entries and their number.
LEMMA TouchedKeeps ==
  ASSUME NEW c \in Seq(Entries), NEW key \in Keys(c)
  PROVE  /\ Touched(c, key) \in Seq(Entries)
         /\ Len(Touched(c, key)) = Len(c)
         /\ \A n \in 1 .. Len(Touched(c, key)) : \E m \in 1 .. Len(c) : Touched(c, key)[n] = c[m]
<1> DEFINE w == Without(c, key)
           e == c[Place(c, key)]
<1>1. /\ w \in Seq(Entries)
      /\ Len(w) = Len(c) - 1
      /\ \A n \in 1 .. Len(w) : \E m \in 1 .. Len(c) : w[n] = c[m]
  BY WithoutKeeps
<1>2. Place(c, key) \in 1 .. Len(c) /\ e \in Entries
  BY PlaceOfKey, ElementOfSeq
<1>3. Touched(c, key) = Append(w, e)
  BY DEF Touched
<1>4. Len(c) \in Nat /\ \E m \in 1 .. Len(c) : e = c[m]
  BY <1>2, LenProperties
<1> HIDE DEF w, e
<1>5. /\ Append(w, e) \in Seq(Entries)
      /\ Len(Append(w, e)) = Len(w) + 1
      /\ \A i \in 1 .. Len(w) : Append(w, e)[i] = w[i]
      /\ Append(w, e)[Len(w) + 1] = e
  BY <1>1, <1>2, AppendProperties
<1>6. ASSUME NEW n \in 1 .. Len(Append(w, e))
      PROVE  \E m \in 1 .. Len(c) : Append(w, e)[n] = c[m]
  <2>1. n \in 1 .. Len(w) \/ n = Len(w) + 1
    BY <1>1, <1>4, <1>5
  <2> QED BY <2>1, <1>1, <1>4, <1>5
<1>7. Len(Append(w, e)) = Len(c)
  BY <1>1, <1>4, <1>5
<1> QED BY <1>3, <1>5, <1>6, <1>7

\* A write keeps the bound and adds nothing but the new entry.
LEMMA StoredKeeps ==
  ASSUME NEW c \in Seq(Entries), Len(c) <= MaxEntries, NEW e \in Entries
  PROVE  /\ Stored(c, e) \in Seq(Entries)
         /\ Len(Stored(c, e)) <= MaxEntries
         /\ \A n \in 1 .. Len(Stored(c, e)) :
              Stored(c, e)[n] = e \/ \E m \in 1 .. Len(c) : Stored(c, e)[n] = c[m]
<1> USE BoundsPositive
<1>1. Len(c) \in Nat /\ \A n \in 1 .. Len(c) : c[n] \in Entries
  BY ElementOfSeq, LenProperties
<1>2. CASE e.key \in Keys(c)
  <2> DEFINE s == [n \in 1 .. Len(c) |-> IF c[n].key = e.key THEN e ELSE c[n]]
  <2>1. Stored(c, e) = s
    BY <1>2 DEF Stored
  <2>2. \A n \in 1 .. Len(c) : s[n] \in Entries
    BY <1>1
  <2>3. s \in Seq(Entries) /\ Len(s) = Len(c)
    BY <2>2, <1>1
  <2>4. \A n \in 1 .. Len(c) : s[n] = e \/ \E m \in 1 .. Len(c) : s[n] = c[m]
    OBVIOUS
  <2> HIDE DEF s
  <2> QED BY <2>1, <2>3, <2>4
<1>3. CASE e.key \notin Keys(c) /\ Len(c) = MaxEntries
  <2>1. Stored(c, e) = Append(Tail(c), e)
    BY <1>3 DEF Stored
  <2> DEFINE t == Tail(c)
  <2>2. c # <<>>
    BY <1>3, <1>1
  <2>3. /\ t \in Seq(Entries)
        /\ Len(t) = Len(c) - 1
        /\ \A i \in 1 .. Len(t) : t[i] = c[i + 1]
    BY <2>2, HeadTailProperties DEF t
  <2> HIDE DEF t
  <2>4. /\ Append(t, e) \in Seq(Entries)
        /\ Len(Append(t, e)) = Len(t) + 1
        /\ \A i \in 1 .. Len(t) : Append(t, e)[i] = t[i]
        /\ Append(t, e)[Len(t) + 1] = e
    BY <2>3, AppendProperties
  <2>5. ASSUME NEW n \in 1 .. Len(Append(t, e))
        PROVE  \/ Append(t, e)[n] = e
               \/ \E m \in 1 .. Len(c) : Append(t, e)[n] = c[m]
    <3>1. n \in 1 .. Len(t) \/ n = Len(t) + 1
      BY <1>1, <2>3, <2>4
    <3>2. CASE n \in 1 .. Len(t)
      <4>1. n + 1 \in 1 .. Len(c) /\ Append(t, e)[n] = c[n + 1]
        BY <3>2, <2>3, <2>4, <1>1
      <4> QED BY <4>1
    <3> QED BY <3>1, <3>2, <2>4
  <2> QED BY <2>1, <2>3, <2>4, <2>5, <1>1, <1>3 DEF t
<1>4. CASE e.key \notin Keys(c) /\ Len(c) # MaxEntries
  <2>1. Stored(c, e) = Append(c, e)
    BY <1>4 DEF Stored
  <2>2. /\ Append(c, e) \in Seq(Entries)
        /\ Len(Append(c, e)) = Len(c) + 1
        /\ \A i \in 1 .. Len(c) : Append(c, e)[i] = c[i]
        /\ Append(c, e)[Len(c) + 1] = e
    BY AppendProperties
  <2>3. MaxEntries \in Nat
    OBVIOUS
  <2>4. ASSUME NEW n \in 1 .. Len(Append(c, e))
        PROVE  Append(c, e)[n] = e \/ \E m \in 1 .. Len(c) : Append(c, e)[n] = c[m]
    <3>1. n \in 1 .. Len(c) \/ n = Len(c) + 1
      BY <1>1, <2>2
    <3> QED BY <3>1, <2>2
  <2> QED BY <2>1, <2>2, <2>3, <2>4, <1>1, <1>4
<1> QED BY <1>2, <1>3, <1>4

-----------------------------------------------------------------------------
(* Steps *)

LEMMA InitInvariant == Init => IInv
<1> SUFFICES ASSUME Init PROVE IInv
  OBVIOUS
<1> USE BoundsPositive DEF Init
<1>1. TypeOK
  <2>1. 1 \in Versions
    BY DEF Versions
  <2>2. cache \in Seq(Entries) /\ Len(cache) = 0
    BY EmptySeq
  <2> QED BY <2>1, <2>2 DEF TypeOK, Phases, Outcomes
<1>2. CacheIsFresh /\ NotReadyIsNotKept /\ NoLeaseLeaked
  BY DEF CacheIsFresh, NotReadyIsNotKept, NoLeaseLeaked
<1>3. Writers /\ Swaps /\ LateIsDone /\ Waiting
  BY DEF Writers, Working, Swaps, LateIsDone, Waiting, None
<1> QED BY <1>1, <1>2, <1>3 DEF IInv

LEMMA AskKeeps == ASSUME IInv, NEW r \in Requests, Ask(r) PROVE IInv'
<1> USE DEF IInv, TypeOK, Ask, Goes, refreshVars, schemaVars, cacheVars, Versions
<1>1. TypeOK'
  BY DEF Phases
<1>2. CacheIsFresh' /\ NotReadyIsNotKept' /\ Swaps'
  BY DEF CacheIsFresh, NotReadyIsNotKept, Swaps
<1>3. NoLeaseLeaked' /\ LateIsDone' /\ Waiting'
  BY DEF NoLeaseLeaked, LateIsDone, Waiting
<1>4. Writers'
  BY DEF Writers, Working, Swaps
<1> QED BY <1>1, <1>2, <1>3, <1>4

\* Joining or starting an inspection.
LEMMA SchemaKeeps ==
  ASSUME IInv, NEW r \in Requests, NEW refresh \in BOOLEAN,
         phase[r] \in {"acquiring", "pinging"}, GetDatabaseSchema(r, refresh),
         UNCHANGED <<database, refreshVars, cacheVars, kind, lease, late, began, aborted, outcome>>
  PROVE  IInv'
<1> USE DEF IInv, TypeOK, GetDatabaseSchema, Goes, refreshVars, schemaVars, cacheVars
<1>1. lease[r] \in Versions /\ Working(r)
  BY DEF Writers, Working
<1>2. TypeOK'
  BY <1>1 DEF Phases
<1>3. NotReadyIsNotKept'
  BY <1>1, ReadyDatabases, DatabaseNames DEF NotReadyIsNotKept
<1>4. CacheIsFresh' /\ Swaps'
  BY DEF CacheIsFresh, Swaps
<1>5. NoLeaseLeaked' /\ LateIsDone'
  BY DEF NoLeaseLeaked, LateIsDone
<1>6. Waiting'
  <2>1. awaits'[r] \in Inspections
    BY <1>1 DEF Inspections, None
  <2>2. \A q \in Requests : q # r => awaits'[q] = awaits[q] /\ phase'[q] = phase[q]
    BY <1>1
  <2>3. \A i \in Inspections : inspection[i] \in Databases => inspection'[i] = inspection[i]
    BY DatabaseNames
  <2>4. phase'[r] = "inspecting"
    BY <1>1
  <2> QED BY <2>1, <2>2, <2>3, <2>4 DEF Waiting
<1>7. Writers'
  BY DEF Writers, Working
<1> QED BY <1>2, <1>3, <1>4, <1>5, <1>6, <1>7

LEMMA AcquireReturnsKeeps == ASSUME IInv, NEW r \in Requests, AcquireReturns(r) PROVE IInv'
<1>1. CASE kind[r] = "probe"
  <2> USE <1>1 DEF IInv, TypeOK, AcquireReturns, Goes, refreshVars, schemaVars, cacheVars
  <2>1. TypeOK'
    BY DEF Phases
  <2>2. CacheIsFresh' /\ NotReadyIsNotKept' /\ Swaps'
    BY DEF CacheIsFresh, NotReadyIsNotKept, Swaps
  <2>3. NoLeaseLeaked' /\ LateIsDone' /\ Waiting'
    BY DEF NoLeaseLeaked, LateIsDone, Waiting
  <2>4. Writers'
    BY DEF Writers, Working
  <2> QED BY <2>1, <2>2, <2>3, <2>4
<1>2. CASE kind[r] # "probe"
  BY <1>2, SchemaKeeps DEF AcquireReturns
<1> QED BY <1>1, <1>2

LEMMA PingedKeeps == ASSUME IInv, NEW r \in Requests, Pinged(r) PROVE IInv'
BY SchemaKeeps DEF Pinged

LEMMA LateLeaseKeeps == ASSUME IInv, NEW r \in Requests, LateLease(r) PROVE IInv'
<1> USE DEF IInv, TypeOK, LateLease, refreshVars, schemaVars, cacheVars
<1>1. phase[r] = "done"
  BY DEF LateIsDone
<1>2. TypeOK'
  BY DEF None
<1>3. CacheIsFresh' /\ NotReadyIsNotKept' /\ Swaps' /\ LateIsDone' /\ Waiting'
  BY DEF CacheIsFresh, NotReadyIsNotKept, Swaps, LateIsDone, Waiting
<1>4. NoLeaseLeaked'
  BY DEF NoLeaseLeaked
<1>5. Writers'
  BY <1>1 DEF Writers, Working
<1> QED BY <1>2, <1>3, <1>4, <1>5

\* Answering while the cache stays as it is.
LEMMA AnswerKeeps ==
  ASSUME IInv, NEW r \in Requests, NEW o \in Outcomes, Working(r), Answer(r, o),
         UNCHANGED <<database, refreshVars, schemaVars, cacheVars, late>>
  PROVE  IInv'
<1> USE DEF IInv, TypeOK, Answer, Over, Goes, refreshVars, schemaVars, cacheVars
<1>1. TypeOK'
  BY DEF Phases, None
<1>2. CacheIsFresh' /\ NotReadyIsNotKept' /\ Swaps'
  BY DEF CacheIsFresh, NotReadyIsNotKept, Swaps
<1>3. NoLeaseLeaked' /\ LateIsDone'
  BY DEF NoLeaseLeaked, LateIsDone
<1>4. Waiting'
  BY DEF Waiting
<1>5. Writers'
  BY DEF Writers, Working
<1> QED BY <1>1, <1>2, <1>3, <1>4, <1>5

LEMMA SetupFailsKeeps == ASSUME IInv, NEW r \in Requests, SetupFails(r) PROVE IInv'
BY AnswerKeeps DEF SetupFails, Working, Outcomes

LEMMA NotReadyKeeps == ASSUME IInv, NEW r \in Requests, NotReady(r) PROVE IInv'
BY AnswerKeeps DEF NotReady, Working, Outcomes

LEMMA PrivilegesCheckedKeeps == ASSUME IInv, NEW r \in Requests, PrivilegesChecked(r) PROVE IInv'
BY AnswerKeeps DEF PrivilegesChecked, Working, Outcomes

LEMMA ProbeInspectedKeeps == ASSUME IInv, NEW r \in Requests, ProbeInspected(r) PROVE IInv'
<1>1. CASE Answer(r, "healthy")
  BY <1>1, AnswerKeeps DEF ProbeInspected, Working, Outcomes
<1>2. CASE Goes(r, "checking") /\ UNCHANGED <<lease, outcome, kind, awaits, began, aborted>>
  <2> USE <1>2 DEF IInv, TypeOK, ProbeInspected, Goes, refreshVars, schemaVars, cacheVars
  <2>1. TypeOK'
    BY DEF Phases
  <2>2. CacheIsFresh' /\ NotReadyIsNotKept' /\ Swaps'
    BY DEF CacheIsFresh, NotReadyIsNotKept, Swaps
  <2>3. NoLeaseLeaked' /\ LateIsDone' /\ Waiting'
    BY DEF NoLeaseLeaked, LateIsDone, Waiting
  <2>4. Writers'
    BY DEF Writers, Working
  <2> QED BY <2>1, <2>2, <2>3, <2>4
<1> QED BY <1>1, <1>2 DEF ProbeInspected

\* Whatever a step does to the cache, it adds no entry older than the last clear.
LEMMA CacheStepKeeps ==
  ASSUME IInv, NEW r \in Requests, Working(r), NEW o \in Outcomes,
         cache' \in Seq(Entries), Len(cache') <= MaxEntries,
         \A n \in 1 .. Len(cache') :
            cache'[n].version >= clearedFor \/ \E m \in 1 .. Len(cache) : cache'[n] = cache[m],
         \/ Answer(r, o)
         \/ /\ phase[r] = "inspecting" /\ Goes(r, "running")
            /\ inspection[awaits[r]] \in Ready
            /\ UNCHANGED <<lease, outcome, kind, awaits, began, aborted>>,
         UNCHANGED <<database, refreshVars, schemaVars, generation, late>>
  PROVE  IInv'
<1> USE DEF IInv, TypeOK, Answer, Over, Goes, refreshVars, schemaVars
<1>1. TypeOK'
  <2>1. CASE Answer(r, o)
    BY <2>1 DEF Phases, None
  <2>2. CASE /\ Goes(r, "running")
             /\ UNCHANGED <<lease, outcome, kind, awaits, began, aborted>>
    BY <2>2 DEF Phases
  <2> QED BY <2>1, <2>2
<1>2. CacheIsFresh'
  BY DEF CacheIsFresh
<1>3. NotReadyIsNotKept' /\ Swaps'
  BY DEF NotReadyIsNotKept, Swaps
<1>4. NoLeaseLeaked' /\ LateIsDone'
  BY DEF NoLeaseLeaked, LateIsDone, Working
<1>5. Waiting'
  BY ReadyDatabases DEF Waiting
<1>6. Writers'
  BY DEF Writers, Working
<1> QED BY <1>1, <1>2, <1>3, <1>4, <1>5, <1>6

LEMMA SchemaReadyKeeps == ASSUME IInv, NEW r \in Requests, SchemaReady(r) PROVE IInv'
<1> DEFINE key == SchemaVersion[inspection[awaits[r]]]
           runs == /\ Goes(r, "running")
                   /\ UNCHANGED <<lease, outcome, kind, awaits, began, aborted>>
<1>1. /\ Working(r) /\ phase[r] = "inspecting" /\ inspection[awaits[r]] \in Ready
      /\ UNCHANGED <<database, refreshVars, schemaVars, generation, late>>
      /\ cache \in Seq(Entries) /\ Len(cache) <= MaxEntries
  BY DEF SchemaReady, Working, IInv, TypeOK
<1>2. Len(cache) \in Nat /\ MaxEntries \in Nat
  BY <1>1, LenProperties, BoundsPositive
<1>3. CASE key \in Keys(cache) /\ cache' = Touched(cache, key) /\ Answer(r, "hit")
  <2>1. /\ cache' \in Seq(Entries) /\ Len(cache') <= MaxEntries
        /\ \A n \in 1 .. Len(cache') : \E m \in 1 .. Len(cache) : cache'[n] = cache[m]
    BY <1>1, <1>3, TouchedKeeps
  <2>2. "hit" \in Outcomes
    BY DEF Outcomes
  <2> QED BY <1>1, <1>3, <2>1, <2>2, CacheStepKeeps
<1>4. CASE key \in Keys(cache) /\ cache' = Without(cache, key) /\ runs
  <2>1. /\ cache' \in Seq(Entries) /\ Len(cache') <= MaxEntries
        /\ \A n \in 1 .. Len(cache') : \E m \in 1 .. Len(cache) : cache'[n] = cache[m]
    BY <1>1, <1>2, <1>4, WithoutKeeps
  <2>2. "hit" \in Outcomes
    BY DEF Outcomes
  <2> QED BY <1>1, <1>4, <2>1, <2>2, CacheStepKeeps
<1>5. CASE runs /\ UNCHANGED cache
  <2>1. "hit" \in Outcomes
    BY DEF Outcomes
  <2>2. \A n \in 1 .. Len(cache') : \E m \in 1 .. Len(cache) : cache'[n] = cache[m]
    BY <1>5
  <2> QED BY <1>1, <1>5, <2>1, <2>2, CacheStepKeeps
<1> QED BY <1>3, <1>4, <1>5 DEF SchemaReady

LEMMA RunEndsKeeps ==
  ASSUME IInv, NEW r \in Requests, NEW success \in BOOLEAN, RunEnds(r, success) PROVE IInv'
<1> DEFINE e == [key |-> SchemaVersion[inspection[awaits[r]]], version |-> lease[r]]
<1>1. /\ Working(r) /\ phase[r] = "running" /\ Answer(r, Verdict(r, success))
      /\ UNCHANGED <<database, refreshVars, schemaVars, generation, late>>
      /\ cache \in Seq(Entries) /\ Len(cache) <= MaxEntries
  BY DEF RunEnds, Working, IInv, TypeOK
<1>2. Verdict(r, success) \in Outcomes
  BY DEF Verdict, Outcomes
<1>3. CASE UNCHANGED cache
  <2>1. \A n \in 1 .. Len(cache') : \E m \in 1 .. Len(cache) : cache'[n] = cache[m]
    BY <1>3
  <2> QED BY <1>1, <1>2, <1>3, <2>1, CacheStepKeeps
<1>4. CASE began[r] = generation /\ cache' = Stored(cache, e)
  <2>1. lease[r] \in Versions /\ lease[r] >= clearedFor
    BY <1>1, <1>4 DEF IInv, Writers
  <2>2. inspection[awaits[r]] \in Databases
    BY <1>1 DEF IInv, Waiting
  <2>3. e \in Entries /\ e.version >= clearedFor
    BY <2>1, <2>2 DEF Entries
  <2> HIDE DEF e
  <2>4. /\ cache' \in Seq(Entries) /\ Len(cache') <= MaxEntries
        /\ \A n \in 1 .. Len(cache') :
             cache'[n] = e \/ \E m \in 1 .. Len(cache) : cache'[n] = cache[m]
    BY <1>1, <1>4, <2>3, StoredKeeps
  <2>5. \A n \in 1 .. Len(cache') :
             cache'[n].version >= clearedFor \/ \E m \in 1 .. Len(cache) : cache'[n] = cache[m]
    BY <2>3, <2>4
  <2> QED BY <1>1, <1>2, <2>4, <2>5, CacheStepKeeps
<1> QED BY <1>3, <1>4 DEF RunEnds, Store

LEMMA AbortKeeps == ASSUME IInv, NEW r \in Requests, Abort(r) PROVE IInv'
<1>1. Working(r)
  BY DEF Abort, Working
<1>2. CASE phase[r] = "running"
  <2> USE <1>2 DEF IInv, TypeOK, Abort, refreshVars, schemaVars, cacheVars
  <2>1. TypeOK'
    OBVIOUS
  <2>2. CacheIsFresh' /\ NotReadyIsNotKept' /\ Swaps'
    BY DEF CacheIsFresh, NotReadyIsNotKept, Swaps
  <2>3. NoLeaseLeaked' /\ LateIsDone' /\ Waiting'
    BY DEF NoLeaseLeaked, LateIsDone, Waiting
  <2>4. Writers'
    BY DEF Writers, Working
  <2> QED BY <2>1, <2>2, <2>3, <2>4
<1>3. CASE phase[r] = "acquiring"
  <2>1. /\ Over(r, "aborted") /\ late' = late \cup {r}
        /\ UNCHANGED <<lease, database, refreshVars, schemaVars, cacheVars>>
    BY <1>3 DEF Abort
  <2> USE <1>3, <2>1 DEF IInv, TypeOK, Over, Goes, refreshVars, schemaVars, cacheVars
  <2>2. TypeOK'
    BY DEF Phases, Outcomes, None
  <2>3. CacheIsFresh' /\ NotReadyIsNotKept' /\ Swaps'
    BY DEF CacheIsFresh, NotReadyIsNotKept, Swaps
  <2>4. NoLeaseLeaked' /\ LateIsDone'
    BY DEF NoLeaseLeaked, LateIsDone
  <2>5. Waiting'
    BY DEF Waiting
  <2>6. Writers'
    BY DEF Writers, Working
  <2> QED BY <2>2, <2>3, <2>4, <2>5, <2>6
<1>4. CASE phase[r] \in {"pinging", "inspecting", "checking"}
  BY <1>1, <1>4, AnswerKeeps DEF Abort, Outcomes
<1> QED BY <1>2, <1>3, <1>4 DEF Abort

LEMMA InspectionSettlesKeeps ==
  ASSUME IInv, NEW i \in Inspections, NEW result \in {"failed"} \cup Databases,
         InspectionSettles(i, result)
  PROVE  IInv'
<1> USE DEF IInv, TypeOK, InspectionSettles, Forget, refreshVars, cacheVars, requestVars
<1>1. TypeOK'
  OBVIOUS
<1>2. NotReadyIsNotKept'
  BY DEF NotReadyIsNotKept, Inspections, None
<1>3. Waiting'
  BY DatabaseNames DEF Waiting
<1>4. CacheIsFresh' /\ Swaps' /\ NoLeaseLeaked' /\ LateIsDone'
  BY DEF CacheIsFresh, Swaps, NoLeaseLeaked, LateIsDone
<1>5. Writers'
  BY DEF Writers, Working
<1> QED BY <1>1, <1>2, <1>3, <1>4, <1>5

LEMMA DatabaseChangesKeeps == ASSUME IInv, DatabaseChanges PROVE IInv'
BY DEF IInv, TypeOK, DatabaseChanges, refreshVars, schemaVars, cacheVars, CacheIsFresh,
       NotReadyIsNotKept, NoLeaseLeaked, Writers, Working, Swaps, LateIsDone, Waiting

LEMMA RefreshKeeps == ASSUME IInv, NEW a \in Admins, Refresh(a) PROVE IInv'
<1> USE DEF IInv, TypeOK, Refresh, schemaVars, cacheVars, requestVars
<1>1. TypeOK'
  BY BoundsPositive DEF Versions
<1>2. Swaps'
  BY DEF Swaps, Versions
<1>3. CacheIsFresh' /\ NotReadyIsNotKept' /\ NoLeaseLeaked' /\ LateIsDone' /\ Waiting'
  BY DEF CacheIsFresh, NotReadyIsNotKept, NoLeaseLeaked, LateIsDone, Waiting
<1>4. Writers'
  BY DEF Writers, Working
<1> QED BY <1>1, <1>2, <1>3, <1>4

LEMMA RefreshEndsKeeps == ASSUME IInv, NEW ok \in BOOLEAN, RefreshEnds(ok) PROVE IInv'
<1> USE DEF IInv, TypeOK, RefreshEnds, schemaVars, cacheVars, requestVars
<1>1. TypeOK'
  BY DEF None
<1>2. Swaps'
  BY DEF Swaps, Versions, None
<1>3. CacheIsFresh' /\ NotReadyIsNotKept' /\ NoLeaseLeaked' /\ LateIsDone' /\ Waiting'
  BY DEF CacheIsFresh, NotReadyIsNotKept, NoLeaseLeaked, LateIsDone, Waiting
<1>4. Writers'
  BY DEF Writers, Working
<1> QED BY <1>1, <1>2, <1>3, <1>4

LEMMA ClearCacheKeeps == ASSUME IInv, NEW a \in Admins, ClearCache(a) PROVE IInv'
<1> USE DEF IInv, TypeOK, ClearCache, schemaVars, requestVars
<1>1. cache' \in Seq(Entries) /\ Len(cache') = 0
  BY EmptySeq
<1>2. TypeOK'
  BY <1>1, BoundsPositive
<1>3. CacheIsFresh'
  BY <1>1 DEF CacheIsFresh
<1>4. Swaps'
  BY DEF Swaps, Versions
<1>5. NotReadyIsNotKept' /\ NoLeaseLeaked' /\ LateIsDone' /\ Waiting'
  BY DEF NotReadyIsNotKept, NoLeaseLeaked, LateIsDone, Waiting
<1>6. Writers'
  BY DEF Writers, Working
<1> QED BY <1>2, <1>3, <1>4, <1>5, <1>6

LEMMA StutterKeeps == ASSUME IInv, UNCHANGED vars PROVE IInv'
BY DEF IInv, TypeOK, vars, CacheIsFresh, NotReadyIsNotKept, NoLeaseLeaked, Writers, Working,
       Swaps, LateIsDone, Waiting

-----------------------------------------------------------------------------
(* Results *)

(* The inductive invariant holds in every reachable state.                     *)
THEOREM Invariance == Spec => []IInv
<1>1. IInv /\ [Next]_vars => IInv'
  BY AskKeeps, AcquireReturnsKeeps, LateLeaseKeeps, SetupFailsKeeps, PingedKeeps, NotReadyKeeps,
     ProbeInspectedKeeps, PrivilegesCheckedKeeps, SchemaReadyKeeps, RunEndsKeeps, AbortKeeps,
     InspectionSettlesKeeps, DatabaseChangesKeeps, RefreshKeeps, RefreshEndsKeeps,
     ClearCacheKeeps, StutterKeeps DEF Next
<1> QED BY InitInvariant, <1>1, PTL DEF Spec

(* No answer of a replaced runtime survives a refresh in the cache (index.js     *)
(* answerQuestion, result-cache.js set() and clear()).                          *)
THEOREM CacheIsFreshHolds == Spec => []CacheIsFresh
<1>1. IInv => CacheIsFresh
  BY DEF IInv
<1> QED BY Invariance, <1>1, PTL

(* A not-ready inspection is never joined by a new request (index.js            *)
(* getDatabaseSchema).                                                         *)
THEOREM NotReadyIsNotKeptHolds == Spec => []NotReadyIsNotKept
<1>1. IInv => NotReadyIsNotKept
  BY DEF IInv
<1> QED BY Invariance, <1>1, PTL

(* Every answered request has given its lease back, or onLate will.             *)
THEOREM NoLeaseLeakedHolds == Spec => []NoLeaseLeaked
<1>1. IInv => NoLeaseLeaked
  BY DEF IInv
<1> QED BY Invariance, <1>1, PTL

(* An answer that comes after the abort is neither reported nor cached.         *)
THEOREM NoAnswerAfterAbortHolds == Spec => NoAnswerAfterAbort
<1> DEFINE Quiet(r) == phase[r] = "running" /\ phase'[r] = "done" /\ aborted[r]
                          => outcome'[r] # "fresh" /\ cache' = cache
<1>1. ASSUME IInv, Next, NEW r \in Requests PROVE Quiet(r)
  <2>1. CASE \E success \in BOOLEAN : RunEnds(r, success)
    BY <1>1, <2>1 DEF RunEnds, Store, Verdict, Answer, Over, IInv, TypeOK
  <2>2. CASE ~ \E success \in BOOLEAN : RunEnds(r, success)
    <3>1. phase[r] = "running" => phase'[r] = "running"
      BY <1>1, <2>2 DEF Next, IInv, TypeOK, Ask, AcquireReturns, LateLease, SetupFails, Pinged,
         NotReady, ProbeInspected, PrivilegesChecked, SchemaReady, RunEnds, Abort, Answer, Over,
         Goes, GetDatabaseSchema, InspectionSettles, DatabaseChanges, Refresh, ClearCache,
         RefreshEnds, requestVars
    <3> QED BY <3>1
  <2> QED BY <2>1, <2>2
<1>2. IInv /\ [Next]_vars => [\A r \in Requests : Quiet(r)]_vars
  BY <1>1
<1> QED BY Invariance, <1>2, PTL DEF Spec, NoAnswerAfterAbort
=============================================================================
