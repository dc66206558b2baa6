------------------------- MODULE PoolExecutionProofs -------------------------
(***************************************************************************)
(* Proofs about PoolExecution for every number of calls, connections and    *)
(* pool slots.                                                              *)
(***************************************************************************)
EXTENDS PoolExecution, TLAPS

Holding(r) == stage[r] \in {"handed", "reading", "settling"}

\* A call that holds a connection holds it alone.
Ownership ==
    \A r \in Calls : Holding(r) =>
        /\ conn[r] \in Threads
        /\ thread[conn[r]] \in {"owned", "lost"}
        /\ \A q \in Calls : q # r /\ Holding(q) => conn[q] # conn[r]

Owned ==
    \A t \in Threads : thread[t] = "owned" => \E r \in Calls : Holding(r) /\ conn[r] = t

\* On a connection the client still has, the server runs only the statement of
\* the call that holds it, and only while that call's read is not over.
Running ==
    \A t \in Threads : stmt[t] # NoCall /\ thread[t] \in {"unborn", "idle", "owned"} =>
        /\ conn[stmt[t]] = t
        /\ stage[stmt[t]] \in {"reading", "settling"}
        /\ read[stmt[t]] \in {"open", "overflow"}

Mine ==
    \A r \in Calls : Holding(r) =>
        /\ stmt[conn[r]] \in {r, NoCall}
        /\ stage[r] = "handed" => stmt[conn[r]] = NoCall

\* A KILL on its way is aimed at a thread that nobody else will use before it
\* has settled.
Killing ==
    \A r \in Calls : kill[r] = "inflight" =>
        /\ conn[r] \in Threads
        /\ stmt[conn[r]] \in {r, NoCall}
        /\ thread[conn[r]] \in {"destroyed", "lost"} \/ stage[r] \in {"reading", "settling"}

\* A KILL is sent exactly when the call is aborted during the read or stops
\* reading early.
Sent ==
    /\ \A r \in Calls :
         /\ stage[r] \in {"idle", "queued", "handed"} => kill[r] = "none"
         /\ stage[r] = "reading" => (kill[r] = "none" <=> ~aborted[r])
         /\ stage[r] = "settling" => kill[r] # "none"
    /\ \A t \in Threads : thread[t] = "destroyed" /\ stmt[t] # NoCall => kill[stmt[t]] # "none"

IInv ==
    /\ TypeOK
    /\ Ownership
    /\ Owned
    /\ Running
    /\ Mine
    /\ Killing
    /\ Sent
    /\ KillHitsOwnStatement

-----------------------------------------------------------------------------
(* The invariant is inductive *)

LEMMA InitEstablishes == Init => IInv
  BY NoCallFresh DEF Init, IInv, TypeOK, Ownership, Owned, Running, Mine, Killing, Sent,
     KillHitsOwnStatement, Holding

\* executeReadOnlySql() begins.
LEMMA CallStarts ==
  ASSUME IInv, NEW r \in Calls, Call(r)
  PROVE  IInv'
<1> USE NoCallFresh DEF Call, Become, Answer, Threads, NoThread
<1>0. TypeOK
  BY DEF IInv
<1>1. TypeOK'
  BY <1>0 DEF TypeOK
<1>2. Ownership'
  BY <1>0 DEF TypeOK, IInv, Ownership, Holding, Running, Owned
<1>3. Owned'
  BY <1>0 DEF TypeOK, IInv, Ownership, Holding, Owned
<1>4. Running'
  BY <1>0 DEF TypeOK, IInv, Ownership, Holding, Running, Mine
<1>5. Mine'
  BY <1>0 DEF TypeOK, IInv, Ownership, Holding, Running, Mine
<1>6. Killing'
  BY <1>0 DEF TypeOK, IInv, Ownership, Holding, Running, Mine, Killing, Sent
<1>7. Sent'
  BY <1>0 DEF TypeOK, IInv, Ownership, Holding, Running, Mine, Sent
<1>8. KillHitsOwnStatement'
  BY <1>0 DEF TypeOK, IInv, Killing, KillHitsOwnStatement
<1>9. QED
  BY <1>1, <1>2, <1>3, <1>4, <1>5, <1>6, <1>7, <1>8 DEF IInv

\* the pool hands out a connection.
LEMMA HandOutStep ==
  ASSUME IInv, NEW r \in Calls, NEW t \in Threads, HandOut(r, t)
  PROVE  IInv'
<1> USE NoCallFresh DEF Holding
<1>0. TypeOK /\ Ownership /\ Owned /\ Running /\ Mine /\ Killing /\ Sent /\ victims = {}
  BY DEF IInv, KillHitsOwnStatement
<1>1. /\ thread[t] \in {"idle", "unborn"}
      /\ stmt[t] = NoCall
      /\ (\A q \in Calls : Holding(q) => conn[q] # t)
      /\ (\A q \in Calls : kill[q] = "inflight" => conn[q] # t)
  BY <1>0 DEF HandOut, TypeOK, Ownership, Running, Mine, Killing, Sent, Threads
<1>2. CASE stage[r] = "queued"
  <2>1. /\ stage' = [stage EXCEPT ![r] = "handed"]
        /\ conn' = [conn EXCEPT ![r] = t]
        /\ thread' = [thread EXCEPT ![t] = "owned"]
        /\ pending' = pending \ {r}
        /\ UNCHANGED <<stmt, read, kill, aborted, result, victims>>
    BY <1>1, <1>2 DEF HandOut, Become
  <2>2. TypeOK'
    BY <1>0, <1>1, <1>2, <2>1 DEF TypeOK
  <2>3. Ownership'
    BY <1>0, <1>1, <1>2, <2>1 DEF TypeOK, Ownership
  <2>4. Owned'
    BY <1>0, <1>1, <1>2, <2>1 DEF TypeOK, Owned, Ownership
  <2>5. Running'
    BY <1>0, <1>1, <1>2, <2>1 DEF TypeOK, Running, Ownership, Mine
  <2>6. Mine'
    BY <1>0, <1>1, <1>2, <2>1 DEF TypeOK, Mine, Ownership
  <2>7. Killing'
    BY <1>0, <1>1, <1>2, <2>1 DEF TypeOK, Killing, Sent, Ownership, Mine
  <2>8. Sent'
    BY <1>0, <1>1, <1>2, <2>1 DEF TypeOK, Sent, Running, Mine, Ownership
  <2>9. QED
    BY <1>0, <2>1, <2>2, <2>3, <2>4, <2>5, <2>6, <2>7, <2>8 DEF IInv, KillHitsOwnStatement
<1>3. CASE stage[r] # "queued"
  <2>1. /\ thread' = [thread EXCEPT ![t] = "idle"]
        /\ pending' = pending \ {r}
        /\ UNCHANGED <<stage, conn, stmt, read, kill, aborted, result, victims>>
    BY <1>1, <1>3 DEF HandOut
  <2>2. TypeOK'
    BY <1>0, <1>1, <1>3, <2>1 DEF TypeOK
  <2>3. Ownership'
    BY <1>0, <1>1, <1>3, <2>1 DEF TypeOK, Ownership
  <2>4. Owned'
    BY <1>0, <1>1, <1>3, <2>1 DEF TypeOK, Owned, Ownership
  <2>5. Running'
    BY <1>0, <1>1, <1>3, <2>1 DEF TypeOK, Running, Ownership, Mine
  <2>6. Mine'
    BY <1>0, <1>1, <1>3, <2>1 DEF TypeOK, Mine, Ownership
  <2>7. Killing'
    BY <1>0, <1>1, <1>3, <2>1 DEF TypeOK, Killing, Sent, Ownership, Mine
  <2>8. Sent'
    BY <1>0, <1>1, <1>3, <2>1 DEF TypeOK, Sent, Running, Mine, Ownership
  <2>9. QED
    BY <1>0, <2>1, <2>2, <2>3, <2>4, <2>5, <2>6, <2>7, <2>8 DEF IInv, KillHitsOwnStatement
<1>4. QED
  BY <1>2, <1>3 DEF HandOut

\* the pool has no connection to give.
LEMMA HandOutFailsStep ==
  ASSUME IInv, NEW r \in Calls, HandOutFails(r)
  PROVE  IInv'
<1> USE NoCallFresh DEF HandOutFails, Become, Answer, Threads, NoThread
<1>0. TypeOK
  BY DEF IInv
<1>1. TypeOK'
  BY <1>0 DEF TypeOK
<1>2. Ownership'
  BY <1>0 DEF TypeOK, IInv, Ownership, Holding, Running, Owned
<1>3. Owned'
  BY <1>0 DEF TypeOK, IInv, Ownership, Holding, Owned
<1>4. Running'
  BY <1>0 DEF TypeOK, IInv, Ownership, Holding, Running, Mine
<1>5. Mine'
  BY <1>0 DEF TypeOK, IInv, Ownership, Holding, Running, Mine
<1>6. Killing'
  BY <1>0 DEF TypeOK, IInv, Ownership, Holding, Running, Mine, Killing, Sent
<1>7. Sent'
  BY <1>0 DEF TypeOK, IInv, Ownership, Holding, Running, Mine, Sent
<1>8. KillHitsOwnStatement'
  BY <1>0 DEF TypeOK, IInv, Killing, KillHitsOwnStatement
<1>9. QED
  BY <1>1, <1>2, <1>3, <1>4, <1>5, <1>6, <1>7, <1>8 DEF IInv

\* the statement is sent.
LEMMA StartReadStep ==
  ASSUME IInv, NEW r \in Calls, StartRead(r)
  PROVE  IInv'
<1> USE NoCallFresh DEF Holding
<1>0. TypeOK /\ Ownership /\ Owned /\ Running /\ Mine /\ Killing /\ Sent /\ victims = {}
  BY DEF IInv, KillHitsOwnStatement
<1>1. /\ stage[r] = "handed"
      /\ conn[r] \in Threads
      /\ stmt[conn[r]] = NoCall
      /\ (\A q \in Calls : kill[q] = "inflight" /\ conn[q] = conn[r] => thread[conn[r]] = "lost")
  BY <1>0 DEF StartRead, TypeOK, Ownership, Running, Mine, Killing, Sent, Threads
<1>2. CASE aborted[r]
  <2>1. /\ stage' = [stage EXCEPT ![r] = "done"]
        /\ result' = [result EXCEPT ![r] = "aborted"]
        /\ thread' = [thread EXCEPT ![conn[r]] = IF @ = "lost" THEN "lost" ELSE "idle"]
        /\ UNCHANGED <<stmt, read, pending, conn, kill, aborted, victims>>
    BY <1>1, <1>2 DEF StartRead, Become, Answer, Release
  <2>2. TypeOK'
    BY <1>0, <1>1, <1>2, <2>1 DEF TypeOK
  <2>3. Ownership'
    BY <1>0, <1>1, <1>2, <2>1 DEF TypeOK, Ownership
  <2>4. Owned'
    BY <1>0, <1>1, <1>2, <2>1 DEF TypeOK, Owned, Ownership
  <2>5. Running'
    BY <1>0, <1>1, <1>2, <2>1 DEF TypeOK, Running, Ownership, Mine
  <2>6. Mine'
    BY <1>0, <1>1, <1>2, <2>1 DEF TypeOK, Mine, Ownership
  <2>7. Killing'
    BY <1>0, <1>1, <1>2, <2>1 DEF TypeOK, Killing, Sent, Ownership, Mine
  <2>8. Sent'
    BY <1>0, <1>1, <1>2, <2>1 DEF TypeOK, Sent, Running, Mine, Ownership
  <2>9. QED
    BY <1>0, <2>1, <2>2, <2>3, <2>4, <2>5, <2>6, <2>7, <2>8 DEF IInv, KillHitsOwnStatement
<1>3. CASE ~aborted[r] /\ thread[conn[r]] = "lost"
  <2>1. /\ stage' = [stage EXCEPT ![r] = "reading"]
        /\ read' = [read EXCEPT ![r] = "failed"]
        /\ UNCHANGED <<stmt, thread, result, pending, conn, kill, aborted, victims>>
    BY <1>1, <1>3 DEF StartRead, Become
  <2>2. TypeOK'
    BY <1>0, <1>1, <1>3, <2>1 DEF TypeOK
  <2>3. Ownership'
    BY <1>0, <1>1, <1>3, <2>1 DEF TypeOK, Ownership
  <2>4. Owned'
    BY <1>0, <1>1, <1>3, <2>1 DEF TypeOK, Owned, Ownership
  <2>5. Running'
    BY <1>0, <1>1, <1>3, <2>1 DEF TypeOK, Running, Ownership, Mine
  <2>6. Mine'
    BY <1>0, <1>1, <1>3, <2>1 DEF TypeOK, Mine, Ownership
  <2>7. Killing'
    BY <1>0, <1>1, <1>3, <2>1 DEF TypeOK, Killing, Sent, Ownership, Mine
  <2>8. Sent'
    BY <1>0, <1>1, <1>3, <2>1 DEF TypeOK, Sent, Running, Mine, Ownership
  <2>9. QED
    BY <1>0, <2>1, <2>2, <2>3, <2>4, <2>5, <2>6, <2>7, <2>8 DEF IInv, KillHitsOwnStatement
<1>4. CASE ~aborted[r] /\ thread[conn[r]] # "lost"
  <2>1. /\ stage' = [stage EXCEPT ![r] = "reading"]
        /\ read' = [read EXCEPT ![r] = "open"]
        /\ stmt' = [stmt EXCEPT ![conn[r]] = r]
        /\ UNCHANGED <<thread, result, pending, conn, kill, aborted, victims>>
    BY <1>1, <1>4 DEF StartRead, Become
  <2>2. TypeOK'
    BY <1>0, <1>1, <1>4, <2>1 DEF TypeOK
  <2>3. Ownership'
    BY <1>0, <1>1, <1>4, <2>1 DEF TypeOK, Ownership
  <2>4. Owned'
    BY <1>0, <1>1, <1>4, <2>1 DEF TypeOK, Owned, Ownership
  <2>5. Running'
    BY <1>0, <1>1, <1>4, <2>1 DEF TypeOK, Running, Ownership, Mine
  <2>6. Mine'
    BY <1>0, <1>1, <1>4, <2>1 DEF TypeOK, Mine, Ownership
  <2>7. Killing'
    BY <1>0, <1>1, <1>4, <2>1 DEF TypeOK, Killing, Sent, Ownership, Mine
  <2>8. Sent'
    BY <1>0, <1>1, <1>4, <2>1 DEF TypeOK, Sent, Running, Mine, Ownership
  <2>9. QED
    BY <1>0, <2>1, <2>2, <2>3, <2>4, <2>5, <2>6, <2>7, <2>8 DEF IInv, KillHitsOwnStatement
<1>5. QED
  BY <1>2, <1>3, <1>4 DEF StartRead

\* the read has settled.
LEMMA FinishStep ==
  ASSUME IInv, NEW r \in Calls, Finish(r)
  PROVE  IInv'
<1> USE NoCallFresh DEF Holding
<1>0. TypeOK /\ Ownership /\ Owned /\ Running /\ Mine /\ Killing /\ Sent /\ victims = {}
  BY DEF IInv, KillHitsOwnStatement
<1>1. /\ stage[r] = "reading"
      /\ conn[r] \in Threads
      /\ stmt[conn[r]] \in {r, NoCall}
      /\ (\A q \in Calls \ {r} : kill[q] = "inflight" /\ conn[q] = conn[r] => thread[conn[r]] = "lost")
  BY <1>0 DEF Finish, TypeOK, Ownership, Running, Mine, Killing, Sent, Threads
<1>2. CASE aborted[r] /\ read[r] = "overflow"
  <2>1. /\ stage' = [stage EXCEPT ![r] = "done"]
        /\ result' = [result EXCEPT ![r] = "aborted"]
        /\ thread' = [thread EXCEPT ![conn[r]] = IF @ = "lost" THEN "lost" ELSE "destroyed"]
        /\ UNCHANGED <<stmt, pending, conn, read, kill, aborted, victims>>
    BY <1>1, <1>2 DEF Finish, Become, Answer, Destroy
  <2>2. TypeOK'
    BY <1>0, <1>1, <1>2, <2>1 DEF TypeOK
  <2>3. Ownership'
    BY <1>0, <1>1, <1>2, <2>1 DEF TypeOK, Ownership
  <2>4. Owned'
    BY <1>0, <1>1, <1>2, <2>1 DEF TypeOK, Owned, Ownership
  <2>5. Running'
    BY <1>0, <1>1, <1>2, <2>1 DEF TypeOK, Running, Ownership, Mine
  <2>6. Mine'
    BY <1>0, <1>1, <1>2, <2>1 DEF TypeOK, Mine, Ownership
  <2>7. Killing'
    BY <1>0, <1>1, <1>2, <2>1 DEF TypeOK, Killing, Sent, Ownership, Mine
  <2>8. Sent'
    BY <1>0, <1>1, <1>2, <2>1 DEF TypeOK, Sent, Running, Mine, Ownership
  <2>9. QED
    BY <1>0, <2>1, <2>2, <2>3, <2>4, <2>5, <2>6, <2>7, <2>8 DEF IInv, KillHitsOwnStatement
<1>3. CASE aborted[r] /\ read[r] # "overflow"
  <2>1. /\ stage' = [stage EXCEPT ![r] = "settling"]
        /\ result' = [result EXCEPT ![r] = "aborted"]
        /\ UNCHANGED <<thread, stmt, pending, conn, read, kill, aborted, victims>>
    BY <1>1, <1>3 DEF Finish, Become, Answer
  <2>2. TypeOK'
    BY <1>0, <1>1, <1>3, <2>1 DEF TypeOK
  <2>3. Ownership'
    BY <1>0, <1>1, <1>3, <2>1 DEF TypeOK, Ownership
  <2>4. Owned'
    BY <1>0, <1>1, <1>3, <2>1 DEF TypeOK, Owned, Ownership
  <2>5. Running'
    BY <1>0, <1>1, <1>3, <2>1 DEF TypeOK, Running, Ownership, Mine
  <2>6. Mine'
    BY <1>0, <1>1, <1>3, <2>1 DEF TypeOK, Mine, Ownership
  <2>7. Killing'
    BY <1>0, <1>1, <1>3, <2>1 DEF TypeOK, Killing, Sent, Ownership, Mine
  <2>8. Sent'
    BY <1>0, <1>1, <1>3, <2>1 DEF TypeOK, Sent, Running, Mine, Ownership
  <2>9. QED
    BY <1>0, <2>1, <2>2, <2>3, <2>4, <2>5, <2>6, <2>7, <2>8 DEF IInv, KillHitsOwnStatement
<1>4. CASE ~aborted[r] /\ read[r] = "overflow"
  <2>1. /\ stage' = [stage EXCEPT ![r] = "done"]
        /\ result' = [result EXCEPT ![r] = "rows"]
        /\ thread' = [thread EXCEPT ![conn[r]] = IF @ = "lost" THEN "lost" ELSE "destroyed"]
        /\ kill' = [kill EXCEPT ![r] = "inflight"]
        /\ UNCHANGED <<stmt, pending, conn, read, aborted, victims>>
    BY <1>1, <1>4 DEF Finish, Become, Answer, Destroy
  <2>2. TypeOK'
    BY <1>0, <1>1, <1>4, <2>1 DEF TypeOK
  <2>3. Ownership'
    BY <1>0, <1>1, <1>4, <2>1 DEF TypeOK, Ownership
  <2>4. Owned'
    BY <1>0, <1>1, <1>4, <2>1 DEF TypeOK, Owned, Ownership
  <2>5. Running'
    BY <1>0, <1>1, <1>4, <2>1 DEF TypeOK, Running, Ownership, Mine
  <2>6. Mine'
    BY <1>0, <1>1, <1>4, <2>1 DEF TypeOK, Mine, Ownership
  <2>7. Killing'
    BY <1>0, <1>1, <1>4, <2>1 DEF TypeOK, Killing, Sent, Ownership, Mine
  <2>8. Sent'
    BY <1>0, <1>1, <1>4, <2>1 DEF TypeOK, Sent, Running, Mine, Ownership
  <2>9. QED
    BY <1>0, <2>1, <2>2, <2>3, <2>4, <2>5, <2>6, <2>7, <2>8 DEF IInv, KillHitsOwnStatement
<1>5. CASE ~aborted[r] /\ read[r] # "overflow"
  <2>1. /\ read[r] # "open"
        /\ stage' = [stage EXCEPT ![r] = "done"]
        /\ \E v \in {"rows", "error"} : result' = [result EXCEPT ![r] = v]
        /\ thread' = [thread EXCEPT ![conn[r]] = IF @ = "lost" THEN "lost" ELSE "idle"]
        /\ UNCHANGED <<stmt, pending, conn, read, kill, aborted, victims>>
    BY <1>1, <1>5 DEF Finish, Become, Answer, Release
  <2>2. TypeOK'
    BY <1>0, <1>1, <1>5, <2>1 DEF TypeOK
  <2>3. Ownership'
    BY <1>0, <1>1, <1>5, <2>1 DEF TypeOK, Ownership
  <2>4. Owned'
    BY <1>0, <1>1, <1>5, <2>1 DEF TypeOK, Owned, Ownership
  <2>5. Running'
    BY <1>0, <1>1, <1>5, <2>1 DEF TypeOK, Running, Ownership, Mine
  <2>6. Mine'
    BY <1>0, <1>1, <1>5, <2>1 DEF TypeOK, Mine, Ownership
  <2>7. Killing'
    BY <1>0, <1>1, <1>5, <2>1 DEF TypeOK, Killing, Sent, Ownership, Mine
  <2>8. Sent'
    BY <1>0, <1>1, <1>5, <2>1 DEF TypeOK, Sent, Running, Mine, Ownership
  <2>9. QED
    BY <1>0, <2>1, <2>2, <2>3, <2>4, <2>5, <2>6, <2>7, <2>8 DEF IInv, KillHitsOwnStatement
<1>6. QED
  BY <1>2, <1>3, <1>4, <1>5 DEF Finish

\* the signal aborts.
LEMMA AbortStep ==
  ASSUME IInv, NEW r \in Calls, Abort(r)
  PROVE  IInv'
<1> USE NoCallFresh DEF Holding
<1>0. TypeOK /\ Ownership /\ Owned /\ Running /\ Mine /\ Killing /\ Sent /\ victims = {}
  BY DEF IInv, KillHitsOwnStatement
<1>2. CASE stage[r] \in {"idle", "handed", "settling", "done"}
  <2>1. /\ aborted' = [aborted EXCEPT ![r] = TRUE]
        /\ UNCHANGED <<thread, stage, result, kill, stmt, pending, conn, read, victims>>
    BY <1>2 DEF Abort
  <2>2. TypeOK'
    BY <1>0, <1>2, <2>1 DEF TypeOK
  <2>3. Ownership'
    BY <1>0, <1>2, <2>1 DEF TypeOK, Ownership
  <2>4. Owned'
    BY <1>0, <1>2, <2>1 DEF TypeOK, Owned, Ownership
  <2>5. Running'
    BY <1>0, <1>2, <2>1 DEF TypeOK, Running, Ownership, Mine
  <2>6. Mine'
    BY <1>0, <1>2, <2>1 DEF TypeOK, Mine, Ownership
  <2>7. Killing'
    BY <1>0, <1>2, <2>1 DEF TypeOK, Killing, Sent, Ownership, Mine
  <2>8. Sent'
    BY <1>0, <1>2, <2>1 DEF TypeOK, Sent, Running, Mine, Ownership
  <2>9. QED
    BY <1>0, <2>1, <2>2, <2>3, <2>4, <2>5, <2>6, <2>7, <2>8 DEF IInv, KillHitsOwnStatement
<1>3. CASE stage[r] = "queued"
  <2>1. /\ aborted' = [aborted EXCEPT ![r] = TRUE]
        /\ stage' = [stage EXCEPT ![r] = "done"]
        /\ result' = [result EXCEPT ![r] = "aborted"]
        /\ UNCHANGED <<thread, kill, stmt, pending, conn, read, victims>>
    BY <1>3 DEF Abort, Become, Answer
  <2>2. TypeOK'
    BY <1>0, <1>3, <2>1 DEF TypeOK
  <2>3. Ownership'
    BY <1>0, <1>3, <2>1 DEF TypeOK, Ownership
  <2>4. Owned'
    BY <1>0, <1>3, <2>1 DEF TypeOK, Owned, Ownership
  <2>5. Running'
    BY <1>0, <1>3, <2>1 DEF TypeOK, Running, Ownership, Mine
  <2>6. Mine'
    BY <1>0, <1>3, <2>1 DEF TypeOK, Mine, Ownership
  <2>7. Killing'
    BY <1>0, <1>3, <2>1 DEF TypeOK, Killing, Sent, Ownership, Mine
  <2>8. Sent'
    BY <1>0, <1>3, <2>1 DEF TypeOK, Sent, Running, Mine, Ownership
  <2>9. QED
    BY <1>0, <2>1, <2>2, <2>3, <2>4, <2>5, <2>6, <2>7, <2>8 DEF IInv, KillHitsOwnStatement
<1>4. CASE stage[r] = "reading" /\ read[r] = "open"
  <2>1. /\ aborted' = [aborted EXCEPT ![r] = TRUE]
        /\ stage' = [stage EXCEPT ![r] = "settling"]
        /\ result' = [result EXCEPT ![r] = "aborted"]
        /\ kill' = [kill EXCEPT ![r] = "inflight"]
        /\ UNCHANGED <<thread, stmt, pending, conn, read, victims>>
    BY <1>4 DEF Abort, Become, Answer
  <2>2. TypeOK'
    BY <1>0, <1>4, <2>1 DEF TypeOK
  <2>3. Ownership'
    BY <1>0, <1>4, <2>1 DEF TypeOK, Ownership
  <2>4. Owned'
    BY <1>0, <1>4, <2>1 DEF TypeOK, Owned, Ownership
  <2>5. Running'
    BY <1>0, <1>4, <2>1 DEF TypeOK, Running, Ownership, Mine
  <2>6. Mine'
    BY <1>0, <1>4, <2>1 DEF TypeOK, Mine, Ownership
  <2>7. Killing'
    BY <1>0, <1>4, <2>1 DEF TypeOK, Killing, Sent, Ownership, Mine
  <2>8. Sent'
    BY <1>0, <1>4, <2>1 DEF TypeOK, Sent, Running, Mine, Ownership
  <2>9. QED
    BY <1>0, <2>1, <2>2, <2>3, <2>4, <2>5, <2>6, <2>7, <2>8 DEF IInv, KillHitsOwnStatement
<1>5. CASE stage[r] = "reading" /\ read[r] # "open"
  <2>1. /\ aborted' = [aborted EXCEPT ![r] = TRUE]
        /\ kill' = [kill EXCEPT ![r] = "inflight"]
        /\ UNCHANGED <<thread, stage, result, stmt, pending, conn, read, victims>>
    BY <1>5 DEF Abort
  <2>2. TypeOK'
    BY <1>0, <1>5, <2>1 DEF TypeOK
  <2>3. Ownership'
    BY <1>0, <1>5, <2>1 DEF TypeOK, Ownership
  <2>4. Owned'
    BY <1>0, <1>5, <2>1 DEF TypeOK, Owned, Ownership
  <2>5. Running'
    BY <1>0, <1>5, <2>1 DEF TypeOK, Running, Ownership, Mine
  <2>6. Mine'
    BY <1>0, <1>5, <2>1 DEF TypeOK, Mine, Ownership
  <2>7. Killing'
    BY <1>0, <1>5, <2>1 DEF TypeOK, Killing, Sent, Ownership, Mine
  <2>8. Sent'
    BY <1>0, <1>5, <2>1 DEF TypeOK, Sent, Running, Mine, Ownership
  <2>9. QED
    BY <1>0, <2>1, <2>2, <2>3, <2>4, <2>5, <2>6, <2>7, <2>8 DEF IInv, KillHitsOwnStatement
<1>6. QED
  BY <1>2, <1>3, <1>4, <1>5 DEF Abort

\* the background wait is over.
LEMMA SettleStep ==
  ASSUME IInv, NEW r \in Calls, NEW timedOut \in BOOLEAN, Settle(r, timedOut)
  PROVE  IInv'
<1> USE NoCallFresh DEF Holding
<1>0. TypeOK /\ Ownership /\ Owned /\ Running /\ Mine /\ Killing /\ Sent /\ victims = {}
  BY DEF IInv, KillHitsOwnStatement
<1>1. /\ stage[r] = "settling"
      /\ conn[r] \in Threads
      /\ kill[r] # "none"
      /\ stmt[conn[r]] \in {r, NoCall}
      /\ (\A q \in Calls \ {r} : kill[q] = "inflight" /\ conn[q] = conn[r] => thread[conn[r]] = "lost")
  BY <1>0 DEF Settle, TypeOK, Ownership, Running, Mine, Killing, Sent, Threads
<1>2. CASE read[r] \in {"ended", "failed"} /\ kill[r] = "settled" /\ Release(conn[r])
  <2>1. /\ stage' = [stage EXCEPT ![r] = "done"]
        /\ thread' = [thread EXCEPT ![conn[r]] = IF @ = "lost" THEN "lost" ELSE "idle"]
        /\ UNCHANGED <<stmt, pending, conn, read, kill, aborted, result, victims>>
    BY <1>1, <1>2 DEF Settle, Become, Release
  <2>2. TypeOK'
    BY <1>0, <1>1, <1>2, <2>1 DEF TypeOK
  <2>3. Ownership'
    BY <1>0, <1>1, <1>2, <2>1 DEF TypeOK, Ownership
  <2>4. Owned'
    BY <1>0, <1>1, <1>2, <2>1 DEF TypeOK, Owned, Ownership
  <2>5. Running'
    BY <1>0, <1>1, <1>2, <2>1 DEF TypeOK, Running, Ownership, Mine
  <2>6. Mine'
    BY <1>0, <1>1, <1>2, <2>1 DEF TypeOK, Mine, Ownership
  <2>7. Killing'
    BY <1>0, <1>1, <1>2, <2>1 DEF TypeOK, Killing, Sent, Ownership, Mine
  <2>8. Sent'
    BY <1>0, <1>1, <1>2, <2>1 DEF TypeOK, Sent, Running, Mine, Ownership
  <2>9. QED
    BY <1>0, <2>1, <2>2, <2>3, <2>4, <2>5, <2>6, <2>7, <2>8 DEF IInv, KillHitsOwnStatement
<1>3. CASE Destroy(conn[r])
  <2>1. /\ stage' = [stage EXCEPT ![r] = "done"]
        /\ thread' = [thread EXCEPT ![conn[r]] = IF @ = "lost" THEN "lost" ELSE "destroyed"]
        /\ UNCHANGED <<stmt, pending, conn, read, kill, aborted, result, victims>>
    BY <1>1, <1>3 DEF Settle, Become, Destroy
  <2>2. TypeOK'
    BY <1>0, <1>1, <1>3, <2>1 DEF TypeOK
  <2>3. Ownership'
    BY <1>0, <1>1, <1>3, <2>1 DEF TypeOK, Ownership
  <2>4. Owned'
    BY <1>0, <1>1, <1>3, <2>1 DEF TypeOK, Owned, Ownership
  <2>5. Running'
    BY <1>0, <1>1, <1>3, <2>1 DEF TypeOK, Running, Ownership, Mine
  <2>6. Mine'
    BY <1>0, <1>1, <1>3, <2>1 DEF TypeOK, Mine, Ownership
  <2>7. Killing'
    BY <1>0, <1>1, <1>3, <2>1 DEF TypeOK, Killing, Sent, Ownership, Mine
  <2>8. Sent'
    BY <1>0, <1>1, <1>3, <2>1 DEF TypeOK, Sent, Running, Mine, Ownership
  <2>9. QED
    BY <1>0, <2>1, <2>2, <2>3, <2>4, <2>5, <2>6, <2>7, <2>8 DEF IInv, KillHitsOwnStatement
<1>4. QED
  BY <1>2, <1>3 DEF Settle

\* the read hears the end of its statement.
LEMMA ReadSettlesStep ==
  ASSUME IInv, NEW r \in Calls, ReadSettles(r)
  PROVE  IInv'
<1> USE NoCallFresh DEF ReadSettles, Threads, NoThread
<1>0. TypeOK
  BY DEF IInv
<1>1. TypeOK'
  BY <1>0 DEF TypeOK
<1>2. Ownership'
  BY <1>0 DEF TypeOK, IInv, Ownership, Holding, Running, Owned
<1>3. Owned'
  BY <1>0 DEF TypeOK, IInv, Ownership, Holding, Owned
<1>4. Running'
  BY <1>0 DEF TypeOK, IInv, Ownership, Holding, Running, Mine
<1>5. Mine'
  BY <1>0 DEF TypeOK, IInv, Ownership, Holding, Running, Mine
<1>6. Killing'
  BY <1>0 DEF TypeOK, IInv, Ownership, Holding, Running, Mine, Killing, Sent
<1>7. Sent'
  BY <1>0 DEF TypeOK, IInv, Ownership, Holding, Running, Mine, Sent
<1>8. KillHitsOwnStatement'
  BY <1>0 DEF TypeOK, IInv, Killing, KillHitsOwnStatement
<1>9. QED
  BY <1>1, <1>2, <1>3, <1>4, <1>5, <1>6, <1>7, <1>8 DEF IInv

\* the read exceeds the row cap.
LEMMA ReadOverflowsStep ==
  ASSUME IInv, NEW r \in Calls, ReadOverflows(r)
  PROVE  IInv'
<1> USE NoCallFresh DEF ReadOverflows, Threads, NoThread
<1>0. TypeOK
  BY DEF IInv
<1>1. TypeOK'
  BY <1>0 DEF TypeOK
<1>2. Ownership'
  BY <1>0 DEF TypeOK, IInv, Ownership, Holding, Running, Owned
<1>3. Owned'
  BY <1>0 DEF TypeOK, IInv, Ownership, Holding, Owned
<1>4. Running'
  BY <1>0 DEF TypeOK, IInv, Ownership, Holding, Running, Mine
<1>5. Mine'
  BY <1>0 DEF TypeOK, IInv, Ownership, Holding, Running, Mine
<1>6. Killing'
  BY <1>0 DEF TypeOK, IInv, Ownership, Holding, Running, Mine, Killing, Sent
<1>7. Sent'
  BY <1>0 DEF TypeOK, IInv, Ownership, Holding, Running, Mine, Sent
<1>8. KillHitsOwnStatement'
  BY <1>0 DEF TypeOK, IInv, Killing, KillHitsOwnStatement
<1>9. QED
  BY <1>1, <1>2, <1>3, <1>4, <1>5, <1>6, <1>7, <1>8 DEF IInv

\* a KILL ends the statement of its thread.
LEMMA KillLandsStep ==
  ASSUME IInv, NEW r \in Calls, KillLands(r)
  PROVE  IInv'
<1> USE NoCallFresh DEF KillLands, Threads, NoThread
<1>0. TypeOK
  BY DEF IInv
<1>1. TypeOK'
  BY <1>0 DEF TypeOK, IInv, Killing
<1>2. Ownership'
  BY <1>0 DEF TypeOK, IInv, Ownership, Holding, Running, Owned
<1>3. Owned'
  BY <1>0 DEF TypeOK, IInv, Ownership, Holding, Owned
<1>4. Running'
  BY <1>0 DEF TypeOK, IInv, Ownership, Holding, Running, Mine
<1>5. Mine'
  BY <1>0 DEF TypeOK, IInv, Ownership, Holding, Running, Mine
<1>6. Killing'
  BY <1>0 DEF TypeOK, IInv, Ownership, Holding, Running, Mine, Killing, Sent
<1>7. Sent'
  BY <1>0 DEF TypeOK, IInv, Ownership, Holding, Running, Mine, Sent
<1>8. KillHitsOwnStatement'
  BY <1>0 DEF TypeOK, IInv, Killing, KillHitsOwnStatement
<1>9. QED
  BY <1>1, <1>2, <1>3, <1>4, <1>5, <1>6, <1>7, <1>8 DEF IInv

\* a KILL fails.
LEMMA KillFailsStep ==
  ASSUME IInv, NEW r \in Calls, KillFails(r)
  PROVE  IInv'
<1> USE NoCallFresh DEF KillFails, Threads, NoThread
<1>0. TypeOK
  BY DEF IInv
<1>1. TypeOK'
  BY <1>0 DEF TypeOK
<1>2. Ownership'
  BY <1>0 DEF TypeOK, IInv, Ownership, Holding, Running, Owned
<1>3. Owned'
  BY <1>0 DEF TypeOK, IInv, Ownership, Holding, Owned
<1>4. Running'
  BY <1>0 DEF TypeOK, IInv, Ownership, Holding, Running, Mine
<1>5. Mine'
  BY <1>0 DEF TypeOK, IInv, Ownership, Holding, Running, Mine
<1>6. Killing'
  BY <1>0 DEF TypeOK, IInv, Ownership, Holding, Running, Mine, Killing, Sent
<1>7. Sent'
  BY <1>0 DEF TypeOK, IInv, Ownership, Holding, Running, Mine, Sent
<1>8. KillHitsOwnStatement'
  BY <1>0 DEF TypeOK, IInv, Killing, KillHitsOwnStatement
<1>9. QED
  BY <1>1, <1>2, <1>3, <1>4, <1>5, <1>6, <1>7, <1>8 DEF IInv

\* a statement ends by itself.
LEMMA StatementEndsStep ==
  ASSUME IInv, NEW t \in Threads, StatementEnds(t)
  PROVE  IInv'
<1> USE NoCallFresh DEF StatementEnds, Threads, NoThread
<1>0. TypeOK
  BY DEF IInv
<1>1. TypeOK'
  BY <1>0 DEF TypeOK
<1>2. Ownership'
  BY <1>0 DEF TypeOK, IInv, Ownership, Holding, Running, Owned
<1>3. Owned'
  BY <1>0 DEF TypeOK, IInv, Ownership, Holding, Owned
<1>4. Running'
  BY <1>0 DEF TypeOK, IInv, Ownership, Holding, Running, Mine
<1>5. Mine'
  BY <1>0 DEF TypeOK, IInv, Ownership, Holding, Running, Mine
<1>6. Killing'
  BY <1>0 DEF TypeOK, IInv, Ownership, Holding, Running, Mine, Killing, Sent
<1>7. Sent'
  BY <1>0 DEF TypeOK, IInv, Ownership, Holding, Running, Mine, Sent
<1>8. KillHitsOwnStatement'
  BY <1>0 DEF TypeOK, IInv, Killing, KillHitsOwnStatement
<1>9. QED
  BY <1>1, <1>2, <1>3, <1>4, <1>5, <1>6, <1>7, <1>8 DEF IInv

\* a socket dies.
LEMMA ConnectionLostStep ==
  ASSUME IInv, NEW t \in Threads, ConnectionLost(t)
  PROVE  IInv'
<1> USE NoCallFresh DEF ConnectionLost, Threads, NoThread
<1>0. TypeOK
  BY DEF IInv
<1>1. TypeOK'
  BY <1>0 DEF TypeOK
<1>2. Ownership'
  BY <1>0 DEF TypeOK, IInv, Ownership, Holding, Running, Owned
<1>3. Owned'
  BY <1>0 DEF TypeOK, IInv, Ownership, Holding, Owned
<1>4. Running'
  BY <1>0 DEF TypeOK, IInv, Ownership, Holding, Running, Mine
<1>5. Mine'
  BY <1>0 DEF TypeOK, IInv, Ownership, Holding, Running, Mine
<1>6. Killing'
  BY <1>0 DEF TypeOK, IInv, Ownership, Holding, Running, Mine, Killing, Sent
<1>7. Sent'
  BY <1>0 DEF TypeOK, IInv, Ownership, Holding, Running, Mine, Sent
<1>8. KillHitsOwnStatement'
  BY <1>0 DEF TypeOK, IInv, Killing, KillHitsOwnStatement
<1>9. QED
  BY <1>1, <1>2, <1>3, <1>4, <1>5, <1>6, <1>7, <1>8 DEF IInv

LEMMA NextPreserves == IInv /\ [Next]_vars => IInv'
<1> SUFFICES ASSUME IInv, [Next]_vars PROVE IInv'
  OBVIOUS
<1>1. ASSUME NEW r \in Calls, CallStep(r) PROVE IInv'
  <2>1. CASE \E t \in Threads : HandOut(r, t)
    BY <2>1, HandOutStep
  <2>2. CASE \E timedOut \in BOOLEAN : Settle(r, timedOut)
    BY <2>2, SettleStep
  <2>3. CASE Call(r) \/ HandOutFails(r) \/ StartRead(r) \/ Finish(r) \/ Abort(r)
    BY <2>3, CallStarts, HandOutFailsStep, StartReadStep, FinishStep, AbortStep
  <2>4. CASE ReadSettles(r) \/ ReadOverflows(r) \/ KillLands(r) \/ KillFails(r)
    BY <2>4, ReadSettlesStep, ReadOverflowsStep, KillLandsStep, KillFailsStep
  <2>5. QED
    BY <1>1, <2>1, <2>2, <2>3, <2>4 DEF CallStep
<1>2. ASSUME NEW t \in Threads, StatementEnds(t) \/ ConnectionLost(t) PROVE IInv'
  BY <1>2, StatementEndsStep, ConnectionLostStep
<1>3. CASE UNCHANGED vars
  BY <1>3 DEF vars, IInv, TypeOK, Ownership, Owned, Running, Mine, Killing, Sent,
     KillHitsOwnStatement, Holding
<1>4. QED
  BY <1>1, <1>2, <1>3 DEF Next

\* The strengthened invariant holds in every reachable state: who holds which
\* connection, what the server runs on it and where the KILLs are.
THEOREM Invariance == Spec => []IInv
<1>1. Init => IInv
  BY InitEstablishes
<1>2. IInv /\ [Next]_vars => IInv'
  BY NextPreserves
<1>3. QED
  BY <1>1, <1>2, PTL DEF Spec

-----------------------------------------------------------------------------
(* What the invariant shows *)

\* No KILL QUERY ends the statement of another call.
THEOREM KillHitsOwnStatementHolds == Spec => []KillHitsOwnStatement
<1>1. IInv => KillHitsOwnStatement
  BY DEF IInv
<1>2. QED
  BY <1>1, Invariance, PTL

\* A connection in the pool runs nothing and awaits no KILL.
THEOREM IdleIsCleanHolds == Spec => []IdleIsClean
<1>1. ASSUME IInv, NEW t \in Threads, thread[t] = "idle"
      PROVE  stmt[t] = NoCall /\ \A r \in Calls : conn[r] = t => kill[r] # "inflight"
  <2>1. \A r \in Calls : Holding(r) => conn[r] # t
    BY <1>1 DEF IInv, Ownership
  <2>2. stmt[t] = NoCall
    BY <1>1, <2>1 DEF IInv, TypeOK, Running, Holding
  <2>3. \A r \in Calls : conn[r] = t => kill[r] # "inflight"
    BY <1>1, <2>1 DEF IInv, Killing, Holding
  <2>4. QED
    BY <2>2, <2>3
<1>2. IInv => IdleIsClean
  BY <1>1 DEF IdleIsClean
<1>3. QED
  BY <1>2, Invariance, PTL

\* A connection outside the pool belongs to exactly one call.
THEOREM NoSlotLeakedHolds == Spec => []NoSlotLeaked
<1>1. ASSUME IInv, NEW t \in Threads, thread[t] = "owned"
      PROVE  \E r \in Calls : Owns(r, t) /\ \A q \in Calls \ {r} : ~Owns(q, t)
  <2>1. PICK r \in Calls : Holding(r) /\ conn[r] = t
    BY <1>1 DEF IInv, Owned
  <2>2. Owns(r, t)
    BY <2>1 DEF Holding, Owns
  <2>3. \A q \in Calls \ {r} : ~Owns(q, t)
    BY <1>1, <2>1 DEF IInv, Ownership, Holding, Owns
  <2>4. QED
    BY <2>2, <2>3
<1>2. IInv => NoSlotLeaked
  BY <1>1 DEF NoSlotLeaked
<1>3. QED
  BY <1>2, Invariance, PTL

\* A statement the client walked away from has been sent a KILL.
THEOREM AbandonedIsKilledHolds == Spec => []AbandonedIsKilled
<1>1. ASSUME IInv, NEW t \in Threads, NEW r \in Calls,
             stmt[t] = r, stage[r] \in {"settling", "done"}
      PROVE  kill[r] # "none" \/ thread[t] = "lost"
  <2>1. CASE stage[r] = "settling"
    BY <1>1, <2>1 DEF IInv, Sent
  <2>2. CASE stage[r] = "done" /\ thread[t] = "destroyed"
    BY <1>1, <2>2, NoCallFresh DEF IInv, Sent
  <2>3. CASE stage[r] = "done" /\ thread[t] \in {"unborn", "idle", "owned"}
    BY <1>1, <2>3, NoCallFresh DEF IInv, Running
  <2>4. QED
    BY <1>1, <2>1, <2>2, <2>3 DEF IInv, TypeOK
<1>2. IInv => AbandonedIsKilled
  BY <1>1 DEF AbandonedIsKilled
<1>3. QED
  BY <1>2, Invariance, PTL

\* Rows are never returned to a caller whose signal has aborted.
THEOREM NoRowsAfterAbortHolds == Spec => NoRowsAfterAbort
<1>1. ASSUME TypeOK, [Next]_vars, NEW r \in Calls,
             result[r] = "none", result'[r] = "rows"
      PROVE  ~aborted[r]
  <2>1. PICK q \in Calls : CallStep(q)
    BY <1>1 DEF Next, vars, StatementEnds, ConnectionLost
  <2>2. Call(q) \/ HandOutFails(q) \/ StartRead(q) \/ Finish(q) \/ Abort(q)
    BY <1>1, <2>1 DEF CallStep, HandOut, Settle, ReadSettles, ReadOverflows, KillLands, KillFails
  <2>3. Finish(q) /\ q = r
    BY <1>1, <2>2 DEF TypeOK, Call, HandOutFails, StartRead, Finish, Abort, Answer
  <2>4. QED
    BY <1>1, <2>3 DEF TypeOK, Finish, Answer
<1>2. TypeOK /\ [Next]_vars => [\A r \in Calls : result[r] = "none" /\ result'[r] = "rows" => ~aborted[r]]_vars
  BY <1>1
<1>3. IInv => TypeOK
  BY DEF IInv
<1>4. QED
  BY <1>2, <1>3, Invariance, PTL DEF Spec, NoRowsAfterAbort

==============================================================================
