---------------------------- MODULE PoolExecution ----------------------------
(***************************************************************************)
(* Cancellable, row-capped statements on the MariaDB pool                   *)
(* (executeReadOnlySql, executeOnPoolConnection, readRows and untilAborted  *)
(* in src/pipeline.js).  Each call takes a pool connection, runs one        *)
(* statement and gives the connection back; an abort answers the call at    *)
(* once, sends KILL QUERY to the server thread and leaves the connection to *)
(* a background wait.  A second statement must never meet a KILL that was    *)
(* meant for the first.                                                     *)
(*                                                                         *)
(* The mysql2 pool and the MariaDB server are external: the pool hands out  *)
(* idle connections in any order and opens up to Limit; the server runs the *)
(* statement of a thread until it ends or a KILL lands, also on a thread    *)
(* whose connection the client dropped.  Thread ids are not reused.         *)
(***************************************************************************)
EXTENDS Naturals, FiniteSets

CONSTANTS
    Calls,        \* calls of executeReadOnlySql, each with its own signal
    MaxThreads,   \* bound on the connections opened in one run
    Limit         \* connectionLimit of the pool

ASSUME CallsFinite == IsFiniteSet(Calls)
ASSUME MaxThreadsPositive == MaxThreads \in Nat \ {0}
ASSUME LimitPositive == Limit \in Nat \ {0}

Threads == 1 .. MaxThreads
NoThread == 0
NoCall == "no call"
ASSUME NoCallFresh == NoCall \notin Calls

VARIABLES
    thread,    \* connection: "unborn", "idle", "owned", "destroyed", "lost"
    stmt,      \* the call whose statement the server runs on a thread, or NoCall
    pending,   \* calls whose getConnection() the pool has not answered
    stage,     \* "idle", "queued", "handed", "reading", "settling" or "done"
    conn,      \* the thread a call owns or last owned
    read,      \* readRows promise: "none", "open", "ended", "failed", "overflow"
    kill,      \* KILL QUERY of a call: "none", "inflight", "settled"
    aborted,   \* the call's signal has aborted
    result,    \* what the caller got: "none", "rows", "error", "aborted"
    victims    \* calls whose statement was ended by the KILL of another call

vars == <<thread, stmt, pending, stage, conn, read, kill, aborted, result, victims>>

TypeOK ==
    /\ thread \in [Threads -> {"unborn", "idle", "owned", "destroyed", "lost"}]
    /\ stmt \in [Threads -> Calls \cup {NoCall}]
    /\ pending \subseteq Calls
    /\ stage \in [Calls -> {"idle", "queued", "handed", "reading", "settling", "done"}]
    /\ conn \in [Calls -> Threads \cup {NoThread}]
    /\ read \in [Calls -> {"none", "open", "ended", "failed", "overflow"}]
    /\ kill \in [Calls -> {"none", "inflight", "settled"}]
    /\ aborted \in [Calls -> BOOLEAN]
    /\ result \in [Calls -> {"none", "rows", "error", "aborted"}]
    /\ victims \subseteq Calls

Init ==
    /\ thread = [t \in Threads |-> "unborn"]
    /\ stmt = [t \in Threads |-> NoCall]
    /\ pending = {}
    /\ stage = [r \in Calls |-> "idle"]
    /\ conn = [r \in Calls |-> NoThread]
    /\ read = [r \in Calls |-> "none"]
    /\ kill = [r \in Calls |-> "none"]
    /\ aborted = [r \in Calls |-> FALSE]
    /\ result = [r \in Calls |-> "none"]
    /\ victims = {}

-----------------------------------------------------------------------------
(* Helpers *)

Become(r, s) == stage' = [stage EXCEPT ![r] = s]
Answer(r, v) == result' = [result EXCEPT ![r] = v]

\* The thread goes back to the pool; mysql2 drops a connection that was lost.
Release(t) == thread' = [thread EXCEPT ![t] = IF @ = "lost" THEN "lost" ELSE "idle"]
Destroy(t) == thread' = [thread EXCEPT ![t] = IF @ = "lost" THEN "lost" ELSE "destroyed"]

OpenThreads == {t \in Threads : thread[t] \in {"idle", "owned"}}

-----------------------------------------------------------------------------
(* The pool (external) and untilAborted around getConnection() *)

\* executeReadOnlySql: an aborted signal stops the call before it asks the pool.
Call(r) ==
    /\ stage[r] = "idle"
    /\ IF aborted[r]
         THEN Become(r, "done") /\ Answer(r, "aborted") /\ UNCHANGED pending
         ELSE Become(r, "queued") /\ pending' = pending \cup {r} /\ UNCHANGED result
    /\ UNCHANGED <<thread, stmt, conn, read, kill, aborted, victims>>

\* The pool answers getConnection() with an idle or a new connection.
HandOut(r, t) ==
    /\ r \in pending
    /\ \/ thread[t] = "idle"
       \/ thread[t] = "unborn" /\ Cardinality(OpenThreads) < Limit
    /\ pending' = pending \ {r}
    /\ IF stage[r] = "queued"
         THEN /\ Become(r, "handed")
              /\ conn' = [conn EXCEPT ![r] = t]
              /\ thread' = [thread EXCEPT ![t] = "owned"]
         ELSE \* Nobody waits any more: untilAborted's onLate releases it.
              /\ thread' = [thread EXCEPT ![t] = "idle"]
              /\ UNCHANGED <<stage, conn>>
    /\ UNCHANGED <<stmt, read, kill, aborted, result, victims>>

\* The queue is full or the connection cannot be opened; a late failure is ignored.
HandOutFails(r) ==
    /\ r \in pending
    /\ pending' = pending \ {r}
    /\ IF stage[r] = "queued"
         THEN Become(r, "done") /\ Answer(r, "error")
         ELSE UNCHANGED <<stage, result>>
    /\ UNCHANGED <<thread, stmt, conn, read, kill, aborted, victims>>

-----------------------------------------------------------------------------
(* executeOnPoolConnection *)

\* The call holds a connection: a signal that aborted meanwhile gives it back,
\* a connection that was lost fails the read, else the statement is sent.
StartRead(r) ==
    /\ stage[r] = "handed"
    /\ IF aborted[r]
         THEN /\ Release(conn[r])
              /\ Become(r, "done")
              /\ Answer(r, "aborted")
              /\ UNCHANGED <<stmt, read>>
         ELSE /\ Become(r, "reading")
              /\ IF thread[conn[r]] = "lost"
                   THEN read' = [read EXCEPT ![r] = "failed"] /\ UNCHANGED stmt
                   ELSE /\ read' = [read EXCEPT ![r] = "open"]
                        /\ stmt' = [stmt EXCEPT ![conn[r]] = r]
              /\ UNCHANGED <<thread, result>>
    /\ UNCHANGED <<pending, conn, kill, aborted, victims>>

\* readRows has settled: rows or an error, but never rows after an abort.  The
\* thread of an overflowing read is killed and dropped without waiting for the
\* KILL; a cancelled one is kept for the background wait.
Finish(r) ==
    /\ stage[r] = "reading"
    /\ read[r] # "open"
    /\ \/ /\ aborted[r]
          /\ Answer(r, "aborted")
          /\ UNCHANGED kill
          /\ IF read[r] = "overflow"
               THEN Destroy(conn[r]) /\ Become(r, "done")
               ELSE Become(r, "settling") /\ UNCHANGED thread
       \/ /\ ~aborted[r]
          /\ Answer(r, IF read[r] = "failed" THEN "error" ELSE "rows")
          /\ Become(r, "done")
          /\ IF read[r] = "overflow"
               THEN Destroy(conn[r]) /\ kill' = [kill EXCEPT ![r] = "inflight"]
               ELSE Release(conn[r]) /\ UNCHANGED kill
    /\ UNCHANGED <<stmt, pending, conn, read, aborted, victims>>

\* The signal aborts.  A waiting call is answered at once.  During the read the
\* KILL is sent first, then the caller is answered, and the connection is kept
\* for the background wait; a read that settled in the same turn is left to Finish.
Abort(r) ==
    /\ ~aborted[r]
    /\ aborted' = [aborted EXCEPT ![r] = TRUE]
    /\ \/ /\ stage[r] \in {"idle", "handed", "settling", "done"}
          /\ UNCHANGED <<stage, result, kill>>
       \/ /\ stage[r] = "queued"
          /\ Become(r, "done")
          /\ Answer(r, "aborted")
          /\ UNCHANGED kill
       \/ /\ stage[r] = "reading"
          /\ kill' = [kill EXCEPT ![r] = "inflight"]
          /\ IF read[r] = "open"
               THEN Become(r, "settling") /\ Answer(r, "aborted")
               ELSE UNCHANGED <<stage, result>>
    /\ UNCHANGED <<thread, stmt, pending, conn, read, victims>>

\* Faulty: the thread is reused as soon as its statement has ended.
SettleWithoutKill(r, timedOut) ==
    /\ stage[r] = "settling"
    /\ \/ read[r] \in {"ended", "failed"} /\ Release(conn[r])
       \/ (read[r] = "overflow" \/ timedOut) /\ Destroy(conn[r])
    /\ Become(r, "done")
    /\ UNCHANGED <<stmt, pending, conn, read, kill, aborted, result, victims>>

\* Faulty: the wait for the statement and the KILL has no limit.
SettleUntimed(r, timedOut) ==
    /\ stage[r] = "settling"
    /\ \/ read[r] \in {"ended", "failed"} /\ kill[r] = "settled" /\ Release(conn[r])
       \/ read[r] = "overflow" /\ Destroy(conn[r])
    /\ Become(r, "done")
    /\ UNCHANGED <<stmt, pending, conn, read, kill, aborted, result, victims>>

\* The background wait: the thread is reused only when the statement has ended
\* and the KILL has landed or failed; it is dropped on an overflow, or when
\* killSettleTimeoutMs has passed.
Settle(r, timedOut) ==
    /\ stage[r] = "settling"
    /\ \/ /\ read[r] \in {"ended", "failed"} /\ kill[r] = "settled"
          /\ Release(conn[r])
       \/ /\ read[r] = "overflow" \/ timedOut
          /\ Destroy(conn[r])
    /\ Become(r, "done")
    /\ UNCHANGED <<stmt, pending, conn, read, kill, aborted, result, victims>>

-----------------------------------------------------------------------------
(* The server and the network (external) *)

\* The statement of a thread ends by itself (rows sent, error, statement timeout).
StatementEnds(t) ==
    /\ stmt[t] # NoCall
    /\ stmt' = [stmt EXCEPT ![t] = NoCall]
    /\ UNCHANGED <<thread, pending, stage, conn, read, kill, aborted, result, victims>>

\* readRows hears that its statement is over, in time or after an abort.
ReadSettles(r) ==
    /\ read[r] = "open"
    /\ stmt[conn[r]] # r
    /\ \E v \in {"ended", "failed"} : read' = [read EXCEPT ![r] = v]
    /\ UNCHANGED <<thread, stmt, pending, stage, conn, kill, aborted, result, victims>>

\* Row maxRows + 1 arrives: the server may still be sending.
ReadOverflows(r) ==
    /\ read[r] = "open"
    /\ read' = [read EXCEPT ![r] = "overflow"]
    /\ UNCHANGED <<thread, stmt, pending, stage, conn, kill, aborted, result, victims>>

\* The KILL reaches the server and ends whatever statement the thread runs.
KillLands(r) ==
    /\ kill[r] = "inflight"
    /\ kill' = [kill EXCEPT ![r] = "settled"]
    /\ stmt' = [stmt EXCEPT ![conn[r]] = NoCall]
    /\ victims' = victims \cup ({stmt[conn[r]]} \ {r, NoCall})
    /\ UNCHANGED <<thread, pending, stage, conn, read, aborted, result>>

KillFails(r) ==
    /\ kill[r] = "inflight"
    /\ kill' = [kill EXCEPT ![r] = "settled"]
    /\ UNCHANGED <<thread, stmt, pending, stage, conn, read, aborted, result, victims>>

\* The socket dies; the server may go on with the statement.
ConnectionLost(t) ==
    /\ thread[t] \in {"idle", "owned"}
    /\ thread' = [thread EXCEPT ![t] = "lost"]
    /\ read' = [r \in Calls |->
                  IF read[r] = "open" /\ conn[r] = t THEN "failed" ELSE read[r]]
    /\ UNCHANGED <<stmt, pending, stage, conn, kill, aborted, result, victims>>

-----------------------------------------------------------------------------
CallStep(r) ==
    \/ Call(r)
    \/ \E t \in Threads : HandOut(r, t)
    \/ HandOutFails(r)
    \/ StartRead(r)
    \/ Finish(r)
    \/ Abort(r)
    \/ \E timedOut \in BOOLEAN : Settle(r, timedOut)
    \/ ReadSettles(r)
    \/ ReadOverflows(r)
    \/ KillLands(r)
    \/ KillFails(r)

Next ==
    \/ \E r \in Calls : CallStep(r)
    \/ \E t \in Threads : StatementEnds(t) \/ ConnectionLost(t)

Spec == Init /\ [][Next]_vars

(* Callbacks run and the settle timer fires.  Statements need not end, KILLs   *)
(* need not come back, the pool need not find a connection: none of those is   *)
(* fair.                                                                      *)
Fairness == \A r \in Calls : WF_vars(StartRead(r)) /\ WF_vars(Finish(r)) /\ WF_vars(Settle(r, TRUE))

FairSpec == Spec /\ Fairness

-----------------------------------------------------------------------------
(* Properties *)

(* "So neither can hit the next query on it": no KILL QUERY ever ends the      *)
(* statement of another call.                                                 *)
KillHitsOwnStatement == victims = {}

(* A connection in the pool is clean: the server runs nothing on its thread    *)
(* and no KILL is on its way to it.                                           *)
IdleIsClean ==
    \A t \in Threads : thread[t] = "idle" =>
        /\ stmt[t] = NoCall
        /\ \A r \in Calls : conn[r] = t => kill[r] # "inflight"

(* A connection that left the pool belongs to exactly one call that will give  *)
(* it back: late hand-outs, aborts and failures leak no slot.                 *)
Owns(r, t) == conn[r] = t /\ stage[r] \in {"handed", "reading", "settling"}
NoSlotLeaked ==
    \A t \in Threads : thread[t] = "owned" =>
        \E r \in Calls : Owns(r, t) /\ \A q \in Calls \ {r} : ~Owns(q, t)

(* A statement the client walked away from (cancelled, or more rows than the   *)
(* cap) has been sent a KILL; only a lost socket leaves one behind.           *)
AbandonedIsKilled ==
    \A t \in Threads, r \in Calls :
        stmt[t] = r /\ stage[r] \in {"settling", "done"} =>
            kill[r] # "none" \/ thread[t] = "lost"

(* "Rows are never returned after an abort."                                  *)
NoRowsAfterAbort ==
    [][\A r \in Calls : result[r] = "none" /\ result'[r] = "rows" => ~aborted[r]]_vars

(* A cancelled call gives its slot back although its statement never ends and  *)
(* its KILL never comes back.                                                 *)
CancelledSlotReturned ==
    \A r \in Calls :
        aborted[r] /\ stage[r] \in {"handed", "reading", "settling"} ~> stage[r] = "done"
=============================================================================
