--------------------------- MODULE ServerLifecycle ---------------------------
(***************************************************************************)
(* Listening, draining and exiting of the API server (startServer and       *)
(* installSignalHandlers in apps/web/src/server/lifecycle.js).               *)
(*                                                                         *)
(* Connections and their responses belong to Node's http server: a response *)
(* emits 'finish' when its handler has answered and 'close' when it is over *)
(* or its connection is gone, and the callback of server.close() may run     *)
(* before the 'close' of the last response whose connection was destroyed.   *)
(* A client may open a connection, send a request on an idle one, or leave.  *)
(***************************************************************************)
EXTENDS Integers, FiniteSets

CONSTANT Conns    \* connections, each opened once

ASSUME ConnsFinite == IsFiniteSet(Conns)

VARIABLES
    conn,      \* a connection: "new", "idle", "busy" with a request, "gone"
    res,       \* its response: "none", "running", "finished", "cut" (connection lost)
    inFlight,  \* the counter inFlight
    phase,     \* shutdown(): "serving", "draining", "waiting", "closing", "stopped"
    timer,     \* the force timer: "off", "armed", "fired" (then forced = true)
    sweep,     \* a closeIdleConnections() set up with setImmediate
    received,  \* receivedAt: "never", "recently" (within duplicateWindowMs), "before"
    exit,      \* exit code of the process, or "none"
    killed     \* history: connections the server destroyed under a running response

lifecycleVars == <<conn, res, inFlight, phase, timer, sweep, received, exit, killed>>

LifecycleTypeOK ==
    /\ conn \in [Conns -> {"new", "idle", "busy", "gone"}]
    /\ res \in [Conns -> {"none", "running", "finished", "cut"}]
    /\ inFlight \in Int
    /\ phase \in {"serving", "draining", "waiting", "closing", "stopped"}
    /\ timer \in {"off", "armed", "fired"}
    /\ sweep \in BOOLEAN
    /\ received \in {"never", "recently", "before"}
    /\ exit \in {"none", "zero", "one"}
    /\ killed \subseteq Conns

LifecycleInit ==
    /\ conn = [c \in Conns |-> "new"]
    /\ res = [c \in Conns |-> "none"]
    /\ inFlight = 0
    /\ phase = "serving"
    /\ timer = "off"
    /\ sweep = FALSE
    /\ received = "never"
    /\ exit = "none"
    /\ killed = {}

Draining == phase # "serving"

-----------------------------------------------------------------------------
(* Node's http server.                                                      *)

\* Destroying connections: a response that was running loses its client.
DestroyAll(cs) ==
    /\ conn' = [c \in Conns |-> IF c \in cs THEN "gone" ELSE conn[c]]
    /\ res' = [c \in Conns |-> IF c \in cs /\ res[c] = "running" THEN "cut" ELSE res[c]]
    /\ killed' = killed \cup {c \in cs : res[c] = "running"}

Idle == {c \in Conns : conn[c] = "idle"}
Alive == {c \in Conns : conn[c] \in {"idle", "busy"}}

Connect(c) ==
    /\ exit = "none" /\ phase = "serving" /\ conn[c] = "new"
    /\ conn' = [conn EXCEPT ![c] = "idle"]
    /\ UNCHANGED <<res, inFlight, phase, timer, sweep, received, exit, killed>>

\* server.on('request'): also on a connection that stayed open while draining.
Request(c) ==
    /\ exit = "none" /\ conn[c] = "idle" /\ res[c] = "none"
    /\ conn' = [conn EXCEPT ![c] = "busy"]
    /\ res' = [res EXCEPT ![c] = "running"]
    /\ inFlight' = inFlight + 1
    /\ UNCHANGED <<phase, timer, sweep, received, exit, killed>>

\* finish(): counts a response out once; while draining it has idle connections closed.
CountOut ==
    /\ inFlight' = inFlight - 1
    /\ sweep' = (sweep \/ Draining)

\* 'finish': the handler has answered; the connection is kept alive or not.
Finish(c) ==
    /\ exit = "none" /\ res[c] = "running"
    /\ res' = [res EXCEPT ![c] = "finished"]
    /\ \E next \in {"idle", "gone"} : conn' = [conn EXCEPT ![c] = next]
    /\ CountOut
    /\ UNCHANGED <<phase, timer, received, exit, killed>>

\* 'close' of a response: after 'finish' it changes nothing (done).
ResponseCloses(c) ==
    /\ exit = "none" /\ res[c] \in {"finished", "cut"}
    /\ res' = [res EXCEPT ![c] = "none"]
    /\ IF res[c] = "cut" THEN CountOut ELSE UNCHANGED <<inFlight, sweep>>
    /\ UNCHANGED <<conn, phase, timer, received, exit, killed>>

\* The client closes its connection.
Leave(c) ==
    /\ exit = "none" /\ c \in Alive
    /\ conn' = [conn EXCEPT ![c] = "gone"]
    /\ res' = [res EXCEPT ![c] = IF @ = "running" THEN "cut" ELSE @]
    /\ UNCHANGED <<inFlight, phase, timer, sweep, received, exit, killed>>

\* Faulty: destroys connections with a request as well.
CloseEveryConnection ==
    /\ exit = "none" /\ sweep
    /\ sweep' = FALSE
    /\ DestroyAll(Alive)
    /\ UNCHANGED <<inFlight, phase, timer, received, exit>>

\* setImmediate(() => server.closeIdleConnections()).
CloseIdle ==
    /\ exit = "none" /\ sweep
    /\ sweep' = FALSE
    /\ DestroyAll(Idle)
    /\ UNCHANGED <<inFlight, phase, timer, received, exit>>

-----------------------------------------------------------------------------
(* Signals and shutdown().                                                  *)

\* The first signal: stop listening, drop idle connections, arm the force timer.
FirstSignal ==
    /\ exit = "none" /\ received = "never"
    /\ received' = "recently"
    /\ phase' = "draining"
    /\ timer' = "armed"
    /\ DestroyAll(Idle)
    /\ UNCHANGED <<inFlight, sweep, exit>>

WindowPasses ==
    /\ exit = "none" /\ received = "recently"
    /\ received' = "before"
    /\ UNCHANGED <<conn, res, inFlight, phase, timer, sweep, exit, killed>>

\* A signal within the window is the same request; a later one exits at once.
NextSignal ==
    /\ exit = "none" /\ received = "before"
    /\ exit' = "one"
    /\ UNCHANGED <<conn, res, inFlight, phase, timer, sweep, received, killed>>

\* Faulty: reports the connections that are still open but leaves them.
ForceTimerOnlyWarns ==
    /\ exit = "none" /\ timer = "armed"
    /\ timer' = "fired"
    /\ UNCHANGED <<conn, res, inFlight, phase, sweep, received, exit, killed>>

ForceTimer ==
    /\ exit = "none" /\ timer = "armed"
    /\ timer' = "fired"
    /\ DestroyAll(Alive)
    /\ UNCHANGED <<inFlight, phase, sweep, received, exit>>

\* The callback of server.close(): no connection is left.
ServerClosed ==
    /\ exit = "none" /\ phase = "draining" /\ Alive = {}
    /\ timer' = IF timer = "armed" THEN "off" ELSE timer
    /\ phase' = IF timer = "fired" THEN "waiting" ELSE "closing"
    /\ UNCHANGED <<conn, res, inFlight, sweep, received, exit, killed>>

\* After a forced close: until the counter is zero, or one second has passed.
WaitEnds ==
    /\ exit = "none" /\ phase = "waiting"
    /\ phase' = "closing"
    /\ UNCHANGED <<conn, res, inFlight, timer, sweep, received, exit, killed>>

\* onClose() has settled, well or not; the handler exits with 1 after a force.
PoolsClosed ==
    /\ exit = "none" /\ phase = "closing"
    /\ phase' = "stopped"
    /\ exit' = IF timer = "fired" THEN "one" ELSE "zero"
    /\ UNCHANGED <<conn, res, inFlight, timer, sweep, received, killed>>

LifecycleNext ==
    \/ \E c \in Conns :
          Connect(c) \/ Request(c) \/ Finish(c) \/ ResponseCloses(c) \/ Leave(c)
    \/ CloseIdle \/ FirstSignal \/ WindowPasses \/ NextSignal
    \/ ForceTimer \/ ServerClosed \/ WaitEnds \/ PoolsClosed

LifecycleSpec == LifecycleInit /\ [][LifecycleNext]_lifecycleVars

\* Node runs its timers and callbacks, and onClose() settles: it is close() of the
\* runtime manager, whose ClosingEnds says so.  No handler need ever answer.
LifecycleFairness ==
    /\ WF_lifecycleVars(ForceTimer)
    /\ WF_lifecycleVars(ServerClosed)
    /\ WF_lifecycleVars(WaitEnds)
    /\ WF_lifecycleVars(PoolsClosed)

-----------------------------------------------------------------------------
(* Correctness.                                                             *)

\* The counter is the number of responses that are neither answered nor closed, whatever the
\* order of 'finish' and 'close' (the done flag of startServer): "draining n requests" and the
\* wait after a forced close rest on it.
InFlightExact ==
    inFlight = Cardinality({c \in Conns : res[c] \in {"running", "cut"}})

\* shutdown() closes the pools only when no request that still has its client is running,
\* though such requests may arrive on kept-alive connections while it drains.
PoolsCloseLast ==
    phase \in {"closing", "stopped"} => \A c \in Conns : res[c] # "running"

\* Exit code 0 means that the server cut no request off: neither the sweep of idle connections
\* nor the force timer destroyed a connection whose request was running.
ZeroIsClean == exit = "zero" => killed = {}

\* A shutdown takes no running request's connection or pool away, unless it exits with 1.
CleanExit == PoolsCloseLast /\ ZeroIsClean

\* After the first signal the process exits, though requests may never be answered and clients
\* keep their connections open.
ShutdownEnds == phase = "draining" ~> exit # "none"
=============================================================================
