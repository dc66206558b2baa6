------------------------------ MODULE GoldCache ------------------------------
(***************************************************************************)
(* The gold rows that concurrent cases share: executeGoldSql in               *)
(* src/eval/oracle.js, with untilAborted of src/pipeline.js.  A cache entry is *)
(* the promise of a run; the run belongs to the call that started it and dies  *)
(* with that call's signal, while calls of other cases may be waiting for it.  *)
(*                                                                         *)
(* A call starts at most one run, so a run has its call's name.  Promise       *)
(* reactions are steps of their own.                                          *)
(***************************************************************************)
EXTENDS FiniteSets

CONSTANTS
    Calls,
    Signals,     \* one per case; the calls of a case share it
    NoSignal,    \* a call without one (checkGold of a rescore)
    NoCall,
    Tasks        \* possible assignments of [key, signal] to the calls

ASSUME GoldAssumption == NoCall \notin Calls

VARIABLES
    task,       \* [Calls -> [key, signal]]
    aborted,    \* the signals that fired
    run,        \* run[c]: "none", "running", "rows", "failed" or "cut"
    cache,      \* cache[k]: the call whose run is the entry for (fixture, SQL) k
    pending,    \* pending[c]: whose run c waits for
    goldPc      \* "loop", "waiting", "rows" or "error"

goldVars == <<task, aborted, run, cache, pending, goldPc>>

Key(c) == task[c].key
Signal(c) == task[c].signal
Owner(r) == Signal(r)

GoldInit ==
    /\ task \in Tasks
    /\ aborted = {}
    /\ run = [c \in Calls |-> "none"]
    /\ cache = [k \in {Key(c) : c \in Calls} |-> NoCall]
    /\ pending = [c \in Calls |-> NoCall]
    /\ goldPc = [c \in Calls |-> "loop"]

\* The top of the loop: give up, wait for the entry, or start a run.
LoopAborted(c) ==
    /\ goldPc[c] = "loop" /\ Signal(c) \in aborted
    /\ goldPc' = [goldPc EXCEPT ![c] = "error"]
    /\ UNCHANGED <<task, aborted, run, cache, pending>>

JoinRun(c) ==
    /\ goldPc[c] = "loop" /\ Signal(c) \notin aborted /\ cache[Key(c)] # NoCall
    /\ pending' = [pending EXCEPT ![c] = cache[Key(c)]]
    /\ goldPc' = [goldPc EXCEPT ![c] = "waiting"]
    /\ UNCHANGED <<task, aborted, run, cache>>

StartRun(c) ==
    /\ goldPc[c] = "loop" /\ Signal(c) \notin aborted /\ cache[Key(c)] = NoCall
    /\ run' = [run EXCEPT ![c] = "running"]
    /\ cache' = [cache EXCEPT ![Key(c)] = c]
    /\ pending' = [pending EXCEPT ![c] = c]
    /\ goldPc' = [goldPc EXCEPT ![c] = "waiting"]
    /\ UNCHANGED <<task, aborted>>

\* executeReadOnlySql settles; a failed run's catch takes it out of the cache first.
RunEnds(c, outcome) ==
    /\ run[c] = "running"
    /\ outcome = "cut" => Owner(c) \in aborted
    /\ run' = [run EXCEPT ![c] = outcome]
    /\ cache' = IF outcome # "rows" /\ cache[Key(c)] = c THEN [cache EXCEPT ![Key(c)] = NoCall] ELSE cache
    /\ UNCHANGED <<task, aborted, pending, goldPc>>

\* untilAborted's listener: a waiter on another case's run leaves at once.
StopWaiting(c) ==
    /\ goldPc[c] = "waiting" /\ Signal(c) \in aborted /\ Owner(pending[c]) # Signal(c)
    /\ goldPc' = [goldPc EXCEPT ![c] = "error"]
    /\ UNCHANGED <<task, aborted, run, cache, pending>>

\* Faulty: whatever the awaited run threw is thrown.
OutcomeOfRun(c) == IF run[pending[c]] = "rows" THEN "rows" ELSE "error"

\* The outcome of a run that has settled: another case's abort is not this call's failure.
Outcome(c) ==
    CASE run[pending[c]] = "rows" -> "rows"
      [] run[pending[c]] # "rows" /\ Owner(pending[c]) \in aborted \ {Signal(c)} /\ Signal(c) \notin aborted -> "loop"
      [] OTHER -> "error"

Awaited(c) ==
    /\ goldPc[c] = "waiting" /\ run[pending[c]] \notin {"none", "running"}
    /\ goldPc' = [goldPc EXCEPT ![c] = Outcome(c)]
    /\ UNCHANGED <<task, aborted, run, cache, pending>>

\* A case's deadline, or the run's stop.
AbortCase(s) ==
    /\ aborted' = aborted \cup {s}
    /\ aborted' # aborted
    /\ UNCHANGED <<task, run, cache, pending, goldPc>>

GoldStep ==
    \/ \E c \in Calls : LoopAborted(c) \/ JoinRun(c) \/ StartRun(c) \/ StopWaiting(c) \/ Awaited(c)
    \/ \E c \in Calls, outcome \in {"rows", "failed", "cut"} : RunEnds(c, outcome)

GoldNext == GoldStep \/ \E s \in Signals : AbortCase(s)

\* The event loop runs reactions, and a statement ends (its time limit, or the KILL of an abort).
GoldFairness ==
    /\ \A c \in Calls : WF_goldVars(LoopAborted(c) \/ JoinRun(c) \/ StartRun(c) \/ StopWaiting(c) \/ Awaited(c))
    /\ \A c \in Calls : WF_goldVars(\E outcome \in {"rows", "failed", "cut"} : RunEnds(c, outcome))

GoldSpec == GoldInit /\ [][GoldNext]_goldVars /\ GoldFairness

-----------------------------------------------------------------------------
GoldSettled(c) == goldPc[c] \in {"rows", "error"}

\* A call fails only by its own signal or because the run it waited for failed by itself.
OwnFailure(c) == Signal(c) \in aborted \/ run[pending[c]] = "failed"

\* No call starts to wait for a run that has already failed.
JoinsLiveRun(c) == goldPc[c] = "loop" /\ goldPc'[c] = "waiting" => run'[pending'[c]] \in {"running", "rows"}

\* Each gold query of each case is answered, and one case's deadline never fails another case's gold:
\* the loop of executeGoldSql neither spins on an entry that cannot succeed nor reports a foreign abort.
GoldAnswered ==
    /\ <>(\A c \in Calls : GoldSettled(c))
    /\ [](\A c \in Calls : goldPc[c] = "error" => OwnFailure(c))
    /\ [][\A c \in Calls : JoinsLiveRun(c)]_goldVars
=============================================================================
