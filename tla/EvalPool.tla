------------------------------ MODULE EvalPool ------------------------------
(***************************************************************************)
(* The task pool of evaluation runs (createDeadline, runPool and            *)
(* runCaseRepetitions in src/eval/pool.js): lanes take the repetitions of    *)
(* the cases in order; each task races its deadline, the stop of the run     *)
(* and the grace period that either starts; a budget keeps new cases from    *)
(* starting.                                                               *)
(*                                                                         *)
(* A task is external: it may end at any moment, throw, notice its signal    *)
(* or ignore it for ever.  Its own verdict (pass, mismatch, ...) does not    *)
(* matter to the pool; "kept" stands for all of them.                       *)
(***************************************************************************)
EXTENDS Naturals, FiniteSets

CONSTANTS
    NumCases,    \* cases of the run
    Repeat,      \* repetitions of each
    NumLanes,    \* concurrency, at most the number of tasks
    Budget,      \* budgetUsd
    MaxCost      \* bound on the LLM cost of one task

ASSUME SizesPositive == {NumCases, Repeat, NumLanes} \subseteq Nat \ {0}
ASSUME LanesUsed == NumLanes <= NumCases * Repeat
ASSUME AmountsNat == {Budget, MaxCost} \subseteq Nat

Cases == 1 .. NumCases
Tasks == 1 .. NumCases * Repeat
Lanes == 1 .. NumLanes
Costs == 0 .. MaxCost
NoTask == 0

\* Tasks are case-major: every repetition of case 1, then of case 2, ...
CaseOf(k) == (k - 1) \div Repeat + 1

VARIABLES
    limited,    \* caseTimeoutMs is set
    next,       \* the next task
    phase,      \* a lane: "unstarted", "running", "reporting" (onResult), "ended", "failed"
    task,       \* the task a lane is at
    deadline,   \* its deadline: "ahead", "passed" by the clock, "fired"
    grace,      \* its grace timer is armed
    stopped,    \* stopSignal.aborted
    record,     \* results: "none", "kept", "timeout", "cancelled" or "skipped"
    started,    \* cases of which a repetition was started
    skipped,    \* cases reported as skipped for the budget
    cancelled,  \* cases reported as cancelled
    spent,      \* spentUsd
    unseen,     \* cost of tasks whose result carries none
    late,       \* tasks still running when their deadline passed
    outcome     \* promise of the run: "pending", "returned", "rejected"

vars == <<limited, next, phase, task, deadline, grace, stopped, record, started, skipped,
          cancelled, spent, unseen, late, outcome>>

TypeOK ==
    /\ limited \in BOOLEAN
    /\ next \in 1 .. NumCases * Repeat + 1
    /\ phase \in [Lanes -> {"unstarted", "running", "reporting", "ended", "failed"}]
    /\ task \in [Lanes -> Tasks \cup {NoTask}]
    /\ deadline \in [Lanes -> {"ahead", "passed", "fired"}]
    /\ grace \in [Lanes -> BOOLEAN]
    /\ stopped \in BOOLEAN
    /\ record \in [Tasks -> {"none", "kept", "timeout", "cancelled", "skipped"}]
    /\ started \subseteq Cases
    /\ skipped \subseteq Cases
    /\ cancelled \subseteq Cases
    /\ spent \in Nat
    /\ unseen \in Nat
    /\ late \subseteq Tasks
    /\ outcome \in {"pending", "returned", "rejected"}

Init ==
    /\ limited \in BOOLEAN
    /\ next = 1
    /\ phase = [l \in Lanes |-> "unstarted"]
    /\ task = [l \in Lanes |-> NoTask]
    /\ deadline = [l \in Lanes |-> "ahead"]
    /\ grace = [l \in Lanes |-> FALSE]
    /\ stopped \in BOOLEAN
    /\ record = [k \in Tasks |-> "none"]
    /\ started = {}
    /\ skipped = {}
    /\ cancelled = {}
    /\ spent = 0
    /\ unseen = 0
    /\ late = {}
    /\ outcome = "pending"

-----------------------------------------------------------------------------
(* A lane's loop *)

Goes(l, p) == phase' = [phase EXCEPT ![l] = p]

\* Faulty: a case may start when the budget is exactly spent.
OverBudgetTooLate(c) == c \notin started /\ spent > Budget

\* The budget holds back cases of which nothing has started.
OverBudget(c) == c \notin started /\ (c \in skipped \/ spent >= Budget)

HasNext == next <= NumCases * Repeat

\* The lane takes the next task: cancels it, skips it or starts it.
TakeNext(l) ==
    LET c == CaseOf(next)
    IN  /\ HasNext
        /\ next' = next + 1
        /\ task' = [task EXCEPT ![l] = next]
        /\ \/ /\ stopped
              /\ Goes(l, "reporting")
              /\ record' = [record EXCEPT ![next] = "cancelled"]
              /\ cancelled' = cancelled \cup {c}
              /\ UNCHANGED <<started, skipped>>
           \/ /\ ~stopped
              /\ OverBudget(c)
              /\ Goes(l, "reporting")
              /\ record' = [record EXCEPT ![next] = "skipped"]
              /\ skipped' = skipped \cup {c}
              /\ UNCHANGED <<started, cancelled>>
           \/ /\ ~stopped
              /\ ~OverBudget(c)
              /\ Goes(l, "running")
              /\ started' = started \cup {c}
              /\ UNCHANGED <<record, skipped, cancelled>>
        /\ UNCHANGED outcome

\* No task is left; the last lane to end resolves the run, unless it was rejected.
LaneEnds(l) ==
    /\ ~HasNext
    /\ Goes(l, "ended")
    /\ task' = [task EXCEPT ![l] = NoTask]
    /\ outcome' = IF outcome = "pending" /\ \A m \in Lanes \ {l} : phase[m] = "ended"
                    THEN "returned" ELSE outcome
    /\ UNCHANGED <<next, record, started, skipped, cancelled>>

Loop(l) == TakeNext(l) \/ LaneEnds(l)

\* The lanes start one after the other, each running to its first await.
LaneStarts(l) ==
    /\ phase[l] = "unstarted"
    /\ \A m \in Lanes : m < l => phase[m] # "unstarted"
    /\ Loop(l)
    /\ UNCHANGED <<limited, deadline, grace, stopped, spent, unseen, late>>

AllStarted == \A l \in Lanes : phase[l] # "unstarted"

\* onResult() resolves and the lane goes on.
Reported(l) ==
    /\ phase[l] = "reporting"
    /\ Loop(l)
    /\ UNCHANGED <<limited, deadline, grace, stopped, spent, unseen, late>>

\* onResult() rejects (the trace file cannot be written): the run is rejected, the
\* other lanes go on.
ReportFails(l) ==
    /\ phase[l] = "reporting"
    /\ Goes(l, "failed")
    /\ task' = [task EXCEPT ![l] = NoTask]
    /\ outcome' = IF outcome = "pending" THEN "rejected" ELSE outcome
    /\ UNCHANGED <<limited, next, deadline, grace, stopped, record, started, skipped,
                   cancelled, spent, unseen, late>>

-----------------------------------------------------------------------------
(* A task and its timers *)

\* The task of a lane is over with result s.
Ends(l, s) ==
    /\ Goes(l, "reporting")
    /\ record' = [record EXCEPT ![task[l]] = s]
    /\ cancelled' = IF s = "cancelled" THEN cancelled \cup {CaseOf(task[l])} ELSE cancelled
    /\ deadline' = [deadline EXCEPT ![l] = "ahead"]
    /\ grace' = [grace EXCEPT ![l] = FALSE]
    /\ UNCHANGED <<limited, next, task, stopped, started, skipped, late, outcome>>

\* What becomes of a task that ends by itself, by a result, as 'aborted' or by a
\* throw: past the deadline, by the clock, everything is a timeout.
Verdict(l, end) ==
    IF deadline[l] # "ahead" THEN "timeout"
    ELSE IF stopped /\ end # "result" THEN "cancelled" ELSE "kept"

\* A task that throws reports no cost.
TaskEnds(l, end, cost) ==
    /\ phase[l] = "running"
    /\ end = "aborted" => stopped \/ deadline[l] = "fired"
    /\ Ends(l, Verdict(l, end))
    /\ IF end = "threw"
         THEN unseen' = unseen + cost /\ UNCHANGED spent
         ELSE spent' = spent + cost /\ UNCHANGED unseen

\* The grace timer fires: the task is abandoned, whatever it may still do.
Abandon(l, cost) ==
    /\ phase[l] = "running"
    /\ grace[l]
    /\ Ends(l, IF stopped /\ deadline[l] # "fired" THEN "cancelled" ELSE "timeout")
    /\ unseen' = unseen + cost
    /\ UNCHANGED spent

\* The deadline passes by the clock; its timer has yet to run.
DeadlinePasses(l) ==
    /\ limited
    /\ phase[l] = "running"
    /\ deadline[l] = "ahead"
    /\ deadline' = [deadline EXCEPT ![l] = "passed"]
    /\ late' = late \cup {task[l]}
    /\ UNCHANGED <<limited, next, phase, task, grace, stopped, record, started, skipped,
                   cancelled, spent, unseen, outcome>>

\* The timer aborts the task's signal and starts the grace period, unless a stop
\* already did.
DeadlineFires(l) ==
    /\ phase[l] = "running"
    /\ deadline[l] = "passed"
    /\ deadline' = [deadline EXCEPT ![l] = "fired"]
    /\ grace' = [grace EXCEPT ![l] = TRUE]
    /\ UNCHANGED <<limited, next, phase, task, stopped, record, started, skipped,
                   cancelled, spent, unseen, late, outcome>>

\* Faulty: a stop does not start the grace period of the tasks in flight.
StopWithoutGrace ==
    /\ ~stopped
    /\ stopped' = TRUE
    /\ UNCHANGED <<limited, next, phase, task, deadline, grace, record, started, skipped,
                   cancelled, spent, unseen, late, outcome>>

\* SIGINT, SIGTERM or a provider that rejects the key (scripts/eval.js): every task in
\* flight gets its grace period.
Stop ==
    /\ ~stopped
    /\ stopped' = TRUE
    /\ grace' = [l \in Lanes |-> grace[l] \/ phase[l] = "running"]
    /\ UNCHANGED <<limited, next, phase, task, deadline, record, started, skipped,
                   cancelled, spent, unseen, late, outcome>>

-----------------------------------------------------------------------------
LaneStep(l) ==
    \/ Reported(l)
    \/ ReportFails(l)
    \/ \E end \in {"result", "aborted", "threw"}, cost \in Costs : TaskEnds(l, end, cost)
    \/ \E cost \in Costs : Abandon(l, cost)
    \/ DeadlinePasses(l)
    \/ DeadlineFires(l)

Next ==
    \/ \E l \in Lanes : LaneStarts(l)
    \/ AllStarted /\ \E l \in Lanes : LaneStep(l)
    \/ AllStarted /\ Stop

Spec == Init /\ [][Next]_vars

(* Timers fire, callbacks run, and the progress callback settles; a task need   *)
(* not end.                                                                    *)
Fairness ==
    \A l \in Lanes :
        /\ WF_vars(LaneStarts(l))
        /\ WF_vars(AllStarted /\ (Reported(l) \/ ReportFails(l)))
        /\ WF_vars(AllStarted /\ \E cost \in Costs : Abandon(l, cost))
        /\ WF_vars(AllStarted /\ DeadlinePasses(l))
        /\ WF_vars(AllStarted /\ DeadlineFires(l))

FairSpec == Spec /\ Fairness

-----------------------------------------------------------------------------
(* Properties *)

(* "A slow case can never count as a pass": a task that was still running when  *)
(* its deadline passed never keeps its own verdict, even if the timer was late.  *)
NoLateVerdict == \A k \in late : record[k] # "kept"

(* The report adds up: the cases listed as skipped and cancelled are those with   *)
(* such records, nothing of a skipped case ever ran, and a run that returns has a *)
(* record of every repetition.                                                  *)
Accounted ==
    /\ skipped = {CaseOf(k) : k \in {i \in Tasks : record[i] = "skipped"}}
    /\ cancelled = {CaseOf(k) : k \in {i \in Tasks : record[i] = "cancelled"}}
    /\ skipped \cap started = {}
    /\ outcome = "returned" => \A k \in Tasks : record[k] # "none"

(* "The overshoot is at most the cost of the cases in flight" when the budget is   *)
(* reached: of the tasks the lanes run, and of what is left of the one case whose  *)
(* repetitions have not all been taken.                                         *)
Overshoot == MaxCost * (NumLanes + Repeat - 1)
OvershootBounded == spent = 0 \/ spent < Budget + Overshoot

(* The same of the money really spent, that of abandoned tasks included.          *)
OvershootIsCasesInFlight == spent + unseen <= Budget + Overshoot

(* A run with deadlines ends, and a stopped run ends, although tasks ignore their  *)
(* signal ("abandoned graceMs later").                                          *)
RunEnds == limited \/ stopped ~> outcome # "pending"
=============================================================================
