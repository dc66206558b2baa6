------------------------------- MODULE MCEvalRun -------------------------------
(* Instances of EvalPool, CaseRun, CaseSummary, EvalGate and HoldoutDisplay: a *)
(* behavior is one of the component chosen at its start; the others idle.      *)
EXTENDS EvalPool, CaseRun, CaseSummary, EvalGate, HoldoutDisplay

-----------------------------------------------------------------------------
(* Cases with a gold, and one that a product should decline.                  *)

SomeWorlds ==
    [behavior : {"answer"}, flag : {"none", "G1", SafetyCode}, gold : BOOLEAN, hidden : BOOLEAN]
    \cup [behavior : {"abstain"}, flag : {"none"}, gold : {TRUE}, hidden : {FALSE}]

-----------------------------------------------------------------------------
(* Up to three repetitions of a case, with a gold or without.                 *)

Broken == {Rep("infra_error"), Rep("cancelled")}
Answered ==
    {Rep(o) : o \in {"guardrail_false_rejection", "wrong_result", "llm_error", "timeout", "pass"}} \cup {Missed} \cup Broken
Behaved == {Rep(o) : o \in Behaviors} \cup {NoDecision} \cup Broken
SomeLists == UNION {[1 .. n -> Answered] \cup [1 .. n -> Behaved] : n \in 1 .. 3}

-----------------------------------------------------------------------------
(* A gate, live or on the recording in the default baseline or in another      *)
(* report, beside a run that may replace it.  Case d has no gold.              *)

Two(o, p) == <<Rep(o), Rep(p)>>
Both(o) == Two(o, o)
GoodDay == [c \in CaseIds |-> Both(IF c \in BehaviorCases THEN "declined" ELSE "pass")]
SomeDays ==
    {GoodDay,
     [GoodDay EXCEPT !["a"] = Both("wrong_result")],
     [GoodDay EXCEPT !["a"] = <<Missed, Rep("wrong_result")>>, !["b"] = Both("llm_error")],
     [GoodDay EXCEPT !["a"] = <<Rep("infra_error"), Rep("pass")>>, !["b"] = Both("skipped_budget")],
     [GoodDay EXCEPT !["b"] = <<Rep("pass"), Rep("timeout")>>, !["c"] = <<Rep("pass"), Rep("cancelled")>>,
                     !["d"] = Both("answered_instead")]}

Gating(mode, threshold, only) ==
    [NoOptions EXCEPT !.mode = mode, !.gate = TRUE, !.min = threshold, !.verify = TRUE, !.only = only]
Writing(to, verify, only) == [NoOptions EXCEPT !.write = to, !.verify = verify, !.only = only]
SomeOptions ==
    [r1 |-> {Gating("live", FALSE, CaseIds), Gating("live", TRUE, CaseIds), Gating("rescore", FALSE, CaseIds),
             Gating("rescore", FALSE, {"a", "b"}), Gating("live", TRUE, {"d"}),
             [Gating("live", FALSE, {"a"}) EXCEPT !.against = "other"],
             [Gating("rescore", FALSE, CaseIds) EXCEPT !.from = "other"],
             [Gating("rescore", FALSE, {"a", "b"}) EXCEPT !.against = "other"],
             [Gating("live", FALSE, CaseIds) EXCEPT !.against = "none"],
             [Gating("live", TRUE, CaseIds) EXCEPT !.gate = FALSE]},
     r2 |-> {Writing("default", TRUE, CaseIds), Writing("default", TRUE, {"a"}), Writing("default", FALSE, CaseIds),
             Writing("elsewhere", TRUE, {"d"}), [Writing("default", TRUE, CaseIds) EXCEPT !.data = "own"]}]

\* No baseline, that of today's suite, and that of one with two cases; a report of a day with an outage.
SomeBaselines ==
    {{}} \cup {{Entry(c, 1, Today(GoodDay[c])) : c \in cases} : cases \in {CaseIds, {"a", "d"}}}
         \cup {{Entry("a", 1, Today(Two("infra_error", "pass")))}}

-----------------------------------------------------------------------------
(* A dev case, two holdout cases of one intent, one that should be declined.   *)

Secrets == {"b", "c", "d", "old"}
Intents == [a |-> "i1", b |-> "i2", c |-> "i2", d |-> "i3"]
Late == [Rep("timeout") EXCEPT !.counted = FALSE]
HoldoutLists ==
    {Both("pass"), Both("wrong_result"), Two("pass", "wrong_result"), Two("timeout", "wrong_result"),
     Two("infra_error", "pass"), Both("skipped_budget")}
DisplayResults ==
    {[a |-> Two("cancelled", "wrong_result"), b |-> x, c |-> y, d |-> z] : x, y \in HoldoutLists,
        z \in {Both("declined"), Both("answered_instead"), <<Late, Rep("declined")>>}}
    \cup {[a |-> <<v>>, b |-> <<x>>, c |-> <<y>>, d |-> <<z>>] : v \in {Rep("pass"), Rep("wrong_result")},
              x, y \in {Rep("pass"), Rep("wrong_result"), Rep("skipped_budget")},
              z \in {Rep("declined"), Rep("answered_instead"), NoDecision}}
Before(list) == [same |-> TRUE, reps |-> list]
DisplayBaselines ==
    {[a |-> Before(Both("pass")), b |-> Before(Both("pass")), c |-> Before(Both("pass")), old |-> Before(Both("pass"))],
     [b |-> Before(Two("pass", "wrong_result")), c |-> [same |-> FALSE, reps |-> Both("pass")]]}
Shown(reveal, line, budget, stored) ==
    [reveal |-> reveal, summary |-> line, budget |-> budget, stored |-> stored, gate |-> FALSE, benchmark |-> TRUE]
SomeDisplays ==
    {Shown(FALSE, FALSE, FALSE, TRUE), Shown(FALSE, TRUE, FALSE, TRUE), Shown(FALSE, FALSE, TRUE, TRUE),
     Shown(FALSE, FALSE, FALSE, FALSE), Shown(TRUE, TRUE, TRUE, TRUE)}

-----------------------------------------------------------------------------
VARIABLE part    \* the component that moves

PoolIdle ==
    /\ limited = FALSE /\ next = 1 /\ stopped = FALSE /\ outcome = "pending"
    /\ phase = [l \in Lanes |-> "idle"] /\ task = [l \in Lanes |-> NoTask]
    /\ deadline = [l \in Lanes |-> "ahead"] /\ grace = [l \in Lanes |-> FALSE]
    /\ record = [k \in Tasks |-> "none"]
    /\ started = {} /\ skipped = {} /\ cancelled = {} /\ spent = 0 /\ unseen = 0 /\ late = {}
CaseIdle ==
    world = <<>> /\ at = "idle" /\ tries = <<>> /\ status = "none" /\ struck = {} /\ checked = <<>> /\ judged = <<>>
SummaryIdle == reps = <<>> /\ summary = <<>>
GateIdle ==
    /\ suite = <<>> /\ changes = 0 /\ file = {} /\ suites = {}
    /\ stage = [r \in GateRuns |-> "idle"] /\ opt = [r \in GateRuns |-> NoOptions] /\ exit = [r \in GateRuns |-> 0]
    /\ picked = <<>> /\ began = <<>> /\ reference = <<>> /\ mine = <<>> /\ held = <<>>

DisplayIdle == results = <<>> /\ baseline = <<>> /\ option = <<>> /\ printed = <<>>

PartInit ==
    \/ part = "pool" /\ Init /\ CaseIdle /\ SummaryIdle /\ GateIdle /\ DisplayIdle
    \/ part = "case" /\ PoolIdle /\ CaseRunInit /\ SummaryIdle /\ GateIdle /\ DisplayIdle
    \/ part = "summary" /\ PoolIdle /\ CaseIdle /\ SummaryInit /\ GateIdle /\ DisplayIdle
    \/ part = "gate" /\ PoolIdle /\ CaseIdle /\ SummaryIdle /\ GateInit /\ DisplayIdle
    \/ part = "display" /\ PoolIdle /\ CaseIdle /\ SummaryIdle /\ GateIdle /\ DisplayInit

PartNext ==
    /\ UNCHANGED part
    /\ \/ part = "pool" /\ Next /\ UNCHANGED <<caseRunVars, summaryVars, gateVars, displayVars>>
       \/ part = "case" /\ CaseRunNext /\ UNCHANGED <<vars, summaryVars, gateVars, displayVars>>
       \/ part = "summary" /\ SummaryNext /\ UNCHANGED <<vars, caseRunVars, gateVars, displayVars>>
       \/ part = "gate" /\ GateNext /\ UNCHANGED <<vars, caseRunVars, summaryVars, displayVars>>
       \/ part = "display" /\ DisplayNext /\ UNCHANGED <<vars, caseRunVars, summaryVars, gateVars>>

allVars == <<part, vars, caseRunVars, summaryVars, gateVars, displayVars>>

\* An idle pool enables none of the steps that its fairness is about.
PartSpec == PartInit /\ [][PartNext]_allVars /\ Fairness
=============================================================================
