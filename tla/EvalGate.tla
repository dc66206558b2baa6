------------------------------- MODULE EvalGate -------------------------------
(***************************************************************************)
(* The runs of npm run eval over time (scripts/eval.js): the gate against the *)
(* default baseline, live or on rescored recordings, the exit code, and the   *)
(* replacement of the baseline, while the suite and the sources are edited     *)
(* and the file comes and goes (src/eval/compare.js pairs the reports).        *)
(*                                                                         *)
(* A report is a set of case records; no file is the empty report, since a     *)
(* report without cases is refused.  The default suite of a checkout is the    *)
(* gold version of each of its cases; a run may be given datasets of its own.  *)
(***************************************************************************)
EXTENDS CaseOutcomes

CONSTANTS
    AnswerCases, BehaviorCases,   \* ids of cases with a gold, and of those to be declined
    Golds,                        \* versions of a gold
    GateRuns, RunOptions,         \* runs, and what the options of each may be
    RunDays,                      \* what the repetitions of each case come to on a day
    Earlier,                      \* reports of earlier runs
    MaxChanges,                   \* bound on edits of the tree
    AlphaOver, AlphaUnder         \* the significance level (5 / 100 in the code)

CaseIds == AnswerCases \cup BehaviorCases
Gone == 0     \* no case of this id in the suite

ASSUME GateAssumption ==
    /\ IsFiniteSet(CaseIds) /\ AnswerCases \cap BehaviorCases = {} /\ Golds # {} /\ Golds \subseteq Nat \ {Gone}
    /\ MaxChanges \in Nat /\ AlphaOver \in Nat /\ AlphaUnder \in Nat \ {0}

\* attributeRepetition: the bucket is the outcome's, but what a missing table explains is the system's.
Repetition ==
    {rep \in [outcome : Outcomes, bucket : Range(BucketOrder), counted : BOOLEAN, scored : BOOLEAN] :
        rep.bucket = BucketOf(rep.outcome) \/ (rep.bucket = "system" /\ BucketOf(rep.outcome) = "model")}
Recorded == [outcome : Outcomes, bucket : Range(BucketOrder), counted : BOOLEAN, scored : BOOLEAN, kept : BOOLEAN]

\* A report has one record per case; all reports have as many repetitions of each.
ASSUME ReportAssumption ==
    /\ RunDays \subseteq [CaseIds -> Seq(Repetition)]
    /\ \A report \in Earlier :
        /\ \A e \in report : e.id \in CaseIds /\ e.gold \in Golds /\ e.reps \in Seq(Recorded)
        /\ \A e, f \in report : e.id = f.id => e = f
    /\ \A day, other \in RunDays, c, d \in CaseIds : DOMAIN day[c] = DOMAIN other[d]
    /\ \A day \in RunDays, c \in CaseIds, report \in Earlier : \A e \in report : DOMAIN e.reps = DOMAIN day[c]

\* What the command line may ask for: rescoring the default baseline or another report, writing the
\* default baseline or a file elsewhere, comparing with the default baseline, another report or none,
\* cases by filter, and datasets of its own.
Options ==
    [mode : {"live", "rescore"}, from : {"default", "other"}, gate : BOOLEAN, min : BOOLEAN,
     write : {"no", "default", "elsewhere"}, against : {"default", "none", "other"}, verify : BOOLEAN,
     only : SUBSET CaseIds, data : {"default", "own"}]
NoOptions ==
    [mode |-> "live", from |-> "default", gate |-> FALSE, min |-> FALSE, write |-> "no", against |-> "default",
     verify |-> FALSE, only |-> {}, data |-> "default"]

ASSUME OptionsAssumption == RunOptions \in [GateRuns -> SUBSET Options]

VARIABLES
    suite,     \* the default suite of the tree: the gold of each case
    changes,   \* edits so far: the identity of the sources
    file,      \* the default baseline
    opt, stage, exit,
    picked,    \* the cases a run selected
    began,     \* the sources when a run took its provenance
    reference, \* the report a run compares with
    mine,      \* the records of a run; those that a rescore is to judge again, until it has
    suites,    \* history: every suite the tree has had
    held       \* history: the baselines there were since a run began

gateVars == <<suite, changes, file, opt, stage, exit, picked, began, reference, mine, suites, held>>
Tree == <<suite, changes, suites>>

Entry(id, gold, list) == [id |-> id, gold |-> gold, reps |-> list]
CasesOf(s) == {[id |-> c, gold |-> s[c]] : c \in {d \in CaseIds : s[d] # Gone}}

Records(report, id) == {e \in report : e.id = id}

\* Each repetition is a verdict on the product.
HasVerdicts(report) == \A e \in report : \A i \in DOMAIN e.reps : e.reps[i].bucket \in {"pass", "model", "system"}

\* The baseline may be that of an earlier suite.
GateInit ==
    /\ suite = [c \in CaseIds |-> CHOOSE g \in Golds : TRUE]
    /\ changes = 0
    /\ file \in {report \in Earlier : HasVerdicts(report)}
    /\ suites = {suite, [c \in CaseIds |-> IF Records(file, c) = {} THEN Gone ELSE (CHOOSE e \in Records(file, c) : TRUE).gold]}
    /\ opt = [r \in GateRuns |-> NoOptions]
    /\ stage = [r \in GateRuns |-> "off"] /\ exit = [r \in GateRuns |-> 0]
    /\ picked = [r \in GateRuns |-> {}] /\ began = [r \in GateRuns |-> 0]
    /\ reference = [r \in GateRuns |-> {}] /\ mine = [r \in GateRuns |-> {}]
    /\ held = [r \in GateRuns |-> {}]

-----------------------------------------------------------------------------
(* compareReports: the cases of both reports, of the same gold, with a         *)
(* majority that is no deadline or outage on either side.                      *)

IsMeasured(e) == CountedReps(e.reps) # {} /\ BucketOf(MajorityOutcome(e.reps)) # "infra"

Answers(cases) == {e \in cases : e.id \in AnswerCases}

Pairs(before, after) ==
    {p \in Answers(before) \X Answers(after) :
        p[1].id = p[2].id /\ p[1].gold = p[2].gold /\ IsMeasured(p[1]) /\ IsMeasured(p[2])}

IsPass(e) == HasMajority(e.reps)
Regressions(pairs) == Cardinality({p \in pairs : IsPass(p[1]) /\ ~IsPass(p[2])})
Improvements(pairs) == Cardinality({p \in pairs : ~IsPass(p[1]) /\ IsPass(p[2])})

FlipsUpTo(n, k) == Cardinality({s \in SUBSET (1 .. n) : Cardinality(s) <= k})

\* mcnemarExact: twice the binomial tail of the rarer flip, below the significance level.
Significant(b, c) ==
    LET k == IF b < c THEN b ELSE c IN
    b + c > 0 /\ 2 * FlipsUpTo(b + c, k) * AlphaUnder < AlphaOver * 2 ^ (b + c)

IsWorse(pairs) ==
    /\ Regressions(pairs) > Improvements(pairs)
    /\ Significant(Regressions(pairs), Improvements(pairs))

AtLeastHalf(few, all) == few > 0 /\ 2 * few >= all

-----------------------------------------------------------------------------
(* The exit code.                                                           *)

\* What happened today and spoils the run; a rescore keeps what it cannot replay.
Spoils(rep) ==
    ~rep.kept /\ rep.outcome \in {"expected_sql_error", "harness_error", "infra_error", "llm_outage", "timeout", "aborted",
                                  "cancelled"}
IsSpoiled(report) == \E e \in report : \E i \in DOMAIN e.reps : Spoils(e.reps[i])

CountedCases(report) == {e \in Answers(report) : CountedReps(e.reps) # {}}
NothingToReport(report, o) ==
    CountedCases(report) = {} /\ (Answers(report) # {} \/ report = {} \/ (o.gate /\ o.min))

PairingFails(before, after) == ~AtLeastHalf(Cardinality(Pairs(before, after)), Cardinality(Answers(after)))

\* Faulty: takes the rescore's own pairing for the coverage of the suite.
CoverageOfReport(today, before, after) == PairingFails(before, after)

\* A rescore: of today's suite, how much was paired.
CoverageFails(today, before, after) ==
    LET paired == {p[2].id : p \in Pairs(before, after)}
        answers == {c.id : c \in Answers(today)}
    IN answers # {} /\ ~AtLeastHalf(Cardinality(paired \cap answers), Cardinality(answers))

\* --min-accuracy of a half: mean pass rate (of one or two counted repetitions).
IsAccurate(report) ==
    LET Twice(e) == Passes(e.reps) * (2 \div Cardinality(CountedReps(e.reps)))
        cases == CountedCases(report)
    IN Cardinality({e \in cases : Twice(e) = 2}) >= Cardinality({e \in cases : Twice(e) = 0})

ComputeExitCode(r, report) ==
    LET o == opt[r]
        compared == o.gate /\ (reference[r] # {} \/ o.mode = "rescore")
    IN IF \/ IsSpoiled(report)
          \/ NothingToReport(report, o)
          \/ compared /\ PairingFails(reference[r], report)
          \/ compared /\ o.mode = "rescore" /\ CoverageFails(picked[r], reference[r], report)
       THEN 2
       ELSE IF \/ compared /\ IsWorse(Pairs(reference[r], report))
               \/ o.gate /\ o.min /\ ~IsAccurate(report)
       THEN 1
       ELSE 0

\* Faulty: any run that exits 0.
ExitsCleanly(r, report, code) == code = 0

\* resolveSourceVersion: the fingerprint of the tracked sources.
SourceVersion == changes

\* finishProvenance: it is what it was.
SourceUnchanged(r) == SourceVersion = began[r]

\* baselineRefusal: verified, of sources that stayed the same, clean and without skipped cases.
MayBecomeBaseline(r, report, code) ==
    /\ SourceUnchanged(r)
    /\ code = 0
    /\ opt[r].verify
    /\ \A e \in report : \A i \in DOMAIN e.reps : e.reps[i].outcome # "skipped_budget"

-----------------------------------------------------------------------------
ExitsWith(r, code) == stage' = [stage EXCEPT ![r] = "done"] /\ exit' = [exit EXCEPT ![r] = code]
GoesOn(r, to) == stage' = [stage EXCEPT ![r] = to] /\ UNCHANGED exit

\* parseEvalArgs: a threshold without a gate, a baseline that is not of a verified live run, and
\* a default baseline of filtered cases are refused.
OptionsRefused(o) ==
    \/ o.min /\ ~o.gate
    \/ o.write # "no" /\ (o.mode = "rescore" \/ ~o.verify)
    \/ o.write = "default" /\ o.only # CaseIds

\* checkGateBaseline: nothing to gate with.
NothingToGateWith(o) ==
    /\ o.gate /\ o.mode = "live" /\ ~o.min
    /\ \/ o.against = "none"
       \/ o.against = "default" /\ file = {}

Begin(r) ==
    /\ stage[r] = "off"
    /\ \E o \in RunOptions[r] :
        /\ opt' = [opt EXCEPT ![r] = o]
        /\ IF OptionsRefused(o) \/ NothingToGateWith(o) THEN ExitsWith(r, 2) ELSE GoesOn(r, "select")
    /\ held' = [held EXCEPT ![r] = {file}]
    /\ UNCHANGED <<Tree, file, picked, began, reference, mine>>

ThresholdRefused(o, cases) == o.gate /\ o.min /\ cases # {} /\ Answers(cases) = {}

\* Datasets of the run's own, as by --datasets-dir: they differ in one case at most.
OwnSuites == {[suite EXCEPT ![c] = g] : c \in CaseIds, g \in Golds \cup {Gone}}

\* baselineSuiteRefusal: the cases, or how one is scored, are not those of the default suite.
SuiteRefused(o, cases) == o.write = "default" /\ cases # CasesOf(suite)

\* No key or price, no database, no fixtures (createLiveClient, preflightDatabase, ensureFixtures).
SetUpFails(r) ==
    /\ stage[r] = "select"
    /\ ExitsWith(r, 2)
    /\ UNCHANGED <<Tree, file, opt, picked, began, reference, mine, held>>

\* selectSuite; a rescore applies the filters to the recorded cases instead.
Select(r) ==
    /\ stage[r] = "select"
    /\ \E s \in IF opt[r].data = "own" THEN OwnSuites ELSE {suite} :
        LET cases == {c \in CasesOf(s) : c.id \in opt[r].only} IN
        IF \/ opt[r].mode = "live" /\ (cases = {} \/ ThresholdRefused(opt[r], cases))
           \/ SuiteRefused(opt[r], cases)
        THEN ExitsWith(r, 2) /\ UNCHANGED picked
        ELSE GoesOn(r, "load") /\ picked' = [picked EXCEPT ![r] = cases]
    /\ UNCHANGED <<Tree, file, opt, began, reference, mine, held>>

\* The controls do not load, the verification or the database fails.
VerificationFails(r) ==
    /\ stage[r] = "load" /\ opt[r].verify
    /\ ExitsWith(r, 2)
    /\ UNCHANGED <<Tree, file, opt, picked, began, reference, mine, held>>

\* What there is to compare with: the default baseline, if any, none, or the report of --compare.
BaselinesFor(o) ==
    CASE o.against = "default" -> {file}
      [] o.against = "none" -> {{}}
      [] OTHER -> Earlier

\* validateBaselineReport: a file without cases is not a report.
IsReport(before) == before # {}

\* runLive, after the verification: provenance and baseline.
LoadBaseline(r) ==
    /\ stage[r] = "load" /\ opt[r].mode = "live"
    /\ began' = [began EXCEPT ![r] = SourceVersion]
    /\ \E before \in BaselinesFor(opt[r]) :
        /\ reference' = [reference EXCEPT ![r] = before]
        /\ IF opt[r].against = "other" /\ ~IsReport(before) THEN ExitsWith(r, 2) ELSE GoesOn(r, "run")
    /\ UNCHANGED <<Tree, file, opt, picked, mine, held>>

\* --offline takes the default baseline, --rescore the report that it names.
RecordingsFor(o) == IF o.from = "other" THEN Earlier ELSE {file}

\* A recording is its own baseline, unless --compare names one.
BaselinesOfRescore(o, recording) == IF o.against = "other" THEN Earlier ELSE {recording}

\* runRescore: the recorded cases that the filters leave, and what they are compared with.  (The code
\* reads the report of --compare at the end; it is nobody's to change.)
LoadRecording(r) ==
    /\ stage[r] = "load" /\ opt[r].mode = "rescore"
    /\ \E recorded \in RecordingsFor(opt[r]) :
        LET kept == {e \in recorded : e.id \in opt[r].only} IN
        /\ mine' = [mine EXCEPT ![r] = kept]
        /\ \E before \in BaselinesOfRescore(opt[r], kept) :
            /\ reference' = [reference EXCEPT ![r] = before]
            /\ IF ~IsReport(recorded) THEN ExitsWith(r, IF opt[r].gate \/ opt[r].from = "other" THEN 2 ELSE 0)
               ELSE IF kept = {} \/ ThresholdRefused(opt[r], kept) \/ ~IsReport(before) THEN ExitsWith(r, 2)
               ELSE GoesOn(r, "run")
    /\ UNCHANGED <<Tree, file, opt, picked, began, held>>

Today(list) ==
    [i \in DOMAIN list |-> [outcome |-> list[i].outcome, bucket |-> list[i].bucket, counted |-> list[i].counted,
                           scored |-> list[i].scored, kept |-> FALSE]]
IsReplayed(rep) == BucketOf(rep.outcome) \notin {"infra", "skipped", "harness"}

\* Judged on today's definition of the case, or on the recorded one when its id is gone.
Rescored(r, e, list) ==
    LET now == Records(picked[r], e.id) IN
    Entry(e.id, IF now = {} THEN e.gold ELSE (CHOOSE c \in now : TRUE).gold,
          [i \in DOMAIN e.reps |-> IF IsReplayed(e.reps[i]) THEN Today(list)[i]
                                   ELSE [e.reps[i] EXCEPT !.kept = TRUE]])

RunsToday(day) == [c \in CaseIds |-> Today(day[c])]
IsOfRescore(day) ==
    \A c \in CaseIds : \A i \in DOMAIN day[c] : day[c][i].outcome \notin {"timeout", "aborted", "llm_outage", "cancelled", "skipped_budget"}

Report(r, day) ==
    IF opt[r].mode = "live" THEN {Entry(c.id, c.gold, RunsToday(day)[c.id]) : c \in picked[r]}
    ELSE {Rescored(r, e, day[e.id]) : e \in mine[r]}

\* The cases run and are compared, the exit code follows, the baseline may be replaced.  The
\* partial report of an interrupted run is not kept.
Finish(r) ==
    /\ stage[r] = "run" /\ opt[r].mode = "live"
    /\ \E day \in RunDays, interrupted \in BOOLEAN :
        LET report == Report(r, day)
            code == IF interrupted THEN 130 ELSE ComputeExitCode(r, report)
        IN /\ mine' = [mine EXCEPT ![r] = IF interrupted THEN {} ELSE report]
           /\ ExitsWith(r, code)
           /\ IF opt[r].write = "default" /\ MayBecomeBaseline(r, report, code)
              THEN file' = report
                   /\ held' = [q \in GateRuns |-> IF stage[q] = "off" THEN {} ELSE held[q] \cup {report}]
              ELSE UNCHANGED <<file, held>>
    /\ UNCHANGED <<Tree, opt, picked, began, reference>>

\* A rescore ends the same way, and writes nothing.
FinishRescore(r) ==
    /\ stage[r] = "run" /\ opt[r].mode = "rescore"
    /\ \E day \in {d \in RunDays : IsOfRescore(d)} :
        LET report == Report(r, day) IN
        /\ mine' = [mine EXCEPT ![r] = report]
        /\ ExitsWith(r, ComputeExitCode(r, report))
    /\ UNCHANGED <<Tree, file, opt, picked, began, reference, held>>

\* A second signal: no report.
Killed(r) ==
    /\ stage[r] = "run" /\ opt[r].mode = "live"
    /\ ExitsWith(r, 130)
    /\ UNCHANGED <<Tree, file, opt, picked, began, reference, mine, held>>

-----------------------------------------------------------------------------
\* A case is added, removed or given another gold; or code alone changes.
EditTree ==
    /\ changes < MaxChanges
    /\ changes' = changes + 1
    /\ \/ \E c \in CaseIds, g \in Golds \cup {Gone} : suite' = [suite EXCEPT ![c] = g]
       \/ UNCHANGED suite
    /\ suites' = suites \cup {suite'}
    /\ UNCHANGED <<file, opt, stage, exit, picked, began, reference, mine, held>>

\* The baseline is deleted, as by a checkout of a branch without it.
RemoveFile ==
    /\ changes < MaxChanges /\ file # {}
    /\ changes' = changes + 1
    /\ file' = {}
    /\ held' = [q \in GateRuns |-> IF stage[q] = "off" THEN {} ELSE held[q] \cup {{}}]
    /\ UNCHANGED <<suite, suites, opt, stage, exit, picked, began, reference, mine>>

GateNext ==
    \/ \E r \in GateRuns :
        \/ Begin(r) \/ SetUpFails(r) \/ Select(r) \/ VerificationFails(r)
        \/ LoadBaseline(r) \/ LoadRecording(r) \/ Finish(r) \/ FinishRescore(r) \/ Killed(r)
    \/ EditTree \/ RemoveFile

GateSpec == GateInit /\ [][GateNext]_gateVars

-----------------------------------------------------------------------------
(* Correctness.                                                             *)

GateTypeOK ==
    /\ suite \in [CaseIds -> Golds \cup {Gone}] /\ changes \in 0 .. MaxChanges
    /\ stage \in [GateRuns -> {"off", "select", "load", "run", "done"}]
    /\ exit \in [GateRuns -> {0, 1, 2, 130}]
    /\ opt \in [GateRuns -> Options]
    /\ picked \in [GateRuns -> SUBSET [id : CaseIds, gold : Golds]]

\* Of some cases, those with a gold that both reports measured with that gold.
Measured(cases, before, report) ==
    {c \in Answers(cases) :
        /\ \E b \in before : b.id = c.id /\ b.gold = c.gold /\ IsMeasured(b)
        /\ \E e \in report : e.id = c.id /\ e.gold = c.gold /\ IsMeasured(e)}

IsTested(cases, only, before, report) ==
    /\ Answers(cases) # {} =>
           AtLeastHalf(Cardinality(Measured(cases, before, report)), Cardinality(Answers(cases)))
    /\ ~IsWorse(Pairs({e \in before : e.id \in only}, report))

\* The command line names what the run compares with.
NamesReport(o) == o.against = "other" \/ (o.mode = "rescore" /\ o.from = "other")

\* Nothing of today's went wrong outside the product and the model.
OnlyVerdicts(report) ==
    \A e \in report : \A i \in DOMAIN e.reps :
        e.reps[i].kept \/ e.reps[i].bucket \in {"pass", "model", "system"} \/ e.reps[i].outcome = "skipped_budget"

\* A gate that passes has tested the run: nothing of today's went wrong outside the model, and a
\* baseline there was while it ran covers at least half of the answer cases (of today's suite, also
\* when the run only rescored a recording) with the same gold, and is not significantly better;
\* with --compare, or --rescore, the report named there does.
\* Excepted is a live run whose baseline was deleted after checkGateBaseline had seen it.
GateHasTested ==
    \A r \in GateRuns :
        stage[r] = "done" /\ exit[r] = 0 /\ opt[r].gate /\ ~opt[r].min =>
            /\ OnlyVerdicts(mine[r])
            /\ \/ opt[r].mode = "live" /\ {} \in held[r] /\ reference[r] = {}
               \/ \E before \in IF NamesReport(opt[r]) THEN {reference[r]} ELSE held[r] :
                    IsTested(picked[r], opt[r].only, before, mine[r])

\* What later gates pair with has no hole: the default baseline holds every case of a suite the
\* tree has had, each repetition a verdict on the product.
BaselineIsComplete ==
    file # {} =>
        /\ \E s \in suites : {[id |-> e.id, gold |-> e.gold] : e \in file} = CasesOf(s)
        /\ HasVerdicts(file)
=============================================================================
