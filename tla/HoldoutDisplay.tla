---------------------------- MODULE HoldoutDisplay ----------------------------
(***************************************************************************)
(* What report.md and the console show of an evaluation run while its holdout *)
(* cases are hidden (src/eval/report-markdown.js over stats.js, attribution.js *)
(* and compare.js; the policy is that of src/eval/holdout.js), and what the    *)
(* exit code's reasons add (computeExitCode in scripts/eval.js).              *)
(*                                                                         *)
(* A figure stands for what it is computed from: an interval that is drawn by  *)
(* position for the pass rates of its cases, a McNemar p for its two counts.    *)
(* Lists of cases are functions from their ids: the report orders them.          *)
(***************************************************************************)
EXTENDS CaseOutcomes

CONSTANTS
    ReportCases,     \* ids of a report's cases
    DeclineCases,    \* those without a gold, to be declined
    HoldoutCases,    \* those of the holdout split
    IntentOf,        \* the intent of each case
    Results,         \* what the repetitions of each case may come to
    Baselines,       \* earlier results of some cases: [same : gold unchanged, reps]
    DisplayOptions,  \* [reveal, summary, budget, stored, gate, benchmark]
    Shares           \* pass rates are in shares: every number of counted repetitions divides it

VARIABLES results, baseline, option, printed
displayVars == <<results, baseline, option, printed>>

\* No repetition of a case without a gold counts for accuracy.
Repetitions == [outcome : Outcomes, bucket : Range(BucketOrder), counted : BOOLEAN, scored : BOOLEAN]
ASSUME DisplayAssumption ==
    /\ IsFiniteSet(ReportCases) /\ Shares \in Nat
    /\ \A r \in Results :
         /\ r \in [ReportCases -> Seq(Repetitions)]
         /\ \A id \in ReportCases :
              IF id \in DeclineCases THEN CountedReps(r[id]) = {}
              ELSE CountedReps(r[id]) # {} => Shares % Cardinality(CountedReps(r[id])) = 0

Tally(list) == [x \in Range(list) |-> Cardinality({i \in DOMAIN list : list[i] = x})]
Each(Op(_), list) == [i \in DOMAIN list |-> Op(list[i])]
Chosen(list, Test(_)) == {i \in DOMAIN list : Test(list[i])}
Total(rates) == Cardinality(UNION {{id} \X (1 .. rates[id]) : id \in DOMAIN rates})

-----------------------------------------------------------------------------
(* Figures over case records.                                               *)

\* The summaries of a report are computed once, with the report.
Lists == UNION {Range(r) : r \in Results} \cup UNION {{b[id].reps : id \in DOMAIN b} : b \in Baselines}
SummaryOf == [list \in Lists |-> Summarize(list)]

RateOf(s) == s.passes * (Shares \div s.counted)
Record(list) == [reps |-> list, summary |-> SummaryOf[list]]
CaseRecords(r) == [id \in ReportCases |-> Record(r[id])]
IsBehaviorRecord(id) == id \in DeclineCases
AnswersOf(records) == Restrict(records, {id \in DOMAIN records : ~IsBehaviorRecord(id)})
CountedOf(records) == {id \in DOMAIN records : records[id].summary.counted > 0}
RepsOf(records) ==
    [x \in UNION {{id} \X DOMAIN records[id].reps : id \in DOMAIN records} |-> records[x[1]].reps[x[2]]]

RatesOf(records, ids) == [id \in ids |-> RateOf(records[id].summary)]
SummarizeAccuracy(records) ==
    LET counted == CountedOf(records) IN
    [cases |-> Cardinality(counted), rates |-> RatesOf(records, counted),
     majority |-> Cardinality({id \in counted : records[id].summary.majority}),
     perIntent |-> [n \in {IntentOf[id] : id \in counted} |-> RatesOf(records, {id \in counted : IntentOf[id] = n})]]

\* A row of the breakdown by split: cases, accuracy and, unless hidden, majority passes.
OfSplit(records, isHoldout) == Restrict(records, {id \in DOMAIN records : (id \in HoldoutCases) <=> isHoldout})
SplitRow(records, isHoldout, shown) ==
    LET a == SummarizeAccuracy(OfSplit(records, isHoldout)) IN
    [cases |-> a.cases, total |-> Total(a.rates), majority |-> IF shown THEN <<a.majority>> ELSE <<>>]

Cause(x) == <<x.outcome, x.bucket>>
SummarizeAttribution(records) ==
    LET all == RepsOf(records) IN
    [repetitions |-> Tally(Each(Cause, all)),
     cases |-> Tally(Each(LAMBDA e : Cause(e.summary), records)),
     excluded |-> Tally(Each(LAMBDA rep : rep.outcome, Restrict(all, DOMAIN all \ CountedReps(all))))]

\* The cell of a repetition's last attempt (CaseRun has those of every attempt).
FinalCell(rep) ==
    CASE rep.outcome = "guardrail_true_rejection" -> "tp"
      [] rep.outcome = "guardrail_false_rejection" -> "fp"
      [] rep.outcome \in {"wrong_result", "execution_error"} -> "fn"
      [] rep.outcome = "pass" -> "tn"
      [] rep.outcome = "safety_rejection" -> "safety"
      [] OTHER -> "unknown"

SummarizeBehavior(records) ==
    LET asked == {id \in DOMAIN records : IsBehaviorRecord(id)}
        scored == {id \in asked : ScoredReps(records[id].reps) # {}}
    IN [cases |-> Cardinality(asked), counted |-> Cardinality(scored),
        handled |-> Cardinality({id \in scored : MajorityHandled(records[id].reps)}),
        outcomes |-> Tally([id \in asked |-> records[id].summary.outcome])]

IsExecuted(rep) == rep.outcome \notin {"skipped_budget", "cancelled", "expected_sql_error", "harness_error"}
SummarizeRunUsage(records) ==
    LET executed == Restrict(RepsOf(records), Chosen(RepsOf(records), IsExecuted)) IN
    [questions |-> Cardinality(DOMAIN executed), correct |-> Cardinality(With(executed, "pass")),
     withoutCall |-> Cardinality(With(executed, "timeout") \cup With(executed, "llm_outage"))]

\* The pooled rate: of the repetitions that ran.
SummarizeReliability(records) ==
    LET all == RepsOf(records) IN
    <<Cardinality(With(all, "pass")), Cardinality(Chosen(all, LAMBDA rep : rep.outcome \notin {"skipped_budget", "cancelled"}))>>

-----------------------------------------------------------------------------
(* The comparison with a baseline.                                          *)

IsInfra(s) == BucketOf(s.outcome) = "infra"
Label(s) == IF s.counted > 0 /\ ~IsInfra(s) THEN "counted" ELSE s.outcome
Side(s) == [rate |-> RateOf(s), majority |-> s.majority, outcome |-> s.outcome]

CompareReports(earlier, records) ==
    LET before(id) == SummaryOf[earlier[id].reps]
        after(id) == records[id].summary
        answers == DOMAIN AnswersOf(records)
        known == answers \cap DOMAIN earlier
        same == {id \in known : earlier[id].same}
        tested == {id \in same : Label(before(id)) = "counted" /\ Label(after(id)) = "counted"}
        removed == {id \in DOMAIN earlier : ~IsBehaviorRecord(id)} \ DOMAIN records
    IN [pairs |-> [id \in tested |-> [before |-> Side(before(id)), after |-> Side(after(id))]],
        goldChanged |-> known \ same,
        notCounted |-> [id \in same \ tested |-> [before |-> Label(before(id)), after |-> Label(after(id))]],
        new |-> answers \ DOMAIN earlier,
        removed |-> removed,
        holdout |-> HoldoutCases \cap (answers \cup removed)]

Regressed(pairs) == Chosen(pairs, LAMBDA p : p.before.majority /\ ~p.after.majority)
Improved(pairs) == Chosen(pairs, LAMBDA p : ~p.before.majority /\ p.after.majority)

\* The counts are p and the verdict; the rates are the accuracies and their change.
PairCounts(pairs) ==
    [paired |-> Cardinality(DOMAIN pairs),
     regressions |-> Cardinality(Regressed(pairs)), improvements |-> Cardinality(Improved(pairs)),
     bothPass |-> Cardinality(Chosen(pairs, LAMBDA p : p.before.majority /\ p.after.majority))]
PairFigures(pairs) ==
    [counts |-> PairCounts(pairs), rates |-> Each(LAMBDA p : <<p.before.rate, p.after.rate>>, pairs)]
PairLists(pairs) ==
    [regressions |-> Restrict(pairs, Regressed(pairs)), improvements |-> Restrict(pairs, Improved(pairs)),
     changes |-> Restrict(pairs, Chosen(pairs, LAMBDA p : p.before.majority = p.after.majority /\ p.before.rate # p.after.rate))]

\* Of a recording that lacks its pairs: no holdout case can be among them.
PairsNoHoldoutCase(c) ==
    \/ DOMAIN c.pairs = {}
    \/ c.holdout \subseteq c.goldChanged \cup DOMAIN c.notCounted \cup c.new \cup c.removed

DisplayedComparison(c, o) ==
    LET hidden == IF o.reveal THEN {} ELSE c.holdout
        listed(entries) == Restrict(entries, DOMAIN entries \ hidden)
        known == o.stored \/ hidden = {} \/ PairsNoHoldoutCase(c)
        pairs == IF o.stored THEN listed(c.pairs) ELSE c.pairs
    IN [figures |-> IF known THEN <<PairFigures(pairs)>> ELSE <<>>,
        lists |-> IF known THEN <<PairLists(pairs)>> ELSE <<>>,
        goldChanged |-> c.goldChanged \ hidden, notCounted |-> listed(c.notCounted), new |-> c.new \ hidden,
        removed |-> c.removed \ hidden, hiddenCases |-> Cardinality(hidden)]

\* Paired outcomes by pass rates, then majority verdicts, of the baseline first.
OutcomeKey(p) == <<p.before.rate, p.before.majority, p.after.rate, p.after.majority>>
Holdout(c) == Restrict(c.pairs, DOMAIN c.pairs \cap c.holdout)

\* Faulty: the pairs stay in the order of their ids.
HoldoutPairsById(c, o) ==
    IF o.stored /\ DOMAIN Holdout(c) # {} THEN <<PairFigures(Holdout(c))>> ELSE <<>>

\* In the order of their outcomes pairs have no ids: which outcomes there are tells the list.
HoldoutPairSummary(c, o) ==
    IF o.stored /\ DOMAIN Holdout(c) # {}
    THEN <<[counts |-> PairCounts(Holdout(c)), rates |-> Tally(Each(OutcomeKey, Holdout(c)))]>>
    ELSE <<>>

-----------------------------------------------------------------------------
(* The report and the console's headline and progress.                      *)

HiddenIds(o) == IF o.reveal THEN {} ELSE HoldoutCases

\* A finished repetition: a holdout case shows neither id nor result.
ProgressLine(rep) == <<rep.outcome>>
Progress(listed, withheld) ==
    [lines |-> Each(ProgressLine, RepsOf(listed)), nameless |-> Cardinality(DOMAIN RepsOf(withheld))]

CaseRow(e) == [passes |-> e.summary.passes, counted |-> e.summary.counted, cause |-> Cause(e.summary)]

Unrun(records) == Chosen(records, LAMBDA e : With(e.reps, "skipped_budget") # {})
BudgetRow(records, listed) ==
    [spent |-> Cardinality(Chosen(RepsOf(records), IsExecuted)), named |-> Unrun(listed),
     unnamed |-> Cardinality(Unrun(records)) - Cardinality(Unrun(listed))]

Listed(records, o) == Restrict(records, DOMAIN records \ HiddenIds(o))
Withheld(records, o) == Restrict(records, DOMAIN records \cap HiddenIds(o))

Display(r, earlier, o) ==
    LET records == CaseRecords(r)
        all == SummarizeAccuracy(AnswersOf(records))
        listed == Listed(records, o)
        hidden == ReportCases \cap HiddenIds(o)
        answers == AnswersOf(listed)
        comparison == CompareReports(earlier, records)
    IN [strict |-> <<all.cases, Total(all.rates)>>,
        accuracy |-> SummarizeAccuracy(answers),
        dev |-> SplitRow(records, FALSE, TRUE), holdout |-> SplitRow(records, TRUE, o.reveal),
        attribution |-> SummarizeAttribution(answers),
        confusion |-> Tally(Each(FinalCell, RepsOf(answers))),
        behavior |-> SummarizeBehavior(listed),
        hidden |-> <<Cardinality(hidden), Cardinality(hidden \cap DeclineCases)>>,
        usage |-> SummarizeRunUsage(listed),
        reliability |-> SummarizeReliability(answers),
        excluded |-> Cardinality(DOMAIN answers) - Cardinality(CountedOf(answers)),
        cancelled |-> Cardinality(Chosen(listed, LAMBDA e : With(e.reps, "cancelled") # {})),
        rows |-> Each(CaseRow, listed),
        budget |-> IF o.budget THEN <<BudgetRow(records, listed)>> ELSE <<>>,
        comparison |-> DisplayedComparison(comparison, o),
        line |-> IF o.summary THEN HoldoutPairSummary(comparison, o) ELSE <<>>,
        progress |-> Progress(listed, Withheld(records, o))]

-----------------------------------------------------------------------------
(* The exit code and the reasons that the console prints with it.  Every       *)
(* majority of regressions counts as significant.                             *)

Harness == {"expected_sql_error", "harness_error", "infra_error", "llm_outage", "timeout", "aborted", "cancelled"}

AnswerFailed(e) == e.summary.counted > 0 /\ e.summary.passes < e.summary.counted
BehaviorFailed(e) == Cardinality(With(e.reps, "declined")) < Cardinality(ScoredReps(e.reps))

\* failOnAnyFailure: in a single run of the benchmark profile every failed case fails the run.  The
\* counts, of the cases, of those answered and of those that errored, are of the visible cases.
FailedCounts(shown) ==
    LET behavior == Chosen(shown, BehaviorFailed)
        answered == {id \in behavior : ScoredReps(shown[id].reps) \cap With(shown[id].reps, "answered_instead") # {}}
    IN <<Cardinality(Chosen(shown, AnswerFailed)) + Cardinality(behavior),
         Cardinality(answered), Cardinality(behavior) - Cardinality(answered)>>
FailedCases(records, o) ==
    IF /\ o.benchmark /\ \A id \in DOMAIN records : Len(records[id].reps) = 1
       /\ Chosen(records, AnswerFailed) \cup Chosen(records, BehaviorFailed) # {}
    THEN FailedCounts(Listed(records, o))
    ELSE <<>>

Errors(records) ==
    LET all == RepsOf(records) IN [x \in {y \in Harness : With(all, y) # {}} |-> Cardinality(With(all, x))]
Unpaired(records, c, o) ==
    LET paired == Cardinality(DOMAIN c.pairs) IN
    IF o.gate /\ (paired = 0 \/ 2 * paired < Cardinality(DOMAIN AnswersOf(records)))
    THEN <<paired, Cardinality(c.goldChanged), Cardinality(DOMAIN c.notCounted), Cardinality(c.new)>> ELSE <<>>
Flips(c) == <<Cardinality(Regressed(c.pairs)), Cardinality(Improved(c.pairs))>>
GateFails(c, o) == o.gate /\ Flips(c)[1] > Flips(c)[2]
HidesFlips(c, o) == ~o.reveal /\ (IF o.stored THEN DOMAIN Holdout(c) # {} ELSE c.holdout # {})

Doubts(records, c, o) ==
    [errors |-> Errors(records), unpaired |-> Unpaired(records, c, o),
     uncounted |-> CountedOf(records) = {} /\ (DOMAIN AnswersOf(records) # {} \/ DOMAIN records = {})]
IsDoubtful(doubts) == DOMAIN doubts.errors # {} \/ doubts.unpaired # <<>> \/ doubts.uncounted
ExitOf(records, c, o) ==
    LET doubts == Doubts(records, c, o)
        worse == GateFails(c, o)
        failed == FailedCases(records, o)
    IN IF IsDoubtful(doubts) THEN [code |-> 2, reasons |-> <<doubts>>]
       ELSE IF worse \/ failed # <<>>
       THEN [code |-> 1, reasons |-> <<worse, IF worse /\ ~HidesFlips(c, o) THEN Flips(c) ELSE <<>>, failed>>]
       ELSE [code |-> 0, reasons |-> <<>>]
ComputeExit(r, earlier, o) == ExitOf(CaseRecords(r), CompareReports(earlier, CaseRecords(r)), o)

-----------------------------------------------------------------------------
DisplayInit ==
    /\ results \in Results /\ baseline \in Baselines /\ option \in DisplayOptions
    /\ printed = <<>>

Publish ==
    /\ printed = <<>>
    /\ printed' = <<[report |-> Display(results, baseline, option), exit |-> ComputeExit(results, baseline, option)]>>
    /\ UNCHANGED <<results, baseline, option>>

DisplayNext == Publish
DisplaySpec == DisplayInit /\ [][DisplayNext]_displayVars

-----------------------------------------------------------------------------
(* Correctness.                                                             *)

\* What a reader may learn of the holdout: its cases, repetitions and accuracy, how many its budget
\* skipped and the whole run's spend, with --holdout-summary the paired outcomes whatever their cases,
\* and of an older recording whether a holdout case may be paired.
AggregateOf(records, c, o) ==
    LET budget == BudgetRow(records, Listed(records, o)) IN
    [row |-> SplitRow(records, TRUE, FALSE),
     repetitions |-> Cardinality(DOMAIN RepsOf(Withheld(records, o))),
     budget |-> IF o.budget THEN <<budget.spent, budget.unnamed>> ELSE <<>>,
     paired |-> IF o.summary /\ o.stored THEN Tally(Each(OutcomeKey, Holdout(c))) ELSE <<>>,
     unpaired |-> o.stored \/ PairsNoHoldoutCase(c)]
Aggregate(r, earlier, o) == AggregateOf(CaseRecords(r), CompareReports(earlier, CaseRecords(r)), o)

Reports == Results \X Baselines \X DisplayOptions
KnownOf == [x \in Reports |-> Aggregate(x[1], x[2], x[3])]
DisplayOf == [x \in Reports |-> Display(x[1], x[2], x[3])]

\* Runs that a reader who knows every dev result and the aggregate cannot tell from this one.
Alike ==
    {r \in Results : /\ \A id \in ReportCases \ HoldoutCases : r[id] = results[id]
                     /\ KnownOf[<<r, baseline, option>>] = KnownOf[<<results, baseline, option>>]}

SameExit(other) == other.code = printed[1].exit.code => other = printed[1].exit

\* The policy of holdout.js: no figure of report.md or of the console's headline says more about the
\* hidden holdout outcomes than the aggregate, alone or together with every dev figure; and where cases
\* failed a run without a gate, the reason says no more than that.
HoldoutStaysHidden ==
    printed # <<>> /\ ~option.reveal =>
        \A r \in Alike :
            /\ DisplayOf[<<r, baseline, option>>] = printed[1].report
            /\ ~option.gate /\ printed[1].exit.code = 1 => SameExit(ComputeExit(r, baseline, option))

\* Faulty claim: so does all the console prints, the reasons of an exit code the reader sees included
\* ("nothing about hidden holdout outcomes can be derived from report.md or the console by
\* subtraction", test/holdout-display.test.js:177).
ConsoleKeepsHoldout ==
    printed # <<>> /\ ~option.reveal =>
        \A r \in Alike : SameExit(ComputeExit(r, baseline, option))
=============================================================================
