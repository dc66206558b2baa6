------------------------------ MODULE CaseSummary ------------------------------
(***************************************************************************)
(* The summary of one case's repetitions (summarizeCaseRepetitions in         *)
(* src/eval/attribution.js, through buildCaseRecord of src/eval/runner.js).    *)
(***************************************************************************)
EXTENDS CaseOutcomes

CONSTANT SomeRepetitions   \* lists of repetitions to summarize

\* classifyRepetition, classifyBehaviorRepetition: what counts has an outcome of a case with a gold
\* that is not excluded, and what is the system's counts.
Judged ==
    {rep \in [outcome : Outcomes, bucket : Range(BucketOrder), counted : BOOLEAN, scored : BOOLEAN] :
        /\ rep.counted => rep.outcome \notin Excluded \cup Behaviors
        /\ rep.bucket = "system" => rep.counted}

ASSUME SummaryAssumption == \A list \in SomeRepetitions : list \in Seq(Judged) /\ list # <<>>

VARIABLES reps, summary
summaryVars == <<reps, summary>>

SummaryInit == reps \in SomeRepetitions /\ summary = <<>>
SummarizeCase ==
    /\ summary = <<>>
    /\ summary' = <<Summarize(reps)>>
    /\ UNCHANGED reps
SummaryNext == SummarizeCase
SummarySpec == SummaryInit /\ [][SummaryNext]_summaryVars

\* A case's verdict does not depend on the order in which its repetitions ended, names a failure
\* exactly when no majority passed, and charges the model only when the repetitions with that
\* outcome are its fault more often than the system's.
SummaryIsFair ==
    summary # <<>> =>
        LET s == summary[1]
            charged(bucket) == Cardinality({i \in DOMAIN reps : reps[i].outcome = s.outcome /\ reps[i].bucket = bucket})
        IN /\ \A p \in {q \in [DOMAIN reps -> DOMAIN reps] : \A i, j \in DOMAIN q : q[i] = q[j] => i = j} :
                  Summarize([i \in DOMAIN reps |-> reps[p[i]]]) = s
           /\ s.counted > 0 => /\ s.majority <=> s.outcome = "pass"
                               /\ s.majority <=> s.passes > s.counted - s.passes
                               /\ s.outcome \notin Excluded \cup Behaviors
           /\ \E i \in DOMAIN reps : reps[i].outcome = s.outcome /\ reps[i].bucket = s.bucket
           /\ s.bucket = "model" => charged("model") > charged("system")
=============================================================================
