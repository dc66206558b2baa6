------------------------------ MODULE CaseOutcomes ------------------------------
(***************************************************************************)
(* The outcomes of repetitions (src/eval/attribution.js), and what those of   *)
(* one case add up to: the pass rate, the majority verdict, and the outcome   *)
(* and bucket that stand for the case (summarizeCaseRepetitions).             *)
(***************************************************************************)
EXTENDS Naturals, Sequences, SequencesExt, FiniteSets

\* OUTCOME_ORDER (on a tie the earlier one wins) and the expected behaviors of a case without gold.
OutcomeOrder ==
    <<"guardrail_false_rejection", "wrong_result", "guardrail_true_rejection", "safety_rejection", "execution_error",
      "llm_error", "timeout", "aborted", "pass", "infra_error", "llm_outage", "expected_sql_error", "harness_error",
      "skipped_budget", "cancelled", "answered_instead", "wrong_behavior", "declined_answer", "declined">>
Outcomes == Range(OutcomeOrder)

\* OUTCOME_BUCKETS.  The outcomes of the two behaviors are one each: "answered_instead" of either, and
\* "declined" for clarified and abstained too.
BucketOf(o) ==
    CASE o \in {"pass", "declined"} -> "pass"
      [] o = "guardrail_false_rejection" -> "system"
      [] o \in {"timeout", "aborted", "infra_error", "llm_outage"} -> "infra"
      [] o \in {"expected_sql_error", "harness_error"} -> "harness"
      [] o \in {"skipped_budget", "cancelled"} -> "skipped"
      [] OTHER -> "model"

\* Ties between buckets go to the system.
BucketOrder == <<"system", "pass", "model", "infra", "skipped", "harness">>

Behaviors == {"answered_instead", "wrong_behavior", "declined"}
Excluded == {"infra_error", "llm_outage", "expected_sql_error", "harness_error", "skipped_budget", "cancelled"}

\* A repetition: whether it counts for accuracy, and for the score of a case without gold.
Rep(o) ==
    [outcome |-> o, bucket |-> BucketOf(o), counted |-> o \notin Excluded \cup Behaviors, scored |-> o \in Behaviors]

\* A missing table moved a wrong result to the system; a case without gold whose completion failed.
Missed == [Rep("wrong_result") EXCEPT !.bucket = "system"]
NoDecision == [Rep("llm_error") EXCEPT !.counted = FALSE, !.scored = TRUE]

\* Repetitions of a list by their indices: those that count, those scored, those with an outcome.
CountedReps(list) == {i \in DOMAIN list : list[i].counted}
ScoredReps(list) == {i \in DOMAIN list : list[i].scored}
With(list, o) == {i \in DOMAIN list : list[i].outcome = o}

Place(order, item) == CHOOSE n \in DOMAIN order : order[n] = item

\* The most frequent of some items, by `order` on a tie.
PickMajority(order, items) ==
    LET Times(item) == Cardinality({i \in DOMAIN items : items[i] = item}) IN
    CHOOSE x \in Range(items) : \A y \in Range(items) \ {x} :
        Times(x) > Times(y) \/ (Times(x) = Times(y) /\ Place(order, x) < Place(order, y))

OutcomesOf(list, those) == [i \in those |-> list[i].outcome]
BucketsOf(list, those) == [i \in those |-> list[i].bucket]

\* Faulty: the bucket of the first of them.
BucketOfFirst(list, those) == list[CHOOSE i \in those : \A j \in those : i <= j].bucket

MajorityBucket(list, those) == PickMajority(BucketOrder, BucketsOf(list, those))

Passes(list) == Cardinality(CountedReps(list) \cap With(list, "pass"))
MajorityPass(list) == 2 * Passes(list) > Cardinality(CountedReps(list))
MajorityHandled(list) ==
    2 * Cardinality(ScoredReps(list) \cap With(list, "declined")) > Cardinality(ScoredReps(list))

\* The repetitions the case's outcome is taken from: those that agree with its verdict.
PoolOf(list) ==
    IF CountedReps(list) # {}
    THEN {i \in CountedReps(list) : i \in With(list, "pass") <=> MajorityPass(list)}
    ELSE IF ScoredReps(list) # {}
    THEN {i \in ScoredReps(list) : i \in With(list, "declined") <=> MajorityHandled(list)}
    ELSE DOMAIN list

MajorityOutcome(list) == PickMajority(OutcomeOrder, OutcomesOf(list, PoolOf(list)))
HasMajority(list) == CountedReps(list) # {} /\ MajorityPass(list)

Summarize(list) ==
    LET main == MajorityOutcome(list) IN
    [counted |-> Cardinality(CountedReps(list)), passes |-> Passes(list), majority |-> HasMajority(list),
     outcome |-> main, bucket |-> MajorityBucket(list, PoolOf(list) \cap With(list, main))]
=============================================================================
