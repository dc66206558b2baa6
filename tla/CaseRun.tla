-------------------------------- MODULE CaseRun --------------------------------
(***************************************************************************)
(* One repetition of one evaluation case, from the gold to the verdict:       *)
(* evaluateQuestion (scripts/evaluate.js), the attempts rebuilt from its trace *)
(* (src/eval/case-trace.js), the re-check of guardrail rejections and the      *)
(* attribution of the outcome (src/eval/attribution.js).                      *)
(*                                                                         *)
(* The truth that the harness has to find out is a constant of each SQL: what  *)
(* its rows are worth and which rule of the validator it meets.  Databases and *)
(* providers fail, a gold may break in mid-run, and the case has a deadline.    *)
(***************************************************************************)
EXTENDS CaseOutcomes

CONSTANTS
    CaseWorlds,     \* [behavior, flag, gold, hidden], see below
    Rules,          \* codes of guardrail rules
    MaxTries,       \* maxRetries + 1
    MaxFaults       \* bound: faults that strike

(* behavior: "answer", or the decision that is expected;  flag: known_validator_rejection, or "none";  *)
(* gold: whether the gold runs;  hidden: an expected table is not among the retrieved ones.            *)

SafetyCode == "S"
Empty == [rows |-> "empty", rule |-> SafetyCode]    \* an empty query is a safety rejection (EMPTY_SQL)
NoSql == [rows |-> "none", rule |-> "none"]         \* the completion failed, or decided not to answer
Sqls == [rows : {"right", "wrong", "fails"}, rule : Rules \cup {SafetyCode, "none"}] \cup {Empty}

Worlds ==
    [behavior : {"answer", "clarify", "abstain"}, flag : Rules \cup {SafetyCode, "none"}, gold : BOOLEAN, hidden : BOOLEAN]

ASSUME CaseRunAssumption ==
    /\ CaseWorlds \subseteq Worlds
    /\ Rules \cap {SafetyCode, "none", "ok"} = {}
    /\ MaxTries \in Nat \ {0} /\ MaxFaults \in Nat

VARIABLES
    world,
    at,          \* "gold", "llm", "execute", "score", "check" or "done"
    tries,       \* the attempts: [sql, validation, execution, check]
    status,      \* the repetition's status
    struck,      \* faults that struck: "db", "gold", "llm", "deadline"
    checked,     \* guardrailCheck of each SQL of this case (the cache)
    judged       \* its outcome, as a list of at most one

caseRunVars == <<world, at, tries, status, struck, checked, judged>>

Attempt(sql) == [sql |-> sql, validation |-> "none", execution |-> "none", check |-> "none"]
Answerable == world.behavior = "answer"
Aborted == "deadline" \in struck
Current == tries[Len(tries)]

CaseRunInit ==
    /\ world \in CaseWorlds
    /\ at = IF Answerable THEN "gold" ELSE "llm"
    /\ tries = <<>> /\ status = "none" /\ struck = {} /\ judged = <<>>
    /\ checked = [q \in Sqls |-> "none"]

-----------------------------------------------------------------------------
(* evaluateQuestion                                                         *)

MayStrike(fault) == Cardinality(struck) < MaxFaults /\ struck' = struck \cup {fault}
Holds == UNCHANGED struck

\* The repetition ends; past the deadline whatever it says is late (src/eval/pool.js).
EndsAs(s) == status' = (IF Aborted THEN "aborted" ELSE s) /\ at' = "check"
Onto(to) == at' = to /\ UNCHANGED status

\* The signal of the case fires; each await below finds out.
DeadlineStrikes ==
    /\ at \in {"gold", "llm", "execute", "score"}
    /\ ~Aborted /\ MayStrike("deadline")
    /\ UNCHANGED <<world, at, tries, status, checked, judged>>

\* Every gold variant on every fixture; an outage is told from a broken gold (error_infra).
RunGolds ==
    /\ at = "gold"
    /\ \/ Holds /\ world.gold /\ ~Aborted /\ Onto("llm")
       \/ Holds /\ (~world.gold \/ Aborted) /\ EndsAs("expected_sql_error")
       \/ MayStrike("db") /\ EndsAs("gold_infra")
    /\ UNCHANGED <<world, tries, checked, judged>>

\* The loop tries again, or the question failed at stage s.
RetryOr(s) == IF Len(tries') < MaxTries THEN Onto("llm") ELSE EndsAs(s)

Validated(sql) == [Attempt(sql) EXCEPT !.validation = IF sql.rule = "none" THEN "ok" ELSE sql.rule]

\* A completion with SQL, and its validation.
Generate ==
    /\ at = "llm" /\ ~Aborted
    /\ \E sql \in Sqls :
        /\ tries' = Append(tries, Validated(sql))
        /\ IF sql.rule = "none" THEN Onto("execute") ELSE RetryOr("validation_error")
    /\ UNCHANGED <<world, struck, checked, judged>>

\* A completion that decides not to answer is a result of its own.
Decide ==
    /\ at = "llm" /\ ~Aborted
    /\ tries' = Append(tries, Attempt(NoSql))
    /\ \E decision \in {"clarify", "abstain"} : EndsAs(decision)
    /\ UNCHANGED <<world, struck, checked, judged>>

\* The completion fails; an outage of the provider is not tried again.
CompletionFails ==
    /\ at = "llm"
    /\ tries' = Append(tries, Attempt(NoSql))
    /\ \/ Holds /\ Aborted /\ EndsAs("aborted")
       \/ Holds /\ ~Aborted /\ RetryOr("llm_error")
       \/ MayStrike("llm") /\ EndsAs("llm_outage")
    /\ UNCHANGED <<world, checked, judged>>

Executed(result) == tries' = [tries EXCEPT ![Len(tries)].execution = result]

\* Neither an abort before the statement nor one that cuts it short leaves an execution.
Execute ==
    /\ at = "execute"
    /\ \/ Holds /\ Aborted /\ EndsAs("aborted") /\ UNCHANGED tries
       \/ Holds /\ ~Aborted /\ Current.sql.rows = "fails" /\ Executed("failed") /\ RetryOr("execution_error")
       \/ /\ Holds /\ ~Aborted /\ Current.sql.rows # "fails" /\ Executed("ok")
          /\ IF Answerable THEN Onto("score") ELSE EndsAs("answered")
       \/ MayStrike("db") /\ ~Aborted /\ Executed("infra") /\ EndsAs("infra_error")
    /\ UNCHANGED <<world, checked, judged>>

\* scorePrediction on every fixture; a gold that fails now throws, and the attempts are lost.
Score ==
    /\ at = "score"
    /\ \/ /\ Holds /\ UNCHANGED tries
          /\ EndsAs(IF Current.sql.rows = "right" THEN "pass" ELSE IF world.hidden THEN "retrieval_miss" ELSE "result_mismatch")
       \/ MayStrike("db") /\ EndsAs("infra_error") /\ UNCHANGED tries
       \/ MayStrike("gold") /\ EndsAs("evaluation_error") /\ tries' = <<>>
    /\ UNCHANGED <<world, checked, judged>>

-----------------------------------------------------------------------------
(* checkGuardrailRejections                                                  *)

IsGuardrailRejected(t) == t.validation \in Rules
Unchecked == {i \in DOMAIN tries : IsGuardrailRejected(tries[i]) /\ tries[i].check = "none"}
Noted(i, verdict) == tries' = [tries EXCEPT ![i].check = verdict]

\* The rejected SQL is run after all, once for each SQL; no deadline bounds it.
CheckRejection ==
    /\ at = "check" /\ Answerable /\ Unchecked # {}
    /\ LET i == CHOOSE j \in Unchecked : \A k \in Unchecked : j <= k
           sql == tries[i].sql
           Found(verdict) == Noted(i, verdict) /\ checked' = [checked EXCEPT ![sql] = verdict]
       IN IF checked[sql] # "none" THEN Noted(i, checked[sql]) /\ UNCHANGED <<checked, struck>>
          ELSE \/ Holds /\ Found(IF sql.rows = "right" THEN "false_rejection" ELSE "true_rejection")
               \/ MayStrike("db") /\ Found("error_infra")
               \/ MayStrike("gold") /\ Found("error")
    /\ UNCHANGED <<world, at, status, judged>>

-----------------------------------------------------------------------------
(* classifyRepetition                                                       *)

ProducedSql == \E i \in DOMAIN tries : tries[i].sql \notin {NoSql, Empty}

\* classifyBehaviorRepetition, of recordings with explicit decisions.
BehaviorOutcome ==
    CASE status \in {"clarify", "abstain"} /\ ~ProducedSql -> IF status = world.behavior THEN "declined" ELSE "wrong_behavior"
      [] status = "answered" \/ (status \in {"clarify", "abstain"} /\ ProducedSql) -> "answered_instead"
      [] status \in {"validation_error", "execution_error", "llm_error"} -> IF ProducedSql THEN "answered_instead" ELSE "llm_error"
      [] status = "aborted" -> "timeout"
      [] OTHER -> status

\* The outcome that the status stands for.
OwnOutcome ==
    CASE status \in {"clarify", "abstain"} -> "declined_answer"
      [] status = "gold_infra" -> "infra_error"
      [] status = "evaluation_error" -> "harness_error"
      [] status = "aborted" -> "timeout"
      [] status \in {"result_mismatch", "retrieval_miss"} -> "wrong_result"
      [] status = "validation_error" -> IF IsGuardrailRejected(Current) THEN "guardrail_true_rejection" ELSE "safety_rejection"
      [] OTHER -> status

Verdicts == {tries[i].check : i \in {j \in DOMAIN tries : IsGuardrailRejected(tries[j])}}

\* Faulty: a rejection that could not be checked again is taken for a true one.
CheckedOutcomeTrusting(own) ==
    IF own # "pass" /\ "false_rejection" \in Verdicts /\ BucketOf(own) = "model" THEN "guardrail_false_rejection" ELSE own

\* A model failure after a rejection that was false, or that could not be checked again.
CheckedOutcome(own) ==
    IF BucketOf(own) # "model" THEN own
    ELSE IF "false_rejection" \in Verdicts THEN "guardrail_false_rejection"
    ELSE IF "error_infra" \in Verdicts THEN "infra_error"
    ELSE IF "error" \in Verdicts THEN "harness_error"
    ELSE own

Rejections == {"guardrail_true_rejection", "safety_rejection"}
RetrievalSensitive == Rejections \cup {"wrong_result", "execution_error"}

\* The system's failure: retrieval left the table out, or the known rejection is what happened.
IsSystems(o) ==
    \/ o \in RetrievalSensitive /\ world.hidden
    \/ o \in Rejections /\ world.flag = Current.validation

Classify ==
    /\ at = "check" /\ (Answerable => Unchecked = {})
    /\ at' = "done"
    /\ LET final == IF Answerable THEN CheckedOutcome(OwnOutcome) ELSE BehaviorOutcome IN
       judged' = <<[outcome |-> final,
                    bucket |-> IF Answerable /\ IsSystems(final) THEN "system" ELSE BucketOf(final),
                    counted |-> Answerable /\ final \notin Excluded]>>
    /\ UNCHANGED <<world, tries, status, struck, checked>>

\* guardrailConfusion: the cell of attempt i.
RejectedCell(t) ==
    IF t.validation = SafetyCode THEN "safety"
    ELSE IF t.check = "true_rejection" THEN "tp"
    ELSE IF t.check = "false_rejection" THEN "fp" ELSE "unknown"

AcceptedCell(i) ==
    IF tries[i].execution = "failed" THEN "fn"
    ELSE IF i = Len(tries) /\ status = "pass" THEN "tn"
    ELSE IF i = Len(tries) /\ status \in {"result_mismatch", "retrieval_miss"} THEN "fn" ELSE "unknown"

Cell(i) ==
    IF status \in {"expected_sql_error", "gold_infra", "evaluation_error"} \/ tries[i].validation = "none" THEN "left out"
    ELSE IF tries[i].validation \in Rules \cup {SafetyCode} THEN RejectedCell(tries[i]) ELSE AcceptedCell(i)

CaseRunNext ==
    \/ DeadlineStrikes \/ RunGolds \/ Generate \/ Decide \/ CompletionFails \/ Execute \/ Score
    \/ CheckRejection \/ Classify

CaseRunSpec == CaseRunInit /\ [][CaseRunNext]_caseRunVars

-----------------------------------------------------------------------------
\* The repetition is charged to whoever failed.  A pass is right, and in time.  The model is charged
\* only for a case on which nothing broke, whose rejected attempts were all wrong, and not for the
\* rejection that the dataset documents nor for a table it was not shown; a fault excludes the
\* repetition from the accuracy unless a validator had thrown a right answer away, and nothing else
\* does.  A case without gold never counts, and is handled only if no SQL was written.
VerdictIsFair ==
    judged # <<>> =>
        LET v == judged[1]
            thrownAway == \E i \in DOMAIN tries : IsGuardrailRejected(tries[i]) /\ tries[i].sql.rows = "right"
        IN /\ v.outcome = "pass" => Current.sql.rows = "right" /\ ~Aborted
           /\ Answerable /\ v.bucket = "model" =>
                  /\ struck = {} /\ ~thrownAway /\ world.gold
                  /\ Current.validation # "none" => Current.validation # world.flag /\ ~world.hidden
           /\ Answerable /\ v.counted /\ struck # {} => v.outcome \in {"pass", "guardrail_false_rejection", "timeout"}
           /\ v.outcome = "guardrail_false_rejection" => thrownAway
           /\ Answerable /\ struck = {} => (v.counted <=> world.gold)
           /\ ~Answerable => ~v.counted
           /\ v.outcome = "declined" => ~ProducedSql /\ status = world.behavior

\* The guardrails' confusion matrix tells the truth about every attempt of a case with a gold, and
\* leaves one open only after a fault.
CellsAreTrue ==
    judged # <<>> /\ Answerable =>
        \A i \in DOMAIN tries :
            /\ Cell(i) \in {"tp", "fn"} => tries[i].sql.rows # "right"
            /\ Cell(i) \in {"fp", "tn"} => tries[i].sql.rows = "right"
            /\ Cell(i) = "unknown" => struck # {}

\* Neither the model nor a validator is blamed for what another did.
JudgedFairly == VerdictIsFair /\ CellsAreTrue
=============================================================================
