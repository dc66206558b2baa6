---------------------------- MODULE QueryPipeline ----------------------------
(***************************************************************************)
(* One question through the optimized pipeline (runOptimizedQuestion in      *)
(* src/query-service.js with the prompt, widening and validation helpers of  *)
(* src/pipeline.js): master-data lookup, then a bounded loop of completion,  *)
(* validation against the prompt's tables and read-only execution.  The      *)
(* caller's signal may abort at any await.                                  *)
(*                                                                         *)
(* SQL is abstracted to the set of tables it reads; every other reason for   *)
(* which the validator rejects is one nondeterministic rejection.            *)
(***************************************************************************)
EXTENDS Naturals, FiniteSets

CONSTANTS
    InScope,      \* tables of the compiled schema
    Foreign,      \* other tables a model may name
    Retrieved,    \* tables retrieveRelevantTables picks for the question
    Linked,       \* Linked[t]: t and the connectors its widening adds
    MaxRetries    \* WEB_QUERY_MAX_RETRIES

ASSUME RetrievedInScope == Retrieved \subseteq InScope
ASSUME ForeignOutOfScope == Foreign \cap InScope = {}
ASSUME LinkedInScope ==
    /\ Linked \in [InScope -> SUBSET InScope]
    /\ \A t \in InScope : t \in Linked[t]
ASSUME MaxRetriesNat == MaxRetries \in Nat

VARIABLES
    scope,      \* effective schema scope: "full", "retrieved" or "widening"
    pc,         \* the await the question is at
    attempt,    \* failed attempts
    calls,      \* completions asked for
    allowed,    \* allow-list: the tables of the current prompt
    widened,    \* tables added to the prompt on demand
    sql,        \* tables of the SQL in hand
    decision,   \* decision of the response in hand
    response,   \* number of the call that gave lastResponse, 0: none
    feedback,   \* retry context of the current call: whose SQL, which stage failed
    rejected,   \* in-scope tables a TABLE_SCOPE rejection named
    billed,     \* calls for which the provider reported usage
    usages,     \* calls whose usage was collected
    ran,        \* tables read by SQL sent to the database
    aborted,    \* the caller's signal
    result,     \* "none", "success", "clarified" or the stage of the failure
    attemptCount,  \* attempts the result reports
    llmUsage       \* calls whose usage the result reports

vars == <<scope, pc, attempt, calls, allowed, widened, sql, decision, response,
          feedback, rejected, billed, usages, ran, aborted, result, attemptCount, llmUsage>>

Scopes == {"full", "retrieved", "widening"}
Waits == {"start", "resolving", "calling", "replied", "validated", "executing", "shaping", "done"}
Stages == {"llm", "validation", "schema_widened", "execution"}
Outcomes == {"success", "clarified", "aborted", "infra", "llm", "validation", "execution"}
CallNumbers == 0 .. MaxRetries + 1
NoFeedback == [sqlOf |-> 0, stage |-> "none"]

TypeOK ==
    /\ scope \in Scopes
    /\ pc \in Waits
    /\ attempt \in CallNumbers
    /\ calls \in CallNumbers
    /\ allowed \subseteq InScope
    /\ widened \subseteq InScope
    /\ sql \subseteq InScope \cup Foreign
    /\ decision \in {"answer", "ask"}
    /\ response \in CallNumbers
    /\ feedback \in [sqlOf : CallNumbers, stage : Stages \cup {"none"}]
    /\ rejected \subseteq InScope
    /\ billed \subseteq CallNumbers
    /\ usages \subseteq CallNumbers
    /\ ran \subseteq InScope
    /\ aborted \in BOOLEAN
    /\ result \in Outcomes \cup {"none"}
    /\ attemptCount \in CallNumbers
    /\ llmUsage \subseteq CallNumbers

-----------------------------------------------------------------------------
(* The prompt's tables *)

\* widenRetrievedTables: the union of the added tables' own widenings.
WidenRetrievedTables(extra) == Retrieved \cup UNION {Linked[t] : t \in extra \ Retrieved}

\* buildOptimizedPrompt: extra tables count in the retrieved scopes only.
PromptTables(extra) == IF scope = "full" THEN InScope ELSE WidenRetrievedTables(extra)

\* Faulty: SQL that also names a foreign table is not widened for.
TablesToWidenForAllOrNothing(t) == IF sql \subseteq InScope THEN sql \ allowed ELSE {}

\* tablesToWidenFor: every in-scope table of the SQL that is not allowed yet, if
\* the rejected table is in scope.
TablesToWidenFor(t) == IF t \in InScope THEN (sql \cap InScope) \ allowed ELSE {}

-----------------------------------------------------------------------------
(* Steps shared by the handlers *)

Init ==
    /\ scope \in Scopes
    /\ pc = "start"
    /\ attempt = 0
    /\ calls = 0
    /\ allowed = PromptTables({})
    /\ widened = {}
    /\ sql = {}
    /\ decision = "answer"
    /\ response = 0
    /\ feedback = NoFeedback
    /\ rejected = {}
    /\ billed = {}
    /\ usages = {}
    /\ ran = {}
    /\ aborted = FALSE
    /\ result = "none"
    /\ attemptCount = 0
    /\ llmUsage = {}

\* The question ends: the result carries the attempts made and their usage.
End(outcome, attempts, collected) ==
    /\ pc' = "done"
    /\ result' = outcome
    /\ attemptCount' = attempts
    /\ llmUsage' = collected
    /\ UNCHANGED <<calls, feedback, sql>>

\* The next completion is asked for, with the last response and the last error
\* as retry context.
BeginCall(context) ==
    /\ pc' = "calling"
    /\ calls' = calls + 1
    /\ feedback' = context
    /\ sql' = {}
    /\ UNCHANGED <<result, attemptCount, llmUsage>>

\* Faulty: the retry budget is off by one.
FailAttemptOnceMore(outcome, final, context, collected) ==
    /\ attempt' = attempt + 1
    /\ IF final \/ attempt > MaxRetries
         THEN End(outcome, attempt + 1, collected)
         ELSE BeginCall(context)

\* An attempt failed: another one follows unless the retries are used up or the
\* failure says nothing about the SQL.
FailAttempt(outcome, final, context, collected) ==
    /\ attempt' = attempt + 1
    /\ IF final \/ attempt + 1 > MaxRetries
         THEN End(outcome, attempt + 1, collected)
         ELSE BeginCall(context)

-----------------------------------------------------------------------------
(* Before the loop *)

\* A request that is gone before it starts costs nothing.
Start ==
    /\ pc = "start"
    /\ IF aborted
         THEN End("aborted", 0, usages)
         ELSE pc' = "resolving" /\ UNCHANGED <<calls, feedback, sql, result, attemptCount, llmUsage>>
    /\ UNCHANGED <<scope, attempt, allowed, widened, decision, response, rejected,
                   billed, usages, ran, aborted>>

\* The master-data lookup ends: with candidates, with an infrastructure failure,
\* or with a failure that degrades to no candidates.
Resolve(outcome) ==
    /\ pc = "resolving"
    /\ IF outcome # "found" /\ aborted
         THEN End("aborted", 0, usages)
         ELSE IF outcome = "infra"
           THEN End("infra", 0, usages)
           ELSE BeginCall(NoFeedback)
    /\ UNCHANGED <<scope, attempt, allowed, widened, decision, response, rejected,
                   billed, usages, ran, aborted>>

-----------------------------------------------------------------------------
(* The completion *)

\* A complete response: SQL (also unparsable output, taken as SQL) or a
\* clarification or abstention.  Some providers report no usage.
LlmReplies(d, tables, hasUsage) ==
    /\ pc = "calling"
    /\ ~aborted
    /\ pc' = "replied"
    /\ decision' = d
    /\ sql' = IF d = "answer" THEN tables ELSE {}
    /\ response' = calls
    /\ billed' = IF hasUsage THEN billed \cup {calls} ELSE billed
    /\ usages' = IF hasUsage THEN usages \cup {calls} ELSE usages
    /\ UNCHANGED <<scope, attempt, calls, allowed, widened, feedback, rejected,
                   ran, aborted, result, attemptCount, llmUsage>>

\* Faulty: only complete responses are counted.
LlmFailsUncounted(kind) ==
    /\ pc = "calling"
    /\ billed' = IF kind = "incomplete" THEN billed \cup {calls} ELSE billed
    /\ UNCHANGED usages
    /\ IF aborted \/ kind = "abort"
         THEN End("aborted", attempt + 1, usages) /\ UNCHANGED attempt
         ELSE FailAttempt("llm", kind = "unavailable", [sqlOf |-> response, stage |-> "llm"], usages)
    /\ UNCHANGED <<scope, allowed, widened, decision, response, rejected, ran, aborted>>

\* Faulty: the call is not raced against the signal (the SDK's backoff ignores it).
LlmFailsUnraced(kind) ==
    /\ pc = "calling"
    /\ kind # "abort"
    /\ billed' = IF kind = "incomplete" THEN billed \cup {calls} ELSE billed
    /\ usages' = billed'
    /\ IF aborted
         THEN End("aborted", attempt + 1, usages') /\ UNCHANGED attempt
         ELSE FailAttempt("llm", kind = "unavailable", [sqlOf |-> response, stage |-> "llm"], usages')
    /\ UNCHANGED <<scope, allowed, widened, decision, response, rejected, ran, aborted>>

\* The call fails: the provider is unavailable (fails fast), the completion is
\* incomplete (truncated, refused, invalid decision: billed and retried), some
\* other error, or the call was aborted.
LlmFails(kind) ==
    /\ pc = "calling"
    /\ billed' = IF kind = "incomplete" THEN billed \cup {calls} ELSE billed
    /\ usages' = IF kind = "incomplete" THEN usages \cup {calls} ELSE usages
    /\ IF aborted \/ kind = "abort"
         THEN End("aborted", attempt + 1, usages') /\ UNCHANGED attempt
         ELSE FailAttempt("llm", kind = "unavailable", [sqlOf |-> response, stage |-> "llm"], usages')
    /\ UNCHANGED <<scope, allowed, widened, decision, response, rejected, ran, aborted>>

-----------------------------------------------------------------------------
(* The response *)

\* A clarification or an abstention is a result, never SQL to run.
Clarify ==
    /\ pc = "replied"
    /\ decision = "ask"
    /\ End(IF aborted THEN "aborted" ELSE "clarified", attempt + 1, usages)
    /\ UNCHANGED <<scope, attempt, allowed, widened, decision, response, rejected,
                   billed, usages, ran, aborted>>

\* validateReadOnlySql accepts SQL that reads allowed tables only.
Accept ==
    /\ pc = "replied"
    /\ decision = "answer"
    /\ sql \subseteq allowed
    /\ pc' = "validated"
    /\ UNCHANGED <<scope, attempt, calls, allowed, widened, sql, decision, response,
                   feedback, rejected, billed, usages, ran, aborted, result, attemptCount, llmUsage>>

\* TABLE_SCOPE: the SQL reads a table outside the prompt.  With widening on
\* demand the retry gets a prompt with the in-scope tables the SQL needs.
RejectTable(t) ==
    /\ pc = "replied"
    /\ decision = "answer"
    /\ t \in sql \ allowed
    /\ rejected' = rejected \cup ({t} \cap InScope)
    /\ LET toAdd == IF scope = "widening" /\ attempt < MaxRetries THEN TablesToWidenFor(t) ELSE {}
       IN  /\ widened' = IF toAdd = {} THEN widened ELSE (widened \cup toAdd) \ Retrieved
           /\ allowed' = IF toAdd = {} THEN allowed ELSE PromptTables(widened \cup toAdd)
           /\ FailAttempt("validation", FALSE,
                          [sqlOf |-> response,
                           stage |-> IF toAdd = {} THEN "validation" ELSE "schema_widened"], usages)
    /\ UNCHANGED <<scope, decision, response, billed, usages, ran, aborted>>

\* Any other rejection: not a read-only statement, a guardrail, ...
RejectOther ==
    /\ pc = "replied"
    /\ decision = "answer"
    /\ FailAttempt("validation", FALSE, [sqlOf |-> response, stage |-> "validation"], usages)
    /\ UNCHANGED <<scope, allowed, widened, decision, response, rejected, billed,
                   usages, ran, aborted>>

-----------------------------------------------------------------------------
(* Execution *)

\* The last check before the database, then the statement is sent.
Execute ==
    /\ pc = "validated"
    /\ IF aborted
         THEN End("aborted", attempt + 1, usages) /\ UNCHANGED ran
         ELSE /\ pc' = "executing"
              /\ ran' = ran \cup sql
              /\ UNCHANGED <<calls, feedback, sql, result, attemptCount, llmUsage>>
    /\ UNCHANGED <<scope, attempt, allowed, widened, decision, response, rejected,
                   billed, usages, aborted>>

\* Rows arrive, never after an abort (PoolExecution), and are shaped and traced.
Rows ==
    /\ pc = "executing"
    /\ ~aborted
    /\ pc' = "shaping"
    /\ UNCHANGED <<scope, attempt, calls, allowed, widened, sql, decision, response,
                   feedback, rejected, billed, usages, ran, aborted, result, attemptCount, llmUsage>>

\* The statement fails, or its rows cannot be shaped.
ExecutionFails(infra) ==
    /\ pc \in {"executing", "shaping"}
    /\ IF aborted
         THEN End("aborted", attempt + 1, usages) /\ UNCHANGED attempt
         ELSE FailAttempt(IF infra THEN "infra" ELSE "execution", infra,
                          [sqlOf |-> response, stage |-> "execution"], usages)
    /\ UNCHANGED <<scope, allowed, widened, decision, response, rejected, billed,
                   usages, ran, aborted>>

\* The shaped result is returned unless the request was cancelled meanwhile.
Succeed ==
    /\ pc = "shaping"
    /\ End(IF aborted THEN "aborted" ELSE "success", attempt + 1, usages)
    /\ UNCHANGED <<scope, attempt, allowed, widened, decision, response, rejected,
                   billed, usages, ran, aborted>>

-----------------------------------------------------------------------------
\* The client goes away or the deadline passes.
Abort ==
    /\ ~aborted
    /\ aborted' = TRUE
    /\ UNCHANGED <<scope, pc, attempt, calls, allowed, widened, sql, decision, response,
                   feedback, rejected, billed, usages, ran, result, attemptCount, llmUsage>>

Next ==
    \/ Start
    \/ \E outcome \in {"found", "infra", "degraded"} : Resolve(outcome)
    \/ \E d \in {"answer", "ask"}, tables \in SUBSET (InScope \cup Foreign), u \in BOOLEAN :
         LlmReplies(d, tables, u)
    \/ \E kind \in {"unavailable", "incomplete", "other", "abort"} : LlmFails(kind)
    \/ Clarify
    \/ Accept
    \/ \E t \in InScope \cup Foreign : RejectTable(t)
    \/ RejectOther
    \/ Execute
    \/ Rows
    \/ \E infra \in BOOLEAN : ExecutionFails(infra)
    \/ Succeed
    \/ Abort

Spec == Init /\ [][Next]_vars

(* The code between two awaits runs, and an aborted await ends: every wait is   *)
(* raced against the signal (untilAborted).  Nothing else is fair: the provider *)
(* and the database may never answer.                                          *)
Judge == Clarify \/ Accept \/ RejectOther \/ \E t \in InScope \cup Foreign : RejectTable(t)
OnAbort ==
    /\ aborted
    /\ Resolve("degraded") \/ LlmFails("abort") \/ ExecutionFails(FALSE)
Fairness ==
    WF_vars(Start) /\ WF_vars(Judge) /\ WF_vars(Execute) /\ WF_vars(Succeed) /\ WF_vars(OnAbort)

FairSpec == Spec /\ Fairness

-----------------------------------------------------------------------------
(* Properties *)

(* The reported attempts are the completions really asked for, whichever exit   *)
(* the loop took.                                                              *)
AttemptsCounted == result # "none" => attemptCount = calls

(* The result's usage covers every completion the provider billed, truncated,   *)
(* refused and retried ones included ("keep the totals honest").               *)
UsageReported == result # "none" => llmUsage = billed

(* SQL that reached the database reads tables the current prompt shows, and      *)
(* without widening that is the retrieved set throughout.                       *)
ScopeKept ==
    /\ ran \subseteq allowed
    /\ scope = "retrieved" => allowed = Retrieved

(* A retry never loses a table or connector that an earlier prompt allowed.     *)
WideningSticks == [][allowed \subseteq allowed']_vars

(* With widening on demand no in-scope table is rejected a second time.         *)
RejectionHeals == scope = "widening" /\ result = "none" => rejected \subseteq allowed

(* The SQL that goes with the retry's error is the SQL of the attempt that       *)
(* failed ("The SQL above ...").                                               *)
FeedbackIsCurrent == pc = "calling" => feedback.sqlOf \in {0, calls - 1}

(* A question whose caller went away ends, whatever the provider and the         *)
(* database do.                                                                *)
AbortAnswers == aborted ~> result # "none"

(* The loop keeps what a question promises: QuestionContract.                   *)
Contract == INSTANCE QuestionContract WITH Budget <- MaxRetries + 1
ImplementsContract == Contract!Spec
=============================================================================
