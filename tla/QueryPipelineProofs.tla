------------------------- MODULE QueryPipelineProofs -------------------------
(***************************************************************************)
(* Proofs about QueryPipeline for every schema, retrieved set, widening and  *)
(* number of retries.                                                        *)
(***************************************************************************)
EXTENDS QueryPipeline, FiniteSetTheorems, TLAPS

InLoop == pc \in {"calling", "replied", "validated", "executing", "shaping"}

\* The completions asked for, the failed attempts and the collected usage agree
\* at every await, and in the result.
Counting ==
    /\ pc \in {"start", "resolving"} => attempt = 0 /\ calls = 0 /\ usages = {}
    /\ InLoop => calls = attempt + 1 /\ attempt <= MaxRetries
    /\ pc = "done" <=> result # "none"
    /\ pc = "done" => attemptCount = calls /\ llmUsage = usages
    /\ billed = usages
    /\ response <= calls

\* The allow-list is the prompt of the widened tables, and whatever was run or
\* is about to run lies within it.
Scoped ==
    /\ allowed = PromptTables(widened)
    /\ scope # "widening" => widened = {}
    /\ ran \subseteq allowed
    /\ pc \in {"validated", "executing", "shaping"} => sql \subseteq allowed
    /\ scope = "widening" /\ result = "none" => rejected \subseteq allowed

IInv == TypeOK /\ Counting /\ Scoped

\* TypeOK in three parts.
ControlType ==
    /\ scope \in Scopes
    /\ pc \in Waits
    /\ attempt \in CallNumbers
    /\ calls \in CallNumbers
    /\ decision \in {"answer", "ask"}
    /\ response \in CallNumbers
    /\ attemptCount \in CallNumbers
    /\ aborted \in BOOLEAN
    /\ result \in Outcomes \cup {"none"}

TablesType ==
    /\ allowed \subseteq InScope
    /\ widened \subseteq InScope
    /\ sql \subseteq InScope \cup Foreign
    /\ rejected \subseteq InScope
    /\ ran \subseteq InScope

RecordType ==
    /\ feedback \in [sqlOf : CallNumbers, stage : Stages \cup {"none"}]
    /\ billed \subseteq CallNumbers
    /\ usages \subseteq CallNumbers
    /\ llmUsage \subseteq CallNumbers

USE MaxRetriesNat DEF InLoop, CallNumbers

-----------------------------------------------------------------------------
(* The prompt's tables *)

\* A wider set of added tables gives a wider prompt, within the schema.
LEMMA PromptGrows ==
  ASSUME NEW v \in SUBSET InScope, NEW w \in SUBSET InScope, v \subseteq w
  PROVE  /\ PromptTables(v) \subseteq PromptTables(w)
         /\ PromptTables(w) \subseteq InScope
  BY RetrievedInScope, LinkedInScope DEF PromptTables, WidenRetrievedTables

\* Tables that retrieval already picked add nothing to a prompt, every other
\* added table is in it.
LEMMA PromptHasAdded ==
  ASSUME NEW w \in SUBSET InScope
  PROVE  /\ PromptTables(w \ Retrieved) = PromptTables(w)
         /\ w \subseteq PromptTables(w)
<1>1. (w \ Retrieved) \ Retrieved = w \ Retrieved
  OBVIOUS
<1>2. PromptTables(w \ Retrieved) = PromptTables(w)
  BY <1>1 DEF PromptTables, WidenRetrievedTables
<1>3. ASSUME NEW t \in w PROVE t \in PromptTables(w)
  BY LinkedInScope DEF PromptTables, WidenRetrievedTables
<1>4. QED
  BY <1>2, <1>3

-----------------------------------------------------------------------------
(* The invariant is inductive *)

LEMMA TypeParts == TypeOK <=> ControlType /\ TablesType /\ RecordType
  BY DEF TypeOK, ControlType, TablesType, RecordType

LEMMA InitEstablishes == Init => IInv
<1> SUFFICES ASSUME Init PROVE IInv
  OBVIOUS
<1>1. PromptTables({}) \subseteq InScope
  BY PromptGrows
<1>2. TypeOK
  <2>1. ControlType
    <3>1. scope \in Scopes /\ pc \in Waits
      BY DEF Init, Waits
    <3>2. 0 \in CallNumbers
      OBVIOUS
    <3>3. QED
      BY <3>1, <3>2 DEF Init, ControlType
  <2>2. TablesType
    BY <1>1 DEF Init, TablesType
  <2>3. RecordType
    BY DEF Init, RecordType, NoFeedback
  <2>4. QED
    BY <2>1, <2>2, <2>3, TypeParts
<1>3. Counting
  BY DEF Init, Counting
<1>4. Scoped
  BY DEF Init, Scoped
<1>5. QED
  BY <1>2, <1>3, <1>4 DEF IInv

\* RejectTable is the only step that changes the prompt.
LEMMA TablesKept ==
  ASSUME IInv, UNCHANGED <<scope, allowed, widened, rejected>>,
         ran' \subseteq allowed,
         pc' \in {"validated", "executing", "shaping"} => sql' \subseteq allowed,
         result' = "none" => result = "none"
  PROVE  Scoped'
  BY DEF IInv, Scoped, PromptTables, WidenRetrievedTables

\* A request starts or is found aborted.
LEMMA StartStep ==
  ASSUME IInv, Start
  PROVE  IInv'
<1> USE DEF Start, End, BeginCall, FailAttempt
<1>1. TypeOK'
  <2>0. ControlType /\ TablesType /\ RecordType /\ Counting /\ Scoped
    BY TypeParts DEF IInv
  <2>1. ControlType'
    BY <2>0 DEF ControlType, Counting, Waits, Outcomes
  <2>2. TablesType'
    BY <2>0 DEF ControlType, TablesType, Scoped
  <2>3. RecordType'
    <3>1. feedback' \in [sqlOf : CallNumbers, stage : Stages \cup {"none"}]
      BY <2>0 DEF ControlType, RecordType, Stages, NoFeedback
    <3>2. billed' \subseteq CallNumbers /\ usages' \subseteq CallNumbers /\ llmUsage' \subseteq CallNumbers
      BY <2>0 DEF ControlType, RecordType
    <3>3. QED
      BY <3>1, <3>2 DEF RecordType
  <2>4. QED
    BY <2>1, <2>2, <2>3 DEF TypeOK, ControlType, TablesType, RecordType
<1>2. Counting'
  BY DEF IInv, TypeOK, Counting, Waits
<1>3. Scoped'
  BY TablesKept DEF IInv, Scoped, Counting, TypeOK, Waits
<1>4. QED
  BY <1>1, <1>2, <1>3 DEF IInv

\* The master-data lookup ends.
LEMMA ResolveStep ==
  ASSUME IInv, NEW outcome \in {"found", "infra", "degraded"}, Resolve(outcome)
  PROVE  IInv'
<1> USE DEF Resolve, End, BeginCall, FailAttempt
<1>1. TypeOK'
  <2>0. ControlType /\ TablesType /\ RecordType /\ Counting /\ Scoped
    BY TypeParts DEF IInv
  <2>1. ControlType'
    BY <2>0 DEF ControlType, Counting, Waits, Outcomes
  <2>2. TablesType'
    BY <2>0 DEF ControlType, TablesType, Scoped
  <2>3. RecordType'
    <3>1. feedback' \in [sqlOf : CallNumbers, stage : Stages \cup {"none"}]
      BY <2>0 DEF ControlType, RecordType, Stages, NoFeedback
    <3>2. billed' \subseteq CallNumbers /\ usages' \subseteq CallNumbers /\ llmUsage' \subseteq CallNumbers
      BY <2>0 DEF ControlType, RecordType
    <3>3. QED
      BY <3>1, <3>2 DEF RecordType
  <2>4. QED
    BY <2>1, <2>2, <2>3 DEF TypeOK, ControlType, TablesType, RecordType
<1>2. Counting'
  BY DEF IInv, TypeOK, Counting, Waits
<1>3. Scoped'
  BY TablesKept DEF IInv, Scoped, Counting, TypeOK, Waits
<1>4. QED
  BY <1>1, <1>2, <1>3 DEF IInv

\* A complete response arrives.
LEMMA RepliesStep ==
  ASSUME IInv, NEW d \in {"answer", "ask"}, NEW tables \in SUBSET (InScope \cup Foreign), NEW u \in BOOLEAN,
         LlmReplies(d, tables, u)
  PROVE  IInv'
<1> USE DEF LlmReplies, End, BeginCall, FailAttempt
<1>1. TypeOK'
  <2>0. ControlType /\ TablesType /\ RecordType /\ Counting /\ Scoped
    BY TypeParts DEF IInv
  <2>1. ControlType'
    BY <2>0 DEF ControlType, Counting, Waits, Outcomes
  <2>2. TablesType'
    BY <2>0 DEF ControlType, TablesType, Scoped
  <2>3. RecordType'
    <3>1. feedback' \in [sqlOf : CallNumbers, stage : Stages \cup {"none"}]
      BY <2>0 DEF ControlType, RecordType, Stages, NoFeedback
    <3>2. billed' \subseteq CallNumbers /\ usages' \subseteq CallNumbers /\ llmUsage' \subseteq CallNumbers
      BY <2>0 DEF ControlType, RecordType
    <3>3. QED
      BY <3>1, <3>2 DEF RecordType
  <2>4. QED
    BY <2>1, <2>2, <2>3 DEF TypeOK, ControlType, TablesType, RecordType
<1>2. Counting'
  BY DEF IInv, TypeOK, Counting, Waits
<1>3. Scoped'
  BY TablesKept DEF IInv, Scoped, Counting, TypeOK, Waits
<1>4. QED
  BY <1>1, <1>2, <1>3 DEF IInv

\* The completion fails.
LEMMA FailsStep ==
  ASSUME IInv, NEW kind \in {"unavailable", "incomplete", "other", "abort"}, LlmFails(kind)
  PROVE  IInv'
<1> USE DEF LlmFails, End, BeginCall, FailAttempt
<1>1. TypeOK'
  <2>0. ControlType /\ TablesType /\ RecordType /\ Counting /\ Scoped
    BY TypeParts DEF IInv
  <2>1. ControlType'
    BY <2>0 DEF ControlType, Counting, Waits, Outcomes
  <2>2. TablesType'
    BY <2>0 DEF ControlType, TablesType, Scoped
  <2>3. RecordType'
    <3>1. feedback' \in [sqlOf : CallNumbers, stage : Stages \cup {"none"}]
      BY <2>0 DEF ControlType, RecordType, Stages, NoFeedback
    <3>2. billed' \subseteq CallNumbers /\ usages' \subseteq CallNumbers /\ llmUsage' \subseteq CallNumbers
      BY <2>0 DEF ControlType, RecordType
    <3>3. QED
      BY <3>1, <3>2 DEF RecordType
  <2>4. QED
    BY <2>1, <2>2, <2>3 DEF TypeOK, ControlType, TablesType, RecordType
<1>2. Counting'
  BY DEF IInv, TypeOK, Counting, Waits
<1>3. Scoped'
  BY TablesKept DEF IInv, Scoped, Counting, TypeOK, Waits
<1>4. QED
  BY <1>1, <1>2, <1>3 DEF IInv

\* The response is a clarification.
LEMMA ClarifyStep ==
  ASSUME IInv, Clarify
  PROVE  IInv'
<1> USE DEF Clarify, End, BeginCall, FailAttempt
<1>1. TypeOK'
  <2>0. ControlType /\ TablesType /\ RecordType /\ Counting /\ Scoped
    BY TypeParts DEF IInv
  <2>1. ControlType'
    BY <2>0 DEF ControlType, Counting, Waits, Outcomes
  <2>2. TablesType'
    BY <2>0 DEF ControlType, TablesType, Scoped
  <2>3. RecordType'
    <3>1. feedback' \in [sqlOf : CallNumbers, stage : Stages \cup {"none"}]
      BY <2>0 DEF ControlType, RecordType, Stages, NoFeedback
    <3>2. billed' \subseteq CallNumbers /\ usages' \subseteq CallNumbers /\ llmUsage' \subseteq CallNumbers
      BY <2>0 DEF ControlType, RecordType
    <3>3. QED
      BY <3>1, <3>2 DEF RecordType
  <2>4. QED
    BY <2>1, <2>2, <2>3 DEF TypeOK, ControlType, TablesType, RecordType
<1>2. Counting'
  BY DEF IInv, TypeOK, Counting, Waits
<1>3. Scoped'
  BY TablesKept DEF IInv, Scoped, Counting, TypeOK, Waits
<1>4. QED
  BY <1>1, <1>2, <1>3 DEF IInv

\* The validator accepts the SQL.
LEMMA AcceptStep ==
  ASSUME IInv, Accept
  PROVE  IInv'
<1> USE DEF Accept, End, BeginCall, FailAttempt
<1>1. TypeOK'
  <2>0. ControlType /\ TablesType /\ RecordType /\ Counting /\ Scoped
    BY TypeParts DEF IInv
  <2>1. ControlType'
    BY <2>0 DEF ControlType, Counting, Waits, Outcomes
  <2>2. TablesType'
    BY <2>0 DEF ControlType, TablesType, Scoped
  <2>3. RecordType'
    <3>1. feedback' \in [sqlOf : CallNumbers, stage : Stages \cup {"none"}]
      BY <2>0 DEF ControlType, RecordType, Stages, NoFeedback
    <3>2. billed' \subseteq CallNumbers /\ usages' \subseteq CallNumbers /\ llmUsage' \subseteq CallNumbers
      BY <2>0 DEF ControlType, RecordType
    <3>3. QED
      BY <3>1, <3>2 DEF RecordType
  <2>4. QED
    BY <2>1, <2>2, <2>3 DEF TypeOK, ControlType, TablesType, RecordType
<1>2. Counting'
  BY DEF IInv, TypeOK, Counting, Waits
<1>3. Scoped'
  BY TablesKept DEF IInv, Scoped, Counting, TypeOK, Waits
<1>4. QED
  BY <1>1, <1>2, <1>3 DEF IInv

\* The validator rejects the SQL.
LEMMA RejectOtherStep ==
  ASSUME IInv, RejectOther
  PROVE  IInv'
<1> USE DEF RejectOther, End, BeginCall, FailAttempt
<1>1. TypeOK'
  <2>0. ControlType /\ TablesType /\ RecordType /\ Counting /\ Scoped
    BY TypeParts DEF IInv
  <2>1. ControlType'
    BY <2>0 DEF ControlType, Counting, Waits, Outcomes
  <2>2. TablesType'
    BY <2>0 DEF ControlType, TablesType, Scoped
  <2>3. RecordType'
    <3>1. feedback' \in [sqlOf : CallNumbers, stage : Stages \cup {"none"}]
      BY <2>0 DEF ControlType, RecordType, Stages, NoFeedback
    <3>2. billed' \subseteq CallNumbers /\ usages' \subseteq CallNumbers /\ llmUsage' \subseteq CallNumbers
      BY <2>0 DEF ControlType, RecordType
    <3>3. QED
      BY <3>1, <3>2 DEF RecordType
  <2>4. QED
    BY <2>1, <2>2, <2>3 DEF TypeOK, ControlType, TablesType, RecordType
<1>2. Counting'
  BY DEF IInv, TypeOK, Counting, Waits
<1>3. Scoped'
  BY TablesKept DEF IInv, Scoped, Counting, TypeOK, Waits
<1>4. QED
  BY <1>1, <1>2, <1>3 DEF IInv

\* The SQL is sent.
LEMMA ExecuteStep ==
  ASSUME IInv, Execute
  PROVE  IInv'
<1> USE DEF Execute, End, BeginCall, FailAttempt
<1>1. TypeOK'
  <2>0. ControlType /\ TablesType /\ RecordType /\ Counting /\ Scoped
    BY TypeParts DEF IInv
  <2>1. ControlType'
    BY <2>0 DEF ControlType, Counting, Waits, Outcomes
  <2>2. TablesType'
    BY <2>0 DEF ControlType, TablesType, Scoped
  <2>3. RecordType'
    <3>1. feedback' \in [sqlOf : CallNumbers, stage : Stages \cup {"none"}]
      BY <2>0 DEF ControlType, RecordType, Stages, NoFeedback
    <3>2. billed' \subseteq CallNumbers /\ usages' \subseteq CallNumbers /\ llmUsage' \subseteq CallNumbers
      BY <2>0 DEF ControlType, RecordType
    <3>3. QED
      BY <3>1, <3>2 DEF RecordType
  <2>4. QED
    BY <2>1, <2>2, <2>3 DEF TypeOK, ControlType, TablesType, RecordType
<1>2. Counting'
  BY DEF IInv, TypeOK, Counting, Waits
<1>3. Scoped'
  BY TablesKept DEF IInv, Scoped, Counting, TypeOK, Waits
<1>4. QED
  BY <1>1, <1>2, <1>3 DEF IInv

\* Rows arrive.
LEMMA RowsStep ==
  ASSUME IInv, Rows
  PROVE  IInv'
<1> USE DEF Rows, End, BeginCall, FailAttempt
<1>1. TypeOK'
  <2>0. ControlType /\ TablesType /\ RecordType /\ Counting /\ Scoped
    BY TypeParts DEF IInv
  <2>1. ControlType'
    BY <2>0 DEF ControlType, Counting, Waits, Outcomes
  <2>2. TablesType'
    BY <2>0 DEF ControlType, TablesType, Scoped
  <2>3. RecordType'
    <3>1. feedback' \in [sqlOf : CallNumbers, stage : Stages \cup {"none"}]
      BY <2>0 DEF ControlType, RecordType, Stages, NoFeedback
    <3>2. billed' \subseteq CallNumbers /\ usages' \subseteq CallNumbers /\ llmUsage' \subseteq CallNumbers
      BY <2>0 DEF ControlType, RecordType
    <3>3. QED
      BY <3>1, <3>2 DEF RecordType
  <2>4. QED
    BY <2>1, <2>2, <2>3 DEF TypeOK, ControlType, TablesType, RecordType
<1>2. Counting'
  BY DEF IInv, TypeOK, Counting, Waits
<1>3. Scoped'
  BY TablesKept DEF IInv, Scoped, Counting, TypeOK, Waits
<1>4. QED
  BY <1>1, <1>2, <1>3 DEF IInv

\* The statement fails.
LEMMA ExecutionFailsStep ==
  ASSUME IInv, NEW infra \in BOOLEAN, ExecutionFails(infra)
  PROVE  IInv'
<1> USE DEF ExecutionFails, End, BeginCall, FailAttempt
<1>1. TypeOK'
  <2>0. ControlType /\ TablesType /\ RecordType /\ Counting /\ Scoped
    BY TypeParts DEF IInv
  <2>1. ControlType'
    BY <2>0 DEF ControlType, Counting, Waits, Outcomes
  <2>2. TablesType'
    BY <2>0 DEF ControlType, TablesType, Scoped
  <2>3. RecordType'
    <3>1. feedback' \in [sqlOf : CallNumbers, stage : Stages \cup {"none"}]
      BY <2>0 DEF ControlType, RecordType, Stages, NoFeedback
    <3>2. billed' \subseteq CallNumbers /\ usages' \subseteq CallNumbers /\ llmUsage' \subseteq CallNumbers
      BY <2>0 DEF ControlType, RecordType
    <3>3. QED
      BY <3>1, <3>2 DEF RecordType
  <2>4. QED
    BY <2>1, <2>2, <2>3 DEF TypeOK, ControlType, TablesType, RecordType
<1>2. Counting'
  BY DEF IInv, TypeOK, Counting, Waits
<1>3. Scoped'
  BY TablesKept DEF IInv, Scoped, Counting, TypeOK, Waits
<1>4. QED
  BY <1>1, <1>2, <1>3 DEF IInv

\* The result is returned.
LEMMA SucceedStep ==
  ASSUME IInv, Succeed
  PROVE  IInv'
<1> USE DEF Succeed, End, BeginCall, FailAttempt
<1>1. TypeOK'
  <2>0. ControlType /\ TablesType /\ RecordType /\ Counting /\ Scoped
    BY TypeParts DEF IInv
  <2>1. ControlType'
    BY <2>0 DEF ControlType, Counting, Waits, Outcomes
  <2>2. TablesType'
    BY <2>0 DEF ControlType, TablesType, Scoped
  <2>3. RecordType'
    <3>1. feedback' \in [sqlOf : CallNumbers, stage : Stages \cup {"none"}]
      BY <2>0 DEF ControlType, RecordType, Stages, NoFeedback
    <3>2. billed' \subseteq CallNumbers /\ usages' \subseteq CallNumbers /\ llmUsage' \subseteq CallNumbers
      BY <2>0 DEF ControlType, RecordType
    <3>3. QED
      BY <3>1, <3>2 DEF RecordType
  <2>4. QED
    BY <2>1, <2>2, <2>3 DEF TypeOK, ControlType, TablesType, RecordType
<1>2. Counting'
  BY DEF IInv, TypeOK, Counting, Waits
<1>3. Scoped'
  BY TablesKept DEF IInv, Scoped, Counting, TypeOK, Waits
<1>4. QED
  BY <1>1, <1>2, <1>3 DEF IInv

\* The signal aborts.
LEMMA AbortStep ==
  ASSUME IInv, Abort
  PROVE  IInv'
<1> USE DEF Abort, End, BeginCall, FailAttempt
<1>1. TypeOK'
  <2>0. ControlType /\ TablesType /\ RecordType /\ Counting /\ Scoped
    BY TypeParts DEF IInv
  <2>1. ControlType'
    BY <2>0 DEF ControlType, Counting, Waits, Outcomes
  <2>2. TablesType'
    BY <2>0 DEF ControlType, TablesType, Scoped
  <2>3. RecordType'
    <3>1. feedback' \in [sqlOf : CallNumbers, stage : Stages \cup {"none"}]
      BY <2>0 DEF ControlType, RecordType, Stages, NoFeedback
    <3>2. billed' \subseteq CallNumbers /\ usages' \subseteq CallNumbers /\ llmUsage' \subseteq CallNumbers
      BY <2>0 DEF ControlType, RecordType
    <3>3. QED
      BY <3>1, <3>2 DEF RecordType
  <2>4. QED
    BY <2>1, <2>2, <2>3 DEF TypeOK, ControlType, TablesType, RecordType
<1>2. Counting'
  BY DEF IInv, TypeOK, Counting, Waits
<1>3. Scoped'
  BY TablesKept DEF IInv, Scoped, Counting, TypeOK, Waits
<1>4. QED
  BY <1>1, <1>2, <1>3 DEF IInv

\* A table outside the prompt is rejected, and the prompt may be widened.
LEMMA RejectTableStep ==
  ASSUME IInv, NEW t \in InScope \cup Foreign, RejectTable(t)
  PROVE  IInv' /\ allowed \subseteq allowed'
<1>1. PICK toAdd \in SUBSET InScope :
        /\ toAdd = IF scope = "widening" /\ attempt < MaxRetries THEN TablesToWidenFor(t) ELSE {}
        /\ widened' = IF toAdd = {} THEN widened ELSE (widened \cup toAdd) \ Retrieved
        /\ allowed' = IF toAdd = {} THEN allowed ELSE PromptTables(widened \cup toAdd)
        /\ FailAttempt("validation", FALSE,
                       [sqlOf |-> response,
                        stage |-> IF toAdd = {} THEN "validation" ELSE "schema_widened"], usages)
  BY DEF RejectTable, TablesToWidenFor
<1>2. TypeOK /\ Counting /\ Scoped
  BY DEF IInv
<1>3. /\ allowed \subseteq allowed'
      /\ allowed' \subseteq InScope
      /\ allowed' = PromptTables(widened')
      /\ widened' \subseteq InScope
      /\ scope # "widening" => widened' = {}
  <2>1. CASE toAdd = {}
    BY <1>1, <1>2, <2>1 DEF TypeOK, Scoped
  <2>2. CASE toAdd # {}
    <3>1. widened \cup toAdd \in SUBSET InScope /\ widened \in SUBSET InScope
      BY <1>1, <1>2 DEF TypeOK
    <3>2. PromptTables((widened \cup toAdd) \ Retrieved) = PromptTables(widened \cup toAdd)
      BY <3>1, PromptHasAdded
    <3>3. PromptTables(widened) \subseteq PromptTables(widened \cup toAdd)
      BY <3>1, PromptGrows
    <3>4. PromptTables(widened \cup toAdd) \subseteq InScope
      BY <3>1, PromptGrows
    <3>5. QED
      BY <1>1, <1>2, <2>2, <3>1, <3>2, <3>3, <3>4 DEF Scoped
  <2>3. QED
    BY <2>1, <2>2
<1>4. UNCHANGED <<scope, decision, response, billed, usages, ran, aborted>>
      /\ pc = "replied" /\ rejected' = rejected \cup ({t} \cap InScope) /\ t \in sql \ allowed
  BY DEF RejectTable
<1>5. TypeOK'
  <2>0. ControlType /\ TablesType /\ RecordType
    BY <1>2, TypeParts
  <2>1. ControlType'
    BY <1>1, <1>2, <1>4, <2>0 DEF ControlType, Counting, FailAttempt, End, BeginCall, Waits, Outcomes
  <2>2. TablesType'
    BY <1>1, <1>3, <1>4, <2>0 DEF TablesType, FailAttempt, End, BeginCall
  <2>3. RecordType'
    <3>1. feedback' \in [sqlOf : CallNumbers, stage : Stages \cup {"none"}]
      BY <1>1, <2>0 DEF ControlType, RecordType, FailAttempt, End, BeginCall, Stages
    <3>2. billed' \subseteq CallNumbers /\ usages' \subseteq CallNumbers /\ llmUsage' \subseteq CallNumbers
      BY <1>1, <1>4, <2>0 DEF RecordType, FailAttempt, End, BeginCall
    <3>3. QED
      BY <3>1, <3>2 DEF RecordType
  <2>4. QED
    BY <2>1, <2>2, <2>3 DEF TypeOK, ControlType, TablesType, RecordType
<1>6. Counting'
  BY <1>1, <1>2, <1>4 DEF TypeOK, Counting, FailAttempt, End, BeginCall, Waits
<1>7. ASSUME scope = "widening", result' = "none" PROVE rejected' \subseteq allowed'
  <2>1. attempt < MaxRetries /\ result = "none"
    BY <1>1, <1>2, <1>4, <1>7 DEF FailAttempt, End, TypeOK, Counting, Waits
  <2>2. t \in InScope => t \in toAdd
    BY <1>1, <1>4, <1>7, <2>1 DEF TablesToWidenFor
  <2>3. toAdd # {} => toAdd \subseteq allowed'
    BY <1>1, <1>2, PromptHasAdded DEF TypeOK
  <2>4. QED
    BY <1>2, <1>3, <1>4, <1>7, <2>1, <2>2, <2>3 DEF Scoped
<1>8. Scoped'
  <2>1. pc' \in {"calling", "done"}
    BY <1>1 DEF FailAttempt, End, BeginCall
  <2>2. allowed' = PromptTables(widened)' 
    BY <1>3, <1>4 DEF PromptTables, WidenRetrievedTables
  <2>3. QED
    BY <1>2, <1>3, <1>4, <1>7, <2>1, <2>2 DEF Scoped
<1>9. QED
  BY <1>3, <1>5, <1>6, <1>8 DEF IInv

LEMMA NextPreserves == IInv /\ [Next]_vars => IInv'
<1> SUFFICES ASSUME IInv, [Next]_vars PROVE IInv'
  OBVIOUS
<1>1. CASE Start \/ \E outcome \in {"found", "infra", "degraded"} : Resolve(outcome)
  BY <1>1, StartStep, ResolveStep
<1>2. CASE \E d \in {"answer", "ask"}, tables \in SUBSET (InScope \cup Foreign), u \in BOOLEAN :
             LlmReplies(d, tables, u)
  BY <1>2, RepliesStep
<1>3. CASE \E kind \in {"unavailable", "incomplete", "other", "abort"} : LlmFails(kind)
  BY <1>3, FailsStep
<1>4. CASE Clarify \/ Accept \/ RejectOther \/ \E t \in InScope \cup Foreign : RejectTable(t)
  BY <1>4, ClarifyStep, AcceptStep, RejectOtherStep, RejectTableStep
<1>5. CASE Execute \/ Rows \/ (\E infra \in BOOLEAN : ExecutionFails(infra)) \/ Succeed \/ Abort
  BY <1>5, ExecuteStep, RowsStep, ExecutionFailsStep, SucceedStep, AbortStep
<1>6. CASE UNCHANGED vars
  BY <1>6 DEF vars, IInv, TypeOK, Counting, Scoped, PromptTables, WidenRetrievedTables
<1>7. QED
  BY <1>1, <1>2, <1>3, <1>4, <1>5, <1>6 DEF Next

\* The strengthened invariant holds in every reachable state.
THEOREM Invariance == Spec => []IInv
<1>1. Init => IInv
  BY InitEstablishes
<1>2. IInv /\ [Next]_vars => IInv'
  BY NextPreserves
<1>3. QED
  BY <1>1, <1>2, PTL DEF Spec

-----------------------------------------------------------------------------
(* What the invariant shows *)

\* The reported attempts are the completions asked for, at most MaxRetries + 1.
THEOREM AttemptsCountedHolds == Spec => [](AttemptsCounted /\ calls <= MaxRetries + 1)
<1>1. IInv => AttemptsCounted /\ calls <= MaxRetries + 1
  BY DEF IInv, TypeOK, Counting, AttemptsCounted
<1>2. QED
  BY <1>1, Invariance, PTL

\* The reported usage covers every billed completion.
THEOREM UsageReportedHolds == Spec => []UsageReported
<1>1. IInv => UsageReported
  BY DEF IInv, Counting, UsageReported
<1>2. QED
  BY <1>1, Invariance, PTL

\* SQL reaches the database only for tables the prompt shows.
THEOREM ScopeKeptHolds == Spec => []ScopeKept
<1>1. IInv => ScopeKept
  BY DEF IInv, TypeOK, Scoped, ScopeKept, PromptTables, WidenRetrievedTables
<1>2. QED
  BY <1>1, Invariance, PTL

\* With widening no in-scope table is rejected twice.
THEOREM RejectionHealsHolds == Spec => []RejectionHeals
<1>1. IInv => RejectionHeals
  BY DEF IInv, Scoped, RejectionHeals
<1>2. QED
  BY <1>1, Invariance, PTL

\* The allow-list only grows.
THEOREM WideningSticksHolds == Spec => WideningSticks
<1>1. ASSUME IInv, Next PROVE allowed \subseteq allowed'
  <2>1. CASE \E t \in InScope \cup Foreign : RejectTable(t)
    BY <1>1, <2>1, RejectTableStep
  <2>2. CASE ~ \E t \in InScope \cup Foreign : RejectTable(t)
    <3>1. allowed' = allowed
      BY <1>1, <2>2 DEF Next, Start, Resolve, LlmReplies, LlmFails, Clarify, Accept, RejectOther,
         Execute, Rows, ExecutionFails, Succeed, Abort
    <3>2. QED
      BY <3>1
  <2>3. QED
    BY <2>1, <2>2
<1>2. IInv /\ [Next]_vars => [allowed \subseteq allowed']_vars
  BY <1>1
<1>3. QED
  BY <1>2, Invariance, PTL DEF Spec, WideningSticks

-----------------------------------------------------------------------------
(* QuestionContract is implemented *)

\* An attempt that fails asks again within the budget or ends the question.
LEMMA FailAttemptRefines ==
  ASSUME IInv, InLoop, UNCHANGED ran,
         NEW outcome \in {"llm", "validation", "execution", "infra"},
         NEW final \in BOOLEAN, NEW context, NEW collected,
         FailAttempt(outcome, final, context, collected)
  PROVE  Contract!Next
<1>1. result = "none"
  BY DEF IInv, Counting
<1>2. CASE final \/ attempt + 1 > MaxRetries
  BY <1>1, <1>2 DEF FailAttempt, End, Contract!Next, Contract!End
<1>3. CASE ~(final \/ attempt + 1 > MaxRetries)
  BY <1>1, <1>3 DEF IInv, TypeOK, Counting, FailAttempt, BeginCall, Contract!Next, Contract!Ask
<1>4. QED
  BY <1>2, <1>3

\* An exit from the loop ends the question.
LEMMA EndRefines ==
  ASSUME IInv, InLoop, UNCHANGED ran,
         NEW outcome \in {"success", "clarified", "aborted"}, NEW attempts, NEW collected,
         End(outcome, attempts, collected)
  PROVE  Contract!Next
  BY DEF IInv, TypeOK, Counting, End, Contract!Next, Contract!End

\* Every step of the loop is a step of the contract or changes nothing it sees.
LEMMA NextRefines ==
  ASSUME IInv, [Next]_vars
  PROVE  Contract!Next \/ UNCHANGED <<calls, ran, result>>
<1>1. CASE Start
  BY <1>1 DEF IInv, Counting, Start, End, Contract!Next, Contract!End
<1>2. ASSUME NEW outcome \in {"found", "infra", "degraded"}, Resolve(outcome)
      PROVE  Contract!Next
  BY <1>2 DEF IInv, TypeOK, Counting, Resolve, End, BeginCall, Contract!Next, Contract!End, Contract!Ask
<1>3. CASE \E d \in {"answer", "ask"}, tables \in SUBSET (InScope \cup Foreign), u \in BOOLEAN :
             LlmReplies(d, tables, u)
  BY <1>3 DEF LlmReplies
<1>4. ASSUME NEW kind \in {"unavailable", "incomplete", "other", "abort"}, LlmFails(kind)
      PROVE  Contract!Next
  BY <1>4, FailAttemptRefines, EndRefines DEF LlmFails
<1>5. CASE Clarify
  BY <1>5, EndRefines DEF Clarify
<1>6. ASSUME NEW t \in InScope \cup Foreign, RejectTable(t)
      PROVE  Contract!Next
  BY <1>6, FailAttemptRefines DEF RejectTable
<1>7. CASE RejectOther
  BY <1>7, FailAttemptRefines DEF RejectOther
<1>8. CASE Execute
  <2>1. CASE aborted
    BY <1>8, <2>1, EndRefines DEF Execute
  <2>2. CASE ~aborted
    <3>1. sql \in SUBSET InScope /\ result = "none" /\ calls > 0
      BY <1>8 DEF IInv, TypeOK, Counting, Scoped, Execute
    <3>2. QED
      BY <1>8, <2>2, <3>1 DEF Execute, Contract!Next, Contract!Read
  <2>3. QED
    BY <2>1, <2>2
<1>9. ASSUME NEW infra \in BOOLEAN, ExecutionFails(infra)
      PROVE  Contract!Next
  <2>1. CASE aborted
    BY <1>9, <2>1, EndRefines DEF ExecutionFails
  <2>2. CASE ~aborted
    BY <1>9, <2>2, FailAttemptRefines DEF ExecutionFails
  <2>3. QED
    BY <2>1, <2>2
<1>10. CASE Succeed
  BY <1>10, EndRefines DEF Succeed
<1>11. CASE Accept \/ Rows \/ Abort \/ UNCHANGED vars
  BY <1>11 DEF Accept, Rows, Abort, vars
<1>12. QED
  BY <1>1, <1>2, <1>3, <1>4, <1>5, <1>6, <1>7, <1>8, <1>9, <1>10, <1>11 DEF Next

\* The pipeline implements QuestionContract: at most MaxRetries + 1 completions,
\* in-scope tables only, one result.
THEOREM RefinesContract == Spec => ImplementsContract
<1>1. Init => Contract!Init
  BY DEF Init, Contract!Init
<1>2. IInv /\ [Next]_vars => [Contract!Next]_<<calls, ran, result>>
  BY NextRefines
<1>3. QED
  BY <1>1, <1>2, Invariance, PTL DEF Spec, ImplementsContract, Contract!Spec
==============================================================================
