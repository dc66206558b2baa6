-------------------------- MODULE QuestionContract --------------------------
(***************************************************************************)
(* What answering one question promises (runOptimizedQuestion): it costs at  *)
(* most Budget completions, the SQL it runs reads in-scope tables only, and  *)
(* it ends once, a success only after some completion.                      *)
(***************************************************************************)
EXTENDS Naturals

CONSTANTS InScope, Budget

VARIABLES calls, ran, result

Init == calls = 0 /\ ran = {} /\ result = "none"

\* One more completion is asked for.
Ask ==
    /\ result = "none"
    /\ calls < Budget
    /\ calls' = calls + 1
    /\ UNCHANGED <<ran, result>>

\* SQL that a completion proposed is run.
Read(tables) ==
    /\ result = "none"
    /\ calls > 0
    /\ ran' = ran \cup tables
    /\ UNCHANGED <<calls, result>>

End(outcome) ==
    /\ result = "none"
    /\ outcome \in {"success", "clarified"} => calls > 0
    /\ result' = outcome
    /\ UNCHANGED <<calls, ran>>

Next ==
    \/ Ask
    \/ \E tables \in SUBSET InScope : Read(tables)
    \/ \E outcome \in {"success", "clarified", "aborted", "infra", "llm", "validation", "execution"} :
         End(outcome)

Spec == Init /\ [][Next]_<<calls, ran, result>>
=============================================================================
