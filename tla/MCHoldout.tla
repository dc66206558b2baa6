------------------------------- MODULE MCHoldout -------------------------------
(* Instances of HoldoutDisplay: one repetition of a dev case and of two holdout *)
(* cases, of which one has no gold and may meet its deadline.                  *)
EXTENDS HoldoutDisplay

Cases == {"dev_case", "holdout_case", "holdout_abstain"}
Hidden == {"holdout_case", "holdout_abstain"}
Intents == [id \in Cases |-> id]
Once(o) == <<Rep(o)>>
Late == <<[Rep("timeout") EXCEPT !.counted = FALSE]>>
SomeResults ==
    {[dev_case |-> x, holdout_case |-> y, holdout_abstain |-> z] :
        x \in {Once("pass"), Once("wrong_result"), Once("timeout"), Once("llm_error")},
        y \in {Once("pass"), Once("wrong_result"), Once("execution_error"), Once("timeout")},
        z \in {Once("declined"), Once("answered_instead"), Late}}
SomeBaselines == {<<>>}
SomeOptions ==
    {[reveal |-> r, summary |-> FALSE, budget |-> FALSE, stored |-> TRUE, gate |-> FALSE, benchmark |-> FALSE] : r \in BOOLEAN}
=============================================================================
