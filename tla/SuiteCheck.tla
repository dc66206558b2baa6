------------------------------ MODULE SuiteCheck ------------------------------
(***************************************************************************)
(* The check of a suite before any model is asked: the datasets become one     *)
(* list of cases (src/eval/suite.js), every case's gold and oracle controls     *)
(* run (src/eval/verify.js, src/eval/controls.js), and the kill rates are held   *)
(* against their floors, by `npm run verify-dataset` (scripts/verify-dataset.js)  *)
(* and at the start of `npm run eval` (scripts/eval.js).                      *)
(*                                                                         *)
(* What the server, the oracle and the validator say of a statement is a       *)
(* field of it.  A gold may have alternatives, all of them its variants.  The     *)
(* fixtures are FixtureSeeding's, the oracle is ResultOracle's; filters,          *)
(* row-count pins and reports are left out, and a pin that fails is "unsound".   *)
(***************************************************************************)
EXTENDS Naturals, Sequences, SequencesExt, FiniteSets, Functions

CONSTANTS
    Jobs,          \* families of what is run: [program, policy, controls, datasets, index]
    Variants,      \* Variants[gold]: its statements, [health, rejection, old]
    Folded,        \* Folded[question]: without regard to case
    FloorNum, FloorDen,   \* the kill rate to reach
    MaxGlitches    \* failures of the database

IsArray(s) == s \in Seq(ToSet(s))

\* The index has one entry for a case (loadControlsIndex throws on a second), and no control is
\* unscored by itself.
IsJob(j) ==
    /\ j.program \in {"verify-dataset", "eval"} /\ j.controls \in BOOLEAN
    /\ IsArray(j.datasets) /\ \A d \in DOMAIN j.datasets : IsArray(j.datasets[d])
    /\ IsArray(j.index) /\ \A e, f \in DOMAIN j.index : j.index[e].id = j.index[f].id => e = f
    /\ \A e \in ToSet(j.index) :
           IsArray(e.negative) /\ IsArray(e.positive) /\ \A n \in ToSet(e.negative) : n.truth # "unscored"

ASSUME SuiteAssumption ==
    /\ FloorNum \in Nat /\ FloorDen \in Nat /\ MaxGlitches \in Nat
    /\ \A family \in Jobs : \A j \in family : IsJob(j)

VARIABLES
    job,
    selection,   \* of the datasets: [kept, conflict]
    results,     \* results[d]: of the cases of dataset d
    glitches,
    exit         \* "loading", "running", "refused" (not started), "failed", "broken" (the database) or "passed"

suiteVars == <<job, selection, results, glitches, exit>>

-----------------------------------------------------------------------------
(* Selection.  A case is [id, question, gold, intent, flag]; one with gold ""   *)
(* expects no answer.  flag stands for every field outside the question and      *)
(* the scoring that a definition has.                                        *)

IsBehavior(c) == c.gold = ""
QuestionKey(c) == <<Folded[c.question], c.gold>>

DiffersButForFlag(c, d) == c.intent # d.intent   \* Faulty: the kept case's flag decides.

DuplicateDiffers(c, d) == c.intent # d.intent \/ c.flag # d.flag

AllCases(datasets) ==
    FlattenSeq([d \in DOMAIN datasets |-> [i \in DOMAIN datasets[d] |-> [inside |-> d, def |-> datasets[d][i]]]])

\* An entry is [def, inside]; a name is [def, entry] for each id seen.
Nothing == [kept |-> <<>>, names |-> [id \in {} |-> <<>>], conflict |-> FALSE]

Joined(kept, e, dataset) == [kept EXCEPT ![e].inside = @ \cup {dataset}]

\* One case more joins the entry of its id, or of its question, or gets one.
Add(chosen, one) ==
    LET c == one.def
        isNamed == c.id \in DOMAIN chosen.names
        alike == {e \in DOMAIN chosen.kept : QuestionKey(chosen.kept[e].def) = QuestionKey(c)}
        entry == IF isNamed THEN chosen.names[c.id].entry
                 ELSE IF alike = {} THEN Len(chosen.kept) + 1 ELSE CHOOSE e \in alike : TRUE
        conflict == IF isNamed THEN chosen.names[c.id].def # c
                    ELSE alike # {} /\ DuplicateDiffers(chosen.kept[entry].def, c)
    IN [kept |-> IF conflict THEN chosen.kept
                 ELSE IF entry = Len(chosen.kept) + 1 THEN Append(chosen.kept, [def |-> c, inside |-> {one.inside}])
                 ELSE Joined(chosen.kept, entry, one.inside),
        names |-> [id \in DOMAIN chosen.names \cup {c.id} |->
                      IF id \in DOMAIN chosen.names THEN chosen.names[id] ELSE [def |-> c, entry |-> entry]],
        conflict |-> chosen.conflict \/ conflict]

Dedupe(datasets) ==
    LET all == AllCases(datasets)
        chosen[n \in 0 .. Len(all)] == IF n = 0 THEN Nothing ELSE Add(chosen[n - 1], all[n])
    IN chosen[Len(all)]

-----------------------------------------------------------------------------
(* Controls.  An entry is [id, intent, gold, negative, positive]: written for    *)
(* the gold, or for any ("").                                                *)

Uncontrolled(stale) == [negative |-> <<>>, positive |-> <<>>, stale |-> stale]
Resolve(c, index) ==
    LET direct == {k \in DOMAIN index : index[k].id = c.id}
        kin == {k \in DOMAIN index : index[k].intent = c.intent /\ index[k].gold = c.gold}
        First(ks) == index[CHOOSE k \in ks : \A other \in ks : k <= other]
        Of(e) == [negative |-> e.negative, positive |-> e.positive, stale |-> FALSE]
    IN  IF direct # {}
        THEN IF First(direct).gold \notin {"", c.gold} THEN Uncontrolled(TRUE) ELSE Of(First(direct))
        ELSE IF kin # {} THEN Of(First(kin)) ELSE Uncontrolled(FALSE)

HasNegative(c) == LET r == Resolve(c, job.index) IN ~r.stale /\ r.negative # <<>>
AnswersOf(cases) == {c \in ToSet(cases) : ~IsBehavior(c)}

CoverageFails ==
    LET answers == [d \in DOMAIN job.datasets |-> AnswersOf(job.datasets[d])]
        covered == \E d \in DOMAIN answers : \E c \in answers[d] : HasNegative(c)
    IN  /\ job.controls
        /\ \/ job.policy = "strict" /\ \E d \in DOMAIN answers : \E c \in answers[d] : ~HasNegative(c)
           \/ (\E d \in DOMAIN answers : answers[d] # {}) /\ ~covered

-----------------------------------------------------------------------------
(* One case.  A glitch is <<"none", 0>>, <<"gold", 0>> (its first statement meets  *)
(* the failure), <<"negative", k>> or <<"positive", k>>.                        *)

\* A validator's answer that is no problem: the flagged one, or a table that retrieval missed.
Noted(c, rejection) ==
    rejection = "none" \/ (rejection = "known" /\ c.flag = "known") \/ rejection = "scope"

ControlStatusByMatch(n, unscored) == IF n.truth = "survived" THEN "survived" ELSE "killed"   \* Faulty: an error is a mismatch.

ControlStatus(n, unscored) == IF unscored THEN "unscored" ELSE n.truth

\* A flag that no variant needs any more, under any hints version.
FlagIsStale(c, goldFails) ==
    /\ c.flag = "known" /\ ~goldFails
    /\ \A v \in ToSet(Variants[c.gold]) : v.rejection \notin {"known", "scope"} /\ ~v.old

VerifyCase(c, glitch) ==
    LET variants == Variants[c.gold]
        goldFails == glitch = <<"gold", 0>> \/ \E i \in DOMAIN variants : variants[i].health = "fails"
        found == Resolve(c, job.index)
        checked == job.controls /\ ~goldFails
        negative == [k \in DOMAIN found.negative |->
                       [heldout |-> found.negative[k].heldout,
                        status |-> ControlStatus(found.negative[k], glitch = <<"negative", k>>)]]
        wrong(k) == \/ ~found.positive[k].match \/ glitch = <<"positive", k>>
                    \/ ~Noted(c, found.positive[k].rejection) /\ ~found.positive[k].excused
        problem ==
            \/ goldFails
            \/ \E i \in DOMAIN variants : variants[i].health # "sound" \/ ~Noted(c, variants[i].rejection)
            \/ FlagIsStale(c, goldFails) /\ job.program = "verify-dataset"
            \/ checked /\ found.stale
            \/ checked /\ \E k \in DOMAIN found.positive : wrong(k)
            \/ checked /\ \E k \in DOMAIN negative : negative[k].status \in {"unscored", "invalid"}
        direct == job.controls /\ \E e \in ToSet(job.index) : e.id = c.id
    IN  IF IsBehavior(c) THEN [def |-> c, problem |-> direct, negative |-> <<>>, positive |-> 0]
        ELSE [def |-> c, problem |-> problem,
              negative |-> IF checked THEN negative ELSE <<>>,
              positive |-> IF checked THEN Len(found.positive) ELSE 0]

\* verifySuite has one result for a definition, wherever it is.
Earlier(c) ==
    IF job.program = "verify-dataset" THEN {}
    ELSE {r \in UNION {ToSet(results[d]) : d \in DOMAIN results} : r.def = c}

-----------------------------------------------------------------------------
(* The gates of a dataset.                                                  *)

\* The places of a tier's controls in lists of controls.
OfTier(lists, heldout) ==
    {p \in UNION {{i} \X DOMAIN lists[i] : i \in DOMAIN lists} : lists[p[1]][p[2]].heldout = heldout}

Negatives(d) == [i \in DOMAIN results[d] |-> results[d][i].negative]
HasControls(d) ==
    \E i \in DOMAIN results[d] : results[d][i].negative # <<>> \/ results[d][i].positive > 0

Floor(heldout) == IF heldout /\ job.policy = "regression" THEN 0 ELSE FloorNum

KillRateFails(d) ==
    \E heldout \in BOOLEAN :
        LET all == OfTier(Negatives(d), heldout)
            killed == {p \in all : Negatives(d)[p[1]][p[2]].status = "killed"}
        IN  IF all = {} THEN Floor(heldout) > 0
            ELSE Cardinality(killed) * FloorDen < Floor(heldout) * Cardinality(all)

GateFails(d) ==
    LET answers == {i \in DOMAIN results[d] : ~IsBehavior(results[d][i].def)} IN
    IF job.program = "verify-dataset" THEN HasControls(d) /\ KillRateFails(d)
    ELSE /\ job.controls
         /\ \/ job.policy = "strict" /\ \E i \in answers : results[d][i].negative = <<>>
            \/ (HasControls(d) \/ answers # {}) /\ KillRateFails(d)

-----------------------------------------------------------------------------
SuiteInit ==
    /\ \E family \in Jobs : job \in family
    /\ selection = Nothing
    /\ results = [d \in DOMAIN job.datasets |-> <<>>]
    /\ glitches = 0 /\ exit = "loading"

Load ==
    /\ exit = "loading"
    /\ selection' = IF job.program = "eval" THEN Dedupe(job.datasets) ELSE selection
    /\ exit' = IF selection'.conflict \/ CoverageFails THEN "refused" ELSE "running"
    /\ UNCHANGED <<job, results, glitches>>

IsNext(d, i) ==
    /\ \A e \in 1 .. d - 1 : Len(results[e]) = Len(job.datasets[e])
    /\ Len(results[d]) = i - 1 /\ i <= Len(job.datasets[d])

GlitchesOf(c) ==
    LET found == Resolve(c, job.index) IN
    {<<"gold", 0>>} \cup ({"negative"} \X DOMAIN found.negative) \cup ({"positive"} \X DOMAIN found.positive)

Verify(d, i, glitch) ==
    LET c == job.datasets[d][i]
        result == IF Earlier(c) # {} THEN CHOOSE r \in Earlier(c) : TRUE ELSE VerifyCase(c, glitch)
    IN  /\ exit = "running" /\ IsNext(d, i)
        /\ results' = [results EXCEPT ![d] = Append(@, result)]
        /\ UNCHANGED <<job, selection, exit>>

CheckCase == \E d \in DOMAIN results : \E i \in DOMAIN job.datasets[d] : Verify(d, i, <<"none", 0>>) /\ UNCHANGED glitches

CheckUnderGlitch ==
    /\ glitches < MaxGlitches /\ glitches' = glitches + 1
    /\ \E d \in DOMAIN results : \E i \in DOMAIN job.datasets[d] :
           LET c == job.datasets[d][i] IN
           Earlier(c) = {} /\ ~IsBehavior(c) /\ \E glitch \in GlitchesOf(c) : Verify(d, i, glitch)

\* The database fails a lookup of the prompt, or the gold past its LIMIT: nothing catches it.
Breaks ==
    /\ exit = "running" /\ glitches < MaxGlitches
    /\ \E d \in DOMAIN results : \E i \in DOMAIN job.datasets[d] : IsNext(d, i) /\ ~IsBehavior(job.datasets[d][i])
    /\ glitches' = glitches + 1 /\ exit' = "broken"
    /\ UNCHANGED <<job, selection, results>>

Finish ==
    /\ exit = "running"
    /\ \A d \in DOMAIN results : Len(results[d]) = Len(job.datasets[d])
    /\ exit' = IF \E d \in DOMAIN results : GateFails(d) \/ \E i \in DOMAIN results[d] : results[d][i].problem
               THEN "failed" ELSE "passed"
    /\ UNCHANGED <<job, selection, results, glitches>>

SuiteNext == Load \/ CheckCase \/ CheckUnderGlitch \/ Breaks \/ Finish

SuiteSpec == SuiteInit /\ [][SuiteNext]_suiteVars

-----------------------------------------------------------------------------
(* Correctness.                                                             *)

\* What the suite holds, whatever the database did meanwhile.
Holds(c) ==
    LET own == Resolve(c, job.index) IN
    IF IsBehavior(c) THEN job.controls => \A e \in ToSet(job.index) : e.id # c.id
    ELSE /\ \A v \in ToSet(Variants[c.gold]) : v.health = "sound" /\ Noted(c, v.rejection)
         /\ job.program = "verify-dataset" /\ c.flag = "known" =>
                \E v \in ToSet(Variants[c.gold]) : v.rejection \in {"known", "scope"} \/ v.old
         /\ job.controls =>
                /\ \A e \in ToSet(job.index) : e.id = c.id => e.gold \in {"", c.gold}
                /\ \A p \in ToSet(own.positive) : p.match /\ (Noted(c, p.rejection) \/ p.excused)
                /\ \A n \in ToSet(own.negative) : n.truth # "invalid"

\* The controls of a tier distinguish right from wrong often enough.
IsMeasured(cases, heldout) ==
    LET own == [i \in DOMAIN cases |-> IF IsBehavior(cases[i]) THEN <<>> ELSE Resolve(cases[i], job.index).negative]
        all == OfTier(own, heldout)
        killed == {p \in all : own[p[1]][p[2]].truth = "killed"}
    IN  IF all = {} THEN Floor(heldout) = 0 ELSE Cardinality(killed) * FloorDen >= Floor(heldout) * Cardinality(all)

\* A dataset that no control is for: verify-dataset says so and has no gate for it.
HasNone(cases) ==
    \A c \in AnswersOf(cases) : Resolve(c, job.index).negative = <<>> /\ Resolve(c, job.index).positive = <<>>

Deserves ==
    LET datasets == ToSet(job.datasets)
        all == UNION {ToSet(cases) : cases \in datasets}
        answers == {c \in all : ~IsBehavior(c)}
    IN  /\ \A c \in all : Holds(c)
        /\ job.program = "eval" => \A c, d \in all :
               (c.id = d.id => c = d) /\ (QuestionKey(c) = QuestionKey(d) => c.intent = d.intent /\ c.flag = d.flag)
        /\ job.controls =>
               /\ job.policy = "strict" => \A c \in answers : HasNegative(c)
               /\ answers # {} => \E c \in answers : HasNegative(c)
               /\ \A cases \in datasets : \/ HasNone(cases) /\ (job.program = "verify-dataset" \/ AnswersOf(cases) = {})
                                         \/ \A heldout \in BOOLEAN : IsMeasured(cases, heldout)

\* A suite passes only if every gold and control in it holds and the wrong controls are killed as often as
\* asked, and then it does: a broken control or a dropped connection "can only lower the reported rate,
\* never raise it", and eval applies the gates of verify-dataset.
PassIsDeserved ==
    /\ exit = "passed" => Deserves
    /\ exit \in {"refused", "failed"} /\ Deserves => glitches > 0

\* What a run measures does not depend on the order of its datasets: the same cases under the same
\* definitions, whichever of two ids for one question is kept, and every id selects its own question.
SelectionIsOrderFree ==
    exit # "loading" /\ job.program = "eval" =>
        LET orders == {p \in [DOMAIN job.datasets -> DOMAIN job.datasets] : IsInjective(p)}
            measured(chosen, order) ==
                {[key |-> QuestionKey(e.def), intent |-> e.def.intent, flag |-> e.def.flag, inside |-> {order[d] : d \in e.inside}] :
                    e \in ToSet(chosen.kept)}
            names(chosen) == {<<id, QuestionKey(chosen.kept[chosen.names[id].entry].def)>> : id \in DOMAIN chosen.names}
        IN  \A p \in orders :
               LET other == Dedupe([d \in DOMAIN job.datasets |-> job.datasets[p[d]]]) IN
               /\ other.conflict = selection.conflict
               /\ ~other.conflict =>
                      /\ measured(other, p) = measured(selection, [d \in DOMAIN p |-> d])
                      /\ names(other) = names(selection)
                      /\ names(other) = {<<c.id, QuestionKey(c)>> : c \in UNION {ToSet(cases) : cases \in ToSet(job.datasets)}}
=============================================================================
