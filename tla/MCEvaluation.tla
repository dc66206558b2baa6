----------------------------- MODULE MCEvaluation -----------------------------
(* Instances of BipartiteMatching, ResultOracle, GoldCache, Rescore,           *)
(* CompactReport, FixtureSeeding, SuiteCheck and HoldoutFreeze: a behavior is   *)
(* one of the component chosen at its start; the others idle.                  *)
EXTENDS BipartiteMatching, ResultOracle, GoldCache, CompactReport, FixtureSeeding, SuiteCheck, HoldoutFreeze

AllGraphs == [Left -> SUBSET Right]

-----------------------------------------------------------------------------
(* Comparisons.  N(n) is a number, W(n) a word.                              *)

N(n) == <<"num", n>>
W(n) == <<"text", n>>
Numerals == {N(1), N(2), N(3)}

Plain ==
    [mode |-> "rowset", tolerance |-> 0, order |-> "desc", columns |-> <<"name", "total">>, values |-> <<2>>,
     columnOrder |-> <<>>, zero |-> {}, ignoreZero |-> FALSE, emptyZero |-> FALSE]
Compare(spec, columns, fixtures) == [spec |-> spec, columns |-> columns, fixtures |-> fixtures]
Fixture(gold, ties, actual) == [golds |-> <<gold>>, ties |-> <<ties>>, actual |-> actual]
Row(name, total) == [name |-> name, total |-> total]
Listed(names, totals) == [i \in DOMAIN names |-> Row(W(names[i]), totals[i])]
NameAndTotal == <<"name", "total">>

\* Names and totals, in order or not, one name twice.
Rankings ==
    {Compare([Plain EXCEPT !.mode = m, !.tolerance = t], NameAndTotal,
             <<Fixture(Listed(<<1, 2, 3>>, <<N(3), w, x>>), <<>>, Listed(p, actual))>>) :
        m \in {"rowset", "ranked"}, t \in {0, 1}, w, x \in Numerals,
        p \in {<<1, 2, 3>>, <<2, 1, 3>>, <<1, 1, 2>>}, actual \in [1 .. 3 -> Numerals]}

\* Totals alone, under another name, with NULLs, beside a column that may be taken for them.
Unnamed(s, o) == [sum |-> s, other |-> o]
Totals(list) == [i \in DOMAIN list |-> [total |-> list[i]]]
Bare ==
    {Compare([Plain EXCEPT !.mode = m, !.tolerance = t, !.columns = <<"total">>, !.values = <<1>>], <<"sum", "other">>,
             <<Fixture(Totals(<<N(3), w, x>>), <<>>,
                       <<Unnamed(a[1], N(2)), Unnamed(a[2], N(1)), Unnamed(a[3], N(3))>>)>>) :
        m \in {"rowset", "ranked"}, t \in {0, 1}, w, x \in Numerals, a \in [1 .. 3 -> Numerals \cup {Null}]}

\* A LIMIT that cut a tie: two rows left out, of which one or both rank with the last.
CutTies ==
    {Compare([Plain EXCEPT !.mode = "ranked", !.tolerance = t], NameAndTotal,
             <<Fixture(Listed(<<1, 2, 3>>, <<N(3), w, N(1)>>), Listed(<<4, 5>>, <<N(1), y>>), Listed(p, actual))>>) :
        t \in {0, 1}, w \in {N(1), N(2)}, y \in {N(0), N(1)}, actual \in [1 .. 3 -> Numerals],
        p \in {<<1, 2, 3>>, <<1, 4, 3>>, <<1, 2, 4>>, <<1, 4, 5>>, <<1, 4, 4>>, <<4, 2, 1>>}}

\* Two number columns read from three, on two fixtures that may call for different readings.
XY(x, y) == [x |-> N(x), y |-> N(y)]
Three(b, x, c) == [b |-> N(b), x2 |-> N(x), c |-> N(c)]
TwoFixtures ==
    {Compare([Plain EXCEPT !.columns = <<"x", "y">>, !.columnOrder = o, !.tolerance = t, !.values = <<1>>], <<"b", "x2", "c">>,
             <<Fixture(g, <<>>, <<Three(h[1], h[2], h[3]), Three(h[4], h[5], 1)>>),
               Fixture(<<XY(1, 2)>>, <<>>, <<Three(2, k, 1)>>)>>) :
        t \in {0, 1}, o \in {<<>>, <<1, 2>>}, h \in [1 .. 5 -> 1 .. 2], k \in 1 .. 2,
        g \in {<<XY(1, 2), XY(2, 1)>>, <<XY(1, 2), XY(1, 2)>>, <<XY(1, 1), XY(2, 2)>>}}

\* NULLs that read as 0, and rows of zeros for members that the gold leaves out.
ZeroRows ==
    {Compare([Plain EXCEPT !.zero = {2}, !.ignoreZero = TRUE, !.tolerance = t], NameAndTotal,
             <<Fixture(Listed(<<1, 2>>, <<v, N(1)>>), <<>>, Listed(p, actual))>>) :
        t \in {0, 1}, v \in {Null, N(2)}, actual \in [1 .. 4 -> {Null, N(0), N(2)}] \cup [1 .. 4 -> {Null, N(1)}],
        p \in {<<1, 2>>, <<2, 3, 1>>, <<1, 2, 1>>, <<1, 2, 3, 3>>, <<1, 2, 3, 4>>}}

\* One value, two gold variants, and three columns to take it from, or no row.
Scalars ==
    {Compare([Plain EXCEPT !.mode = "scalar", !.columns = <<"total">>, !.values = <<1>>, !.zero = z, !.emptyZero = z # {}], names,
             <<[golds |-> <<Totals(<<v>>), Totals(<<N(7)>>)>>, ties |-> <<<<>>, <<>>>>,
                actual |-> IF r = <<>> THEN <<>> ELSE <<[n \in ToSet(names) |-> r[CHOOSE i \in 1 .. 3 : names[i] = n]]>>]>>) :
        names \in {<<"a", "b", "total">>, <<"net total", "b", "c">>, <<"net total", "b", "my total">>},
        z \in {{}, {1}}, v \in {Null, N(0), N(1)}, r \in {<<>>} \cup [1 .. 3 -> {N(1), N(7), Null, W(1)}]}

SomeCases == {Rankings, Bare, CutTies, TwoFixtures, ZeroRows, Scalars}
LikeNames == {<<"total", "net total">>, <<"total", "my total">>, <<"x", "x2">>}

-----------------------------------------------------------------------------
(* Three gold queries, two or three of them the same, of two cases and of a    *)
(* call without a signal; the signals are interchangeable.                     *)

SomeTasks ==
    {t \in [Calls -> [key : {"k1", "k2"}, signal : Signals \cup {NoSignal}]] :
        /\ t["c1"].key = "k1" /\ t["c2"].key = "k1"
        /\ t["c1"].signal # "s2" /\ (t["c1"].signal = NoSignal => t["c2"].signal # "s2")
        /\ t["c3"].key = "k2" => t["c2"].signal = t["c3"].signal}

-----------------------------------------------------------------------------
(* Recordings of up to two attempts with two SQLs, and the days they may meet. *)

Sqls == {"p", "q"}
Day(judge, widens) == [gold |-> TRUE, prompt |-> TRUE, widens |-> widens, judge |-> judge]
Fine == Day([q \in Sqls |-> "match"], TRUE)
SomeDays ==
    {Day(judge, widens) : judge \in [Sqls -> {"rejected", "scope", "match"}], widens \in BOOLEAN}
    \cup {Day([p |-> v, q |-> w], TRUE) :
              v \in {"mismatch", "execution_error", "infra"}, w \in {"mismatch", "infra_elsewhere", "gold"}}
    \cup {[Fine EXCEPT !.gold = FALSE], [Fine EXCEPT !.prompt = FALSE]}

Attempt(q) == [sql |-> q, mark |-> "none"]
SomeAttempts ==
    {<<>>} \cup {<<Attempt(a)>> : a \in Sqls \cup {NoSql, Clarify}}
    \cup {<<Attempt(a), Attempt(b)>> : a \in Sqls \cup {NoSql}, b \in Sqls \cup {NoSql, Clarify}}

\* What the product loop may have recorded with these attempts.
Recorded(status, attempts) ==
    LET n == Len(attempts) IN
    CASE status \in {"skipped_budget", "cancelled", "expected_sql_error"} -> n = 0
      [] status \in {"aborted", "infra_error", "evaluation_error"} -> \A i \in 1 .. n : attempts[i].sql # Clarify
      [] status = "clarify" -> n > 0 /\ attempts[n].sql = Clarify
      [] status = "llm_error" -> n > 0 /\ attempts[n].sql = NoSql
      [] OTHER -> n > 0 /\ attempts[n].sql \in Sqls
SomeRecordings ==
    {r \in [status : Executed \cup Kept \cup CutShort \cup {"validation_error", "execution_error", "llm_error", "clarify", "expected_sql_error"},
            attempts : SomeAttempts] : Recorded(r.status, r.attempts)}

-----------------------------------------------------------------------------
(* Recordings with what their calls used and cost: a call that failed may have  *)
(* been billed all the same, and one that answered may have no usage or price.  *)

Billed(a) ==
    IF a.sql = NoSql THEN {a @@ [usage |-> Unset, cost |-> Unset]}
    ELSE {a @@ [usage |-> u, cost |-> c] : u \in {Value(1, 1), NullValue}, c \in {Value(1, 1), NullValue}}
Total(values, extra) ==
    LET known == SelectSeq(values, LAMBDA v : v.is = "some") IN
    IF known = <<>> /\ extra = 0 THEN NullValue ELSE Value(Len(known) + extra, Len(known) + extra)
Totalled(r, attempts, extra, final) ==
    [status |-> r.status, replayTruncated |-> FALSE, inherited |-> FALSE, attempts |-> attempts, final |-> final, shared |-> 0,
     usage |-> Total([i \in DOMAIN attempts |-> attempts[i].usage], extra),
     cost |-> Total([i \in DOMAIN attempts |-> attempts[i].cost], extra)]
AttemptsOf(r) ==
    IF r.attempts = <<>> THEN {<<>>}
    ELSE IF Len(r.attempts) = 1 THEN {<<a>> : a \in Billed(r.attempts[1])}
    ELSE {<<a, b>> : a \in Billed(r.attempts[1]), b \in Billed(r.attempts[2])}
SafeSql == [q \in Sqls |-> IF q = "p" THEN "p" ELSE "q in read-only form"]
SomeRepetitions ==
    UNION {UNION {{Totalled(r, a, x, f) : x \in IF \E i \in DOMAIN a : a[i].sql = NoSql THEN {0, 1} ELSE {0},
                                         f \in {NoSql} \cup {SafeSql[q] : q \in {FinalAttemptSql(a)} \cap Sqls}} :
                  a \in AttemptsOf(r)} :
           r \in {s \in SomeRecordings : s.status \in {"pass", "validation_error", "aborted", "llm_error", "clarify", "skipped_budget"}}}
SomeDates ==
    {Day([p |-> v, q |-> w], TRUE) : v \in {"rejected", "scope", "match"}, w \in {"scope", "mismatch", "infra"}}
    \cup {[Fine EXCEPT !.gold = FALSE], [Fine EXCEPT !.prompt = FALSE]}

-----------------------------------------------------------------------------
(* Two runs of the seeding: of one checkout or of two, one of them only        *)
(* checking, and one of two fixtures alone.                                   *)

SeedRuns == {"r1", "r2"}
SetupOf(version, mode, wanted) == [version |-> version, mode |-> mode, wanted |-> wanted]
SomeSetups ==
    {[r \in SeedRuns |-> IF r = "r1" THEN SetupOf("new", "seed", {1}) ELSE other] :
        other \in {SetupOf("new", "seed", {1}), SetupOf("old", "seed", {1}),
                   SetupOf("new", "strict", {1}), SetupOf("old", "lenient", {1})}}
    \cup {[r \in SeedRuns |-> IF r = "r1" THEN SetupOf("old", "seed", {1, 2}) ELSE SetupOf("new", "seed", {})]}

-----------------------------------------------------------------------------
(* Suites of two datasets under an index of one or two controls, and three     *)
(* datasets whose cases may be duplicates of each other.                       *)

Defined(id, question, gold, intent, flag) ==
    [id |-> id, question |-> question, gold |-> gold, intent |-> intent, flag |-> flag]
Variant(health, rejection, old) == [health |-> health, rejection |-> rejection, old |-> old]
SomeVariants ==
    [g1 |-> <<Variant("sound", "none", FALSE)>>,
     g2 |-> <<Variant("sound", "known", TRUE), Variant("sound", "none", TRUE)>>,
     g3 |-> <<Variant("sound", "none", TRUE)>>,
     g4 |-> <<Variant("sound", "none", FALSE), Variant("fails", "none", FALSE)>>,
     g5 |-> <<Variant("unsound", "scope", FALSE)>>,
     g6 |-> <<Variant("sound", "other", FALSE)>>,
     g7 |-> <<Variant("sound", "scope", FALSE)>>]
FoldedCase == [q \in {"ask", "Ask", "tell"} |-> IF q = "Ask" THEN "ask" ELSE q]

Negative(truth, heldout) == [truth |-> truth, heldout |-> heldout]
Positive(match, rejection, excused) == [match |-> match, rejection |-> rejection, excused |-> excused]
Entry(id, intent, gold, negative, positive) ==
    [id |-> id, intent |-> intent, gold |-> gold, negative |-> negative, positive |-> positive]
NegativeLists ==
    {<<>>, <<Negative("killed", FALSE), Negative("killed", TRUE)>>, <<Negative("killed", TRUE), Negative("invalid", FALSE)>>,
     <<Negative("killed", FALSE), Negative("survived", FALSE), Negative("undecided", TRUE)>>,
     <<Negative("killed", FALSE), Negative("survived", TRUE)>>}
PositiveLists ==
    {<<>>, <<Positive(TRUE, "none", FALSE)>>, <<Positive(FALSE, "none", FALSE)>>, <<Positive(TRUE, "known", FALSE)>>,
     <<Positive(TRUE, "other", TRUE)>>}
Indexes ==
    {<<Entry("a", "i", g, n, p)>> : g \in {"", "g1", "g3"}, n \in NegativeLists, p \in PositiveLists}
    \cup {<<Entry("z", "i", g, n, <<>>), Entry("b", "k", "g1", m, <<>>)>> :
             g \in {"g1", "g2", "g7"}, n, m \in NegativeLists}

Told(gold) == Defined("b", "tell", gold, "i", "none")
Suites ==
    {<<<<Defined("a", "ask", g, "i", f)>>, <<Told(h)>>>> :
        g \in DOMAIN SomeVariants, h \in {"", "g1"}, f \in {"none", "known"}}
    \cup {<<<<Defined("a", "ask", g, "i", "none"), Told("g1")>>, <<Defined("a", "ask", g, "i", "none")>>>> :
             g \in {"g1", "g7"}}
Job(program, policy, controls, datasets, index) ==
    [program |-> program, policy |-> policy, controls |-> controls, datasets |-> datasets, index |-> index]
Programs == {"verify-dataset", "eval"}
Definitions ==
    {Defined(id, q, "g1", i, f) : id \in {"a", "b"}, q \in {"ask", "Ask"}, i \in {"i", "k"}, f \in {"none", "known"}}
SomeJobs ==
    {{Job(p, q, TRUE, s, x) : p \in Programs, q \in {"strict", "regression"}, s \in Suites, x \in Indexes},
     {Job(p, "strict", FALSE, s, <<>>) : p \in Programs, s \in Suites},
     {Job("eval", "strict", FALSE, <<<<c>>, <<d>>, <<e, Defined("z", "tell", "g7", "i", "none")>>>>, <<>>) :
          c, d, e \in Definitions}}

-----------------------------------------------------------------------------
(* A holdout case in two datasets, one in one, and a dev case of their intent  *)
(* and gold, with the controls of the first.                                 *)

TextOf(words, outside, quoted) == [words |-> words, outside |-> outside, quoted |-> quoted]
Plainly(words) == TextOf(words, "one", "one")
HeldCase(split, question) ==
    [split |-> split, question |-> Plainly(question), gold |-> Plainly("g"), labels |-> "l", pins |-> "p", intent |-> "i", notes |-> ""]
SomeDatasetNames == <<"core", "edge">>
SomeValues ==
    {"dev", "holdout", "one", "two", "ask", "beg", "say", "other", "wrong", "bad", "", "g", "h", "i", "j", "k", "l", "n", "o", "p"}
SomeDatasets ==
    [core |-> (1 :> HeldCase("holdout", "ask")) @@ (2 :> HeldCase("dev", "beg")),
     edge |-> (1 :> HeldCase("holdout", "ask")) @@ (3 :> HeldCase("holdout", "say"))]
ControlsOf(for, sql, note) == [for |-> for, intent |-> "i", sql |-> sql, note |-> note]
SomeControls == 1 :> ControlsOf("g", Plainly("wrong"), "")
SomeCaseEdits ==
    {<<"split", "dev">>, <<"split", "holdout">>, <<"labels", "k">>, <<"pins", "o">>, <<"notes", "n">>, <<"intent", "j">>,
     <<"question", Plainly("other")>>, <<"question", TextOf("ask", "two", "one")>>,
     <<"gold", Plainly("h")>>, <<"gold", TextOf("g", "two", "one")>>, <<"gold", TextOf("g", "one", "two")>>}
SomeControlEdits ==
    {<<1, NoControls>>, <<2, ControlsOf("h", Plainly("bad"), "")>>, <<1, ControlsOf("g", TextOf("wrong", "one", "two"), "")>>,
     <<1, ControlsOf("g", Plainly("wrong"), "n")>>}

-----------------------------------------------------------------------------
VARIABLE part    \* the component that moves

MatchingIdle ==
    /\ adjacency = [i \in Left |-> {}]
    /\ layer = [i \in Left |-> 0] /\ matchLeft = layer /\ matchRight = [j \in Right |-> 0]
    /\ stack = <<>> /\ todo = {} /\ phase = "done"
OracleIdle == case = "none" /\ verdict = "none"
GoldIdle ==
    /\ task = <<>> /\ aborted = {} /\ cache = <<>> /\ pending = <<>>
    /\ run = [c \in Calls |-> "rows"] /\ goldPc = run
CompactIdle == full = Totalled([status |-> "skipped_budget"], <<>>, 0, NoSql) /\ baseline = full
RescoreIdle == recording = "none" /\ report = <<>> /\ days = <<>>
SeedingIdle ==
    /\ setup = [r \in SetupRuns |-> SetupOf("none", "none", {})] /\ rows = <<>> /\ meta = <<>> /\ troubles = 0
    /\ at = [r \in SetupRuns |-> "idle"] /\ queue = [r \in SetupRuns |-> <<>>]
    /\ seen = queue /\ lacking = queue /\ exact = queue
FreezeIdle ==
    /\ caseFiles = [d \in ToSet(DatasetNames) |-> <<>>] /\ controlFile = <<>> /\ manifest = NoManifest
    /\ checkSaid = "" /\ handEdits = {} /\ edits = 0
SuiteIdle == job = <<>> /\ selection = <<>> /\ results = <<>> /\ glitches = 0 /\ exit = "loading"

Init ==
    /\ part \in {"matching", "oracle", "gold", "rescore", "seeding", "suite", "compaction", "freeze"}
    /\ IF part = "matching" THEN MatchingInit ELSE MatchingIdle
    /\ IF part = "oracle" THEN OracleInit ELSE OracleIdle
    /\ IF part = "gold" THEN GoldInit ELSE GoldIdle
    /\ IF part = "rescore" THEN RescoreInit ELSE RescoreIdle
    /\ IF part = "seeding" THEN SeedingInit ELSE SeedingIdle
    /\ IF part = "suite" THEN SuiteInit ELSE SuiteIdle
    /\ IF part = "compaction" THEN CompactInit ELSE CompactIdle
    /\ IF part = "freeze" THEN FreezeInit ELSE FreezeIdle

Next ==
    /\ UNCHANGED part
    /\ \/ part = "matching" /\ MatchingNext /\ UNCHANGED <<oracleVars, goldVars, rescoreVars, seedingVars, suiteVars, compactVars, freezeVars>>
       \/ part = "oracle" /\ OracleNext /\ UNCHANGED <<matchingVars, goldVars, rescoreVars, seedingVars, suiteVars, compactVars, freezeVars>>
       \/ part = "gold" /\ GoldNext /\ UNCHANGED <<matchingVars, oracleVars, rescoreVars, seedingVars, suiteVars, compactVars, freezeVars>>
       \/ part = "rescore" /\ RescoreNext /\ UNCHANGED <<matchingVars, oracleVars, goldVars, seedingVars, suiteVars, compactVars, freezeVars>>
       \/ part = "seeding" /\ SeedingNext /\ UNCHANGED <<matchingVars, oracleVars, goldVars, rescoreVars, suiteVars, compactVars, freezeVars>>
       \/ part = "suite" /\ SuiteNext /\ UNCHANGED <<matchingVars, oracleVars, goldVars, rescoreVars, seedingVars, compactVars, freezeVars>>
       \/ part = "compaction" /\ CompactNext /\ UNCHANGED <<matchingVars, oracleVars, goldVars, rescoreVars, seedingVars, suiteVars, freezeVars>>
       \/ part = "freeze" /\ FreezeNext /\ UNCHANGED <<matchingVars, oracleVars, goldVars, rescoreVars, seedingVars, suiteVars, compactVars>>

vars == <<part, matchingVars, oracleVars, goldVars, rescoreVars, seedingVars, suiteVars, compactVars, freezeVars>>

\* What an idle component does is never enabled, so its fairness asks for nothing.
Spec == Init /\ [][Next]_vars /\ MatchingFairness /\ GoldFairness /\ SeedingFairness
==============================================================================
