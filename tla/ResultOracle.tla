----------------------------- MODULE ResultOracle -----------------------------
(***************************************************************************)
(* When a prediction counts as correct: the value-aware comparison of         *)
(* src/benchmark.js (matchResultSets, findSharedAssignment) and the verdict    *)
(* over all gold variants and fixture databases (scoreAgainstGold in           *)
(* src/eval/oracle.js).                                                       *)
(*                                                                         *)
(* A cell is <<kind, n>> with kind "null", "num" or "text": describeCell's     *)
(* view of a value, rounding and dates included.  The columns of a result are  *)
(* named; a name may be the same as a gold column's, or like it.  Step bounds  *)
(* of the searches (20,000) are out of reach here, and hasPerfectMatching is   *)
(* stated by what it returns, which BipartiteMatching shows of the search.     *)
(***************************************************************************)
EXTENDS Integers, Sequences, SequencesExt, FiniteSets, FiniteSetsExt

CONSTANTS
    Cases,       \* families of [spec, columns, fixtures], see below
    Like,        \* pairs <<gold name, name>> of isColumnNamedLike, same names left out
    Allowance    \* ALL_ZERO_ROWS_ALLOWANCE

(* spec:     [mode, tolerance, order, columns, values, columnOrder, zero, ignoreZero, emptyZero]:  *)
(*           the compared gold columns, in order; which of them (numbered) rank, keep their order,  *)
(*           and read NULL as 0; and the two relaxations.                                          *)
(* columns:  the prediction's columns, in SELECT order.                                            *)
(* fixtures: a sequence of [golds, ties, actual]: for each variant the gold rows and the rows that *)
(*           its LIMIT left out, and all rows of the prediction.  A row is a function of columns.  *)

VARIABLES case, verdict    \* verdict: "none", "match", or the reason of a mismatch

oracleVars == <<case, verdict>>

Null == <<"null", 0>>
Zero == <<"num", 0>>
Distance(m, n) == IF m < n THEN n - m ELSE m - n
Least(S) == CHOOSE m \in S : \A n \in S : m <= n

-----------------------------------------------------------------------------
(* Cells and multisets of them.                                             *)

CellsEqual(c, d, tolerance) == c[1] = d[1] /\ (IF c[1] = "num" THEN Distance(c[2], d[2]) <= tolerance ELSE c = d)

TuplesEqual(s, t, tolerance) == \A i \in DOMAIN s : CellsEqual(s[i], t[i], tolerance)

Count(s, x) == Cardinality({i \in DOMAIN s : s[i] = x})
SameList(s, t) == Len(s) = Len(t) /\ \A x \in ToSet(s) : Count(s, x) = Count(t, x)
ContainsKeys(superset, subset) == \A x \in ToSet(subset) : Count(subset, x) <= Count(superset, x)

NotNumbers(cells) == SelectSeq(cells, LAMBDA c : c[1] # "num")
Numbers(cells) ==
    LET numbers == SelectSeq(cells, LAMBDA c : c[1] = "num") IN
    SortSeq([i \in DOMAIN numbers |-> numbers[i][2]], <)

\* Within a tolerance two columns pair up if and only if they do in sorted order.
ColumnsCompatible(gold, actual, tolerance) ==
    IF tolerance = 0 THEN SameList(gold, actual)
    ELSE LET m == Numbers(gold) n == Numbers(actual) IN
         /\ SameList(NotNumbers(gold), NotNumbers(actual)) /\ Len(m) = Len(n)
         /\ \A i \in DOMAIN m : Distance(m[i], n[i]) <= tolerance

\* Every cell of subset pairs with one of its own: each number takes the least that is left.
ColumnContains(subset, cells, tolerance) ==
    IF tolerance = 0 THEN ContainsKeys(cells, subset)
    ELSE LET m == Numbers(subset)
             n == Numbers(cells)
             taken[i \in 0 .. Len(m)] ==
                 IF i = 0 THEN 0
                 ELSE LET left == {k \in taken[i - 1] + 1 .. Len(n) : n[k] >= m[i] - tolerance} IN
                      IF left # {} /\ n[Least(left)] <= m[i] + tolerance THEN Least(left) ELSE Len(n) + 1
         IN  ContainsKeys(NotNumbers(cells), NotNumbers(subset)) /\ taken[Len(m)] <= Len(n)

\* hasPerfectMatching: the sets of neighbours have distinct representatives.
HasPerfectMatching(near) ==
    \E f \in [DOMAIN near -> UNION ToSet(near)] :
        \A i \in DOMAIN f : f[i] \in near[i] /\ \A k \in DOMAIN f \ {i} : f[i] # f[k]

-----------------------------------------------------------------------------
(* One gold result against one prediction, under an assignment of its columns *)
(* to the gold's: f[g] is the column that carries gold column g.              *)

Carried(found, f, spec) ==
    [r \in DOMAIN found |-> [g \in DOMAIN f |->
        IF g \in spec.zero /\ found[r][f[g]] = Null THEN Zero ELSE found[r][f[g]]]]
GoldTuples(found, spec) == Carried(found, spec.columns, spec)
Column(tuples, g) == [r \in DOMAIN tuples |-> tuples[r][g]]

\* A fixture's part in the comparison: the gold's tuples, those of its ties (the left-out rows
\* with its last row's ranking values), and the gold rows at that boundary if there are ties.
Prepared(gold, left, spec) ==
    LET tuples == GoldTuples(gold, spec)
        ties == SelectSeq(GoldTuples(left, spec), LAMBDA t : gold # <<>> /\ spec.mode = "ranked" /\ spec.values # <<>>
                    /\ \A g \in ToSet(spec.values) : CellsEqual(t[g], Last(tuples)[g], spec.tolerance))
    IN  [tuples |-> tuples, ties |-> ties,
         boundary |-> {r \in DOMAIN tuples : ties # <<>> /\
             \A g \in ToSet(spec.values) : CellsEqual(tuples[r][g], Last(tuples)[g], spec.tolerance)}]

Above(p) == LET ok(r) == r \notin p.boundary IN [i \in 1 .. Cardinality({r \in DOMAIN p.tuples : ok(r)}) |->
    p.tuples[CHOOSE r \in DOMAIN p.tuples : ok(r) /\ Cardinality({q \in 1 .. r : ok(q)}) = i]]
Pool(p) == p.tuples \o p.ties
AnyPair(p, actual) == (1 .. Len(Pool(p))) \X (1 .. Len(actual))

\* matchingLeft and toleranceMatchingExists: gold rows and ties on the left, prediction rows and a
\* stand-in per tie on the right; a stand-in takes any row at the boundary.
ToleranceMatching(p, actual, tolerance, allowed) ==
    LET left == Pool(p)
        standIns == Len(actual) + 1 .. Len(actual) + Len(p.ties)
    IN  HasPerfectMatching([i \in DOMAIN left |->
            {j \in DOMAIN actual : TuplesEqual(left[i], actual[j], tolerance) /\ <<i, j>> \in allowed}
            \cup IF i \in p.boundary \/ i > Len(p.tuples) THEN standIns ELSE {}])

\* matchRowsUnordered and matchRowsAcrossBoundary.
RowsMatch(p, actual, spec) ==
    /\ Len(p.tuples) = Len(actual)
    /\ IF spec.tolerance > 0 THEN ToleranceMatching(p, actual, spec.tolerance, AnyPair(p, actual))
       ELSE IF p.boundary = {} THEN SameList(p.tuples, actual)
       ELSE LET AtBoundary(t) == \A g \in ToSet(spec.values) : t[g] = Last(p.tuples)[g]
                Beyond(t) == ~AtBoundary(t)
            IN  /\ SameList(Above(p), SelectSeq(actual, Beyond))
                /\ ContainsKeys(SelectSeq(Pool(p), AtBoundary), SelectSeq(actual, AtBoundary))

\* A row of zeros for a member that neither the gold nor another row of the prediction has.
Ignorable(tuples, actual, j, spec) ==
    LET members == DOMAIN spec.columns \ spec.zero
        SameMember(s, t) == \A g \in members : CellsEqual(s[g], t[g], spec.tolerance)
    IN  /\ \A g \in spec.zero : CellsEqual(actual[j][g], Zero, spec.tolerance)
        /\ \A r \in DOMAIN tuples : ~SameMember(tuples[r], actual[j])
        /\ \A k \in DOMAIN actual \ {j} : ~SameMember(actual[k], actual[j])

\* matchRowsIgnoringZeroRows, for a prediction with more rows than the gold.
SurplusMatch(tuples, actual, spec) ==
    LET ignorable == {j \in DOMAIN actual : Ignorable(tuples, actual, j, spec)}
        surplus == Len(actual) - Len(tuples)
    IN  IF spec.tolerance = 0
        THEN \A t \in ToSet(tuples) \cup ToSet(actual) :
                /\ Count(tuples, t) <= Count(actual, t)
                /\ Count(tuples, t) < Count(actual, t) => \E j \in ignorable : actual[j] = t
        ELSE /\ Cardinality(ignorable) >= surplus
             /\ HasPerfectMatching(
                    [i \in DOMAIN tuples |-> {j \in DOMAIN actual : TuplesEqual(tuples[i], actual[j], spec.tolerance)}]
                    \o [i \in 1 .. surplus |-> ignorable])

\* rankingHolds: the prediction's own ranking column is in order; NULLs are passed over.
InOrder(a, b, spec) == IF spec.order = "asc" THEN a <= b ELSE a >= b
Ranks(tuples, spec) ==
    LET primary == Column(tuples, Head(spec.values))
        ranked == SelectSeq(primary, LAMBDA c : c[1] = "num")
    IN  [k \in DOMAIN ranked |-> ranked[k][2]]
RankingHolds(actual, spec) ==
    LET ranks == Ranks(actual, spec) IN \A k \in 1 .. Len(ranks) - 1 : InOrder(ranks[k], ranks[k + 1], spec)

\* rankedMatchingHolds: the k-th ranked row pairs with a gold row of the k-th rank.
RankedMatchingHolds(p, actual, spec) ==
    LET primary == Head(spec.values)
        rank(i) == IF i \in p.boundary \/ i > Len(p.tuples) THEN Last(p.tuples)[primary] ELSE p.tuples[i][primary]
        required == SortSeq(Ranks([i \in DOMAIN p.tuples |-> [p.tuples[i] EXCEPT ![primary] = rank(i)]], spec),
                            LAMBDA a, b : InOrder(a, b, spec) /\ a # b)
        place(j) == Cardinality({k \in 1 .. j : actual[k][primary][1] = "num"})
    IN  /\ Len(Ranks(actual, spec)) = Len(required)
        /\ ToleranceMatching(p, actual, spec.tolerance, {<<i, j>> \in AnyPair(p, actual) :
               actual[j][primary][1] = "num" => rank(i) = <<"num", required[place(j)]>>})

-----------------------------------------------------------------------------
(* Which columns may carry which.                                           *)

NamedLike(g, name, spec) == spec.columns[g] = name \/ <<spec.columns[g], name>> \in Like

\* Name pinning: a column with a gold column's exact name carries that one and no other.
Pinned(names, spec) == ToSet(names) \cap ToSet(spec.columns)
MayCarry(names, spec) ==
    [g \in DOMAIN spec.columns |->
        IF spec.columns[g] \in Pinned(names, spec) THEN {spec.columns[g]} ELSE ToSet(names) \ Pinned(names, spec)]

\* columnOrderHolds: carriers named like their own gold column may stand anywhere.
ColumnOrderHolds(names, f, spec) ==
    LET unnamed == SelectSeq(spec.columnOrder, LAMBDA g : ~NamedLike(g, f[g], spec))
        place(g) == CHOOSE i \in DOMAIN names : names[i] = f[g]
    IN  \A k \in DOMAIN unnamed :
            /\ \A g \in ToSet(spec.columnOrder) \ {unnamed[k]} : ~NamedLike(g, f[unnamed[k]], spec)
            /\ k > 1 => place(unnamed[k - 1]) < place(unnamed[k])

\* scalarRuleHolds: of several columns, the one with a single gold value's name, or the only one
\* of its kind, or the only one named like it.
ScalarRuleHolds(names, row, name, spec) ==
    LET sameName == {n \in ToSet(names) : n = spec.columns[1]}
        sameKind == {n \in ToSet(names) : row[n][1] = row[name][1]}
    IN  \/ Len(names) = 1
        \/ IF sameName # {} THEN name \in sameName
           ELSE sameKind = {name} \/ {n \in ToSet(names) : NamedLike(1, n, spec)} = {name}

Requirements == <<"values", "column_order", "scalar_column", "ranking">>

\* check(): 0 for a valid assignment, or the number of the first requirement that it fails.
Check(p, gold, found, names, f, spec) ==
    LET actual == Carried(found, f, spec)
        values == IF Len(found) > Len(gold) THEN SurplusMatch(p.tuples, actual, spec) ELSE RowsMatch(p, actual, spec)
        scalar == spec.mode = "scalar" /\ Len(gold) = 1 /\ Len(spec.columns) = 1
    IN  CASE ~values -> 1
          [] values /\ ~ColumnOrderHolds(names, f, spec) -> 2
          [] values /\ ColumnOrderHolds(names, f, spec) /\ scalar /\ ~ScalarRuleHolds(names, found[1], f[1], spec) -> 3
          [] OTHER -> IF spec.mode = "ranked" /\ spec.values # <<>> /\ ~RankingHolds(actual, spec)
                         /\ ~(spec.tolerance > 0 /\ RankedMatchingHolds(p, actual, spec)) THEN 4 ELSE 0

-----------------------------------------------------------------------------
(* The search for an assignment.                                            *)

\* prepareResultSetMatch: what is decided without one ("" if nothing is).
Decided(gold, found, names, spec) ==
    LET relaxed == spec.ignoreZero /\ spec.zero \notin {{}, DOMAIN spec.columns}
        emptyZero == spec.emptyZero /\ found = <<>> /\ Len(gold) = 1
                     /\ \A g \in DOMAIN spec.columns : GoldTuples(gold, spec)[1][g] \in {Null} \cup (IF g \in spec.zero THEN {Zero} ELSE {})
    IN  CASE Len(gold) # Len(found) /\ emptyZero -> "match"
          [] Len(gold) # Len(found) /\ ~emptyZero /\ ~(relaxed /\ gold # <<>> /\ Len(found) > Len(gold)) -> "row_count"
          [] gold = <<>> /\ found = <<>> -> "match"
          [] OTHER -> IF Len(names) < Len(spec.columns) THEN "missing_columns" ELSE ""

\* Candidates: what each column of the prediction may carry, going by its own cells.
Candidates(p, gold, found, names, spec) ==
    [g \in DOMAIN spec.columns |-> {name \in MayCarry(names, spec)[g] :
        LET cells == Column(p.tuples, g)
            carried == Column(Carried(found, [h \in DOMAIN spec.columns |-> name], spec), g)
        IN  IF p.boundary # {} THEN /\ ColumnContains(Column(Above(p), g), carried, spec.tolerance)
                                    /\ ColumnContains(carried, Column(Pool(p), g), spec.tolerance)
            ELSE IF Len(found) > Len(gold) THEN ColumnContains(cells, carried, spec.tolerance)
            ELSE ColumnsCompatible(cells, carried, spec.tolerance)}]

Assignments(candidates) ==
    {f \in [DOMAIN candidates -> UNION {candidates[g] : g \in DOMAIN candidates}] :
        \A g \in DOMAIN f : f[g] \in candidates[g] /\ \A h \in DOMAIN f \ {g} : f[g] # f[h]}

\* prefixHolds: the first n columns agree as multisets of tuples, where equality is exact.
PrefixHolds(p, gold, found, f, n, spec) ==
    LET cut(tuples) == [r \in DOMAIN tuples |-> SubSeq(tuples[r], 1, n)]
        actual == cut(Carried(found, f, spec))
    IN  \/ spec.tolerance > 0
        \/ IF Len(found) > Len(gold) THEN ContainsKeys(actual, cut(p.tuples))
           ELSE IF p.boundary = {} THEN SameList(cut(p.tuples), actual)
           ELSE ContainsKeys(actual, cut(Above(p))) /\ ContainsKeys(cut(Pool(p)), actual)

\* Faulty: searches each fixture for an assignment of its own.
SharedByNone(fixtures, names, spec) == \A fx \in fixtures : \E f \in Assignments(Candidates(fx.p, fx.gold, fx.rows, names, spec)) :
    Check(fx.p, fx.gold, fx.rows, names, f, spec) = 0

\* findSharedAssignment: one assignment of the columns for every fixture that needs one.
Shared(fixtures, names, spec) ==
    LET common == [g \in DOMAIN spec.columns |->
            {name \in ToSet(names) : \A fx \in fixtures : name \in Candidates(fx.p, fx.gold, fx.rows, names, spec)[g]}]
    IN  \E f \in Assignments(common) : \A fx \in fixtures :
            /\ \A n \in DOMAIN f : PrefixHolds(fx.p, fx.gold, fx.rows, f, n, spec)
            /\ Check(fx.p, fx.gold, fx.rows, names, f, spec) = 0

\* matchResultSets: "match", or the furthest requirement that an assignment got to.
MatchResultSets(fx, names, spec) ==
    LET decided == Decided(fx.gold, fx.rows, names, spec)
        failed == {Check(fx.p, fx.gold, fx.rows, names, f, spec) : f \in Assignments(Candidates(fx.p, fx.gold, fx.rows, names, spec))}
    IN  IF decided # "" THEN decided
        ELSE IF 0 \in failed THEN "match"
        ELSE Requirements[IF failed = {} THEN 1 ELSE Max(failed)]

-----------------------------------------------------------------------------
(* The oracle.                                                              *)

\* executePrediction reads one row more than the largest gold has, or than the relaxation allows.
RowsRead(fixture, spec) ==
    LET cap == Max({Len(fixture.golds[v]) : v \in DOMAIN fixture.golds}) + 1 + (IF spec.ignoreZero THEN Allowance ELSE 0)
    IN  [rows |-> SubSeq(fixture.actual, 1, IF Len(fixture.actual) < cap THEN Len(fixture.actual) ELSE cap),
         truncated |-> Len(fixture.actual) >= cap]

\* One gold variant on every fixture: its own verdict on each, then one assignment for all.
ScoreVariant(c, v) ==
    LET fx == [i \in DOMAIN c.fixtures |->
                  [gold |-> c.fixtures[i].golds[v], rows |-> RowsRead(c.fixtures[i], c.spec).rows,
                   p |-> Prepared(c.fixtures[i].golds[v], c.fixtures[i].ties[v], c.spec)]]
        outcome == [i \in DOMAIN fx |->
                  IF c.spec.ignoreZero /\ RowsRead(c.fixtures[i], c.spec).truncated THEN "row_count"
                  ELSE MatchResultSets(fx[i], c.columns, c.spec)]
        failed == {i \in DOMAIN fx : outcome[i] # "match"}
        searchable == {fx[i] : i \in {j \in DOMAIN fx : Decided(fx[j].gold, fx[j].rows, c.columns, c.spec) = ""}}
    IN  IF failed # {} THEN outcome[Least(failed)]
        ELSE IF searchable = {} \/ Shared(searchable, c.columns, c.spec) THEN "match" ELSE "inconsistent_assignment"

OracleInit == (\E family \in Cases : case \in family) /\ verdict = "none"

\* scoreAgainstGold: the first variant that matches, or what the first one failed on.
ScoreAgainstGold ==
    /\ verdict = "none"
    /\ verdict' = IF \E v \in DOMAIN case.fixtures[1].golds : ScoreVariant(case, v) = "match" THEN "match"
                  ELSE ScoreVariant(case, 1)
    /\ UNCHANGED case

OracleNext == ScoreAgainstGold

OracleSpec == OracleInit /\ [][OracleNext]_oracleVars

-----------------------------------------------------------------------------
(* Correctness.                                                             *)

\* What a pairing of a prediction's rows with gold rows and ties is: pair[j] is the number of
\* row j's partner, the ties after the gold rows, or 0 for a row that is ignored.
Pairing(p, actual, pair, spec) ==
    LET all == Pool(p) used == {pair[j] : j \in DOMAIN pair} \ {0} IN
    /\ \A j \in DOMAIN actual : IF pair[j] = 0 THEN spec.ignoreZero /\ Ignorable(p.tuples, actual, j, spec)
                                               ELSE TuplesEqual(all[pair[j]], actual[j], spec.tolerance)
    /\ \A j, k \in DOMAIN actual : j # k /\ pair[j] # 0 => pair[j] # pair[k]
    /\ DOMAIN p.tuples \ p.boundary \subseteq used
    /\ Cardinality(used) = Len(p.tuples)

\* The partners come in the ranking's order.
PairedInOrder(p, actual, pair, spec) ==
    LET primary == Head(spec.values)
        rank(j) == IF pair[j] \in p.boundary \/ pair[j] > Len(p.tuples) THEN Last(p.tuples)[primary]
                                                                         ELSE p.tuples[pair[j]][primary]
    IN  \A j, k \in DOMAIN actual :
            j < k /\ rank(j)[1] = "num" /\ rank(k)[1] = "num" => InOrder(rank(j)[2], rank(k)[2], spec)

\* A fixture's prediction is the gold's answer when its columns are read by f.
AnswerUnder(gold, left, found, names, f, spec) ==
    LET p == Prepared(gold, left, spec)
        actual == Carried(found, f, spec)
        Ordered(pair) == \/ spec.mode # "ranked" \/ spec.values = <<>>
                         \/ PairedInOrder(p, actual, pair, spec)
                         \/ spec.tolerance > 0 /\ RankingHolds(actual, spec)
    IN  /\ \E pair \in [DOMAIN actual -> 0 .. Len(Pool(p))] :
               Pairing(p, actual, pair, spec) /\ (actual = <<>> \/ Ordered(pair))
        /\ ColumnOrderHolds(names, f, spec)
        /\ spec.mode = "scalar" /\ Len(gold) = 1 /\ Len(spec.columns) = 1 => ScalarRuleHolds(names, found[1], f[1], spec)

Correct(c) ==
    LET spec == c.spec
        empty(fx, v) == Decided(fx.golds[v], fx.actual, c.columns, spec) = "match"
        readings == {f \in [DOMAIN spec.columns -> ToSet(c.columns)] :
            \A g \in DOMAIN f : f[g] \in MayCarry(c.columns, spec)[g] /\ \A h \in DOMAIN f \ {g} : f[g] # f[h]}
    IN  \E v \in DOMAIN c.fixtures[1].golds :
            \/ \A fx \in ToSet(c.fixtures) : empty(fx, v)
            \/ \E f \in readings : \A fx \in ToSet(c.fixtures) :
                  \/ empty(fx, v)
                  \/ /\ Len(fx.actual) = Len(fx.golds[v]) \/ (spec.ignoreZero /\ fx.golds[v] # <<>> /\ ~RowsRead(fx, spec).truncated)
                     /\ AnswerUnder(fx.golds[v], fx.ties[v], fx.actual, c.columns, f, spec)

\* A prediction passes exactly when one reading of its columns makes it the answer of one gold
\* variant on every fixture: sorted keys, greedy pairings, pruned prefixes, matchings under place
\* constraints and row caps neither let a wrong answer pass nor fail a right one.
VerdictIsExact == verdict # "none" => (verdict = "match" <=> Correct(case))
=============================================================================
