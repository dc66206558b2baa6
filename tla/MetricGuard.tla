------------------------------ MODULE MetricGuard ------------------------------
(***************************************************************************)
(* Whether a statement computes the metric the question asked for:             *)
(* validateMetricGuardrails in src/sql-guardrails.js, whose hard part is        *)
(* computesColumnDifference, which takes `minuend - subtrahend` instead of the   *)
(* preferred column if the difference reaches the result as a value.            *)
(*                                                                         *)
(* The code walks a flat list of tokens backwards and forwards from a minus.     *)
(* Here a statement is a tree, and the walk goes from a node up to the root.     *)
(* The reference runs the statement on rows, puts other numbers in the place     *)
(* of the difference, and asks if the result tells any two of them apart.        *)
(* Window functions, bit operators, correlated references out of a derived        *)
(* table and the walk's limits (8 levels, 256 references) are left out.           *)
(***************************************************************************)
EXTENDS Integers, Sequences, SequencesExt, FiniteSets, FiniteSetsExt, TLC

CONSTANTS
    MetricChecks,  \* pairs of a statement and the metrics of its question's semantic plan
    TableOf,       \* the columns of each table, each with its value in the table's two rows
    Literal        \* the value of a number, in tenths as all values are here

VARIABLES
    select,    \* the statement
    metrics,   \* the metrics its question matched
    metricVerdict    \* what the guardrail says: the metric it rejects for, if any, and its warnings

metricVars == <<select, metrics, metricVerdict>>

-----------------------------------------------------------------------------
(* A node is [op, tag, args].  Queries: a "query" has CTEs, then blocks (the    *)
(* branches of a UNION); a "cte" is tagged with its name and its column list; a   *)
(* "block" has sources ("table" or "derived", tagged <<name, alias>>), items      *)
(* (tagged with an alias or nothing) and conditions ("cond").  An item holds an   *)
(* expression or a "star".  Expressions: "col" <<name>> or <<qualifier, name>>,   *)
(* "num", "call" <<function, detail>>, "sum" (tagged with the signs), "prod"      *)
(* (with the operators between), "pred", "case" (when, then, else) and "query".  *)
(* A place is the sequence of argument numbers from the root.                   *)

Node(op, tag, args) == [op |-> op, tag |-> tag, args |-> args]
Inside(node, place) == FoldLeft(LAMBDA n, i : n.args[i], node, place)

RECURSIVE NodePlaces(_)
NodePlaces(node) == {<<>>} \cup UNION {{<<i>> \o p : p \in NodePlaces(node.args[i])} : i \in DOMAIN node.args}

\* The innermost node of these kinds around a place, which is inside one.
Around(t, place, ops) ==
    SubSeq(place, 1, Max({n \in 0 .. Len(place) : Inside(t, SubSeq(place, 1, n)).op \in ops}))
Enclosing(t, place, ops) == Around(t, Front(place), ops)
Children(t, place, ops) ==
    SetToSortSeq({i \in DOMAIN Inside(t, place).args : Inside(t, place).args[i].op \in ops}, <)
Sources(t, block) == {Append(block, i) : i \in ToSet(Children(t, block, {"table", "derived"}))}

-----------------------------------------------------------------------------
(* columnOperandOf.  An operand is <<column, wrappers>>, or <<>>.                *)

KeepsDecimals(call) == call.tag[2] \in {"DECIMAL(12,2)", "DOUBLE"}

RECURSIVE ColumnOperand(_)
ColumnOperand(e) ==
    LET inner == ColumnOperand(e.args[1])
        wrapped(word) == IF inner = <<>> THEN <<>> ELSE <<inner[1], <<word>> \o inner[2]>>
    IN  CASE e.op = "col" -> <<Last(e.tag), <<>>>>
          [] e.op = "call" /\ e.tag[1] = "SUM" -> wrapped("SUM")
          [] e.op = "call" /\ e.tag[1] = "ROUND" -> wrapped(e.tag[2])
          [] e.op = "call" /\ e.tag[1] = "CAST" /\ KeepsDecimals(e) -> inner
          [] e.op = "call" /\ e.tag[1] = "COALESCE" /\ (\A i \in 2 .. Len(e.args) : e.args[i].op = "num") -> inner
          [] OTHER -> <<>>

\* Term k of a sum is the subtrahend, and the term before it the minuend, of nothing else.
IsDifference(sum, k, pair) ==
    LET left == ColumnOperand(sum.args[k - 1])  right == ColumnOperand(sum.args[k]) IN
    /\ sum.tag[k] = "-" /\ sum.tag[k - 1] = "+"
    /\ left # <<>> /\ right # <<>> /\ left[1] = pair[1] /\ right[1] = pair[2] /\ left[2] = right[2]

Sums(t) == {p \in NodePlaces(t) : Inside(t, p).op = "sum"}

-----------------------------------------------------------------------------
(* referenceReadsBody.  A body is the place of a derived table or a CTE.        *)

CalledAs(source) == IF source.tag[2] # "" THEN source.tag[2] ELSE source.tag[1]

BodyRead(t, source) ==
    LET name == Inside(t, source).tag[1]
        ctes == {c \in NodePlaces(t) : /\ c # <<>> /\ Inside(t, c).op = "cte" /\ Inside(t, c).tag[1] = name
                                   /\ IsStrictPrefix(Front(c), source) /\ source[Len(c)] > Last(c)}
    IN  IF Inside(t, source).op = "derived" THEN source
        ELSE IF ctes # {} THEN CHOOSE c \in ctes : \A d \in ctes : Len(d) <= Len(c) ELSE <<>>

\* The blocks whose sources a place sees, innermost first: out of subqueries, not out of derived tables or CTEs.
RECURSIVE BlocksSeen(_, _)
BlocksSeen(t, place) ==
    LET block == Around(t, place, {"block"})  whole == Front(block) IN
    IF whole = <<>> \/ Inside(t, Front(whole)).op \in {"derived", "cte"} THEN <<block>>
    ELSE <<block>> \o BlocksSeen(t, whole)

RECURSIVE OutputNames(_, _)
NamesOfSource(t, source) ==
    LET body == BodyRead(t, source) IN
    IF body # <<>> THEN OutputNames(t, body) ELSE DOMAIN TableOf[Inside(t, source).tag[1]]

\* selectItemColumnName: an alias, or the name of a bare column; "*" passes all on, "" is unnamed.
ItemName(item) ==
    CASE item.args[1].op = "star" -> "*"
      [] item.tag # <<>> -> item.tag[1]
      [] item.args[1].op = "col" -> Last(item.args[1].tag)
      [] OTHER -> ""

ItemsOf(t, whole) == LET b == Append(whole, Children(t, whole, {"block"})[1]) IN
    [i \in DOMAIN Children(t, b, {"item"}) |-> Append(b, Children(t, b, {"item"})[i])]

OutputNames(t, body) ==
    LET items == ItemsOf(t, Append(body, 1))
        sources == Sources(t, Front(items[1]))
        names(i) == IF ItemName(Inside(t, i)) # "*" THEN {ItemName(Inside(t, i))}
                    ELSE UNION {NamesOfSource(t, s) : s \in {r \in sources :
                                    Inside(t, i).args[1].tag \in {<<>>, <<CalledAs(Inside(t, r))>>}}}
    IN  IF Len(Inside(t, body).tag) > 1 /\ Inside(t, body).op = "cte" THEN ToSet(Tail(Inside(t, body).tag))
        ELSE UNION {names(items[i]) : i \in DOMAIN items}

ReferenceReadsBody(t, ref, body) ==
    LET seen == BlocksSeen(t, ref)
        node == Inside(t, ref)
        reading(k) == {s \in Sources(t, seen[k]) : BodyRead(t, s) = body}
        first(S(_)) == LET ks == {k \in DOMAIN seen : S(k) # {}} IN IF ks = {} THEN {} ELSE S(Min(ks))
        called(k) == {s \in Sources(t, seen[k]) : CalledAs(Inside(t, s)) = node.tag[1]}
        owning(k) == {s \in Sources(t, seen[k]) : BodyRead(t, s) = body \/ Last(node.tag) \in NamesOfSource(t, s)}
    IN  IF node.op = "star" /\ node.tag = <<>> THEN reading(1) # {}
        ELSE IF Len(node.tag) = 2 \/ node.op = "star" THEN \E s \in first(called) : BodyRead(t, s) = body
        ELSE \E s \in first(owning) : BodyRead(t, s) = body

-----------------------------------------------------------------------------
(* expressionIsComputedValue and derivedColumnReachesValue, which call each      *)
(* other.  `handed` is the column that a star passes on, if the place is one.    *)

ReadsAsCondition(call, i) ==
    \/ call.tag[1] \in {"SIGN", "FIELD", "INTERVAL", "COUNT"}
    \/ call.tag[1] \in {"IF", "ELT"} /\ i = 1
    \/ call.tag[1] = "NULLIF" /\ i > 1
DropsDecimals(call, i) ==
    \/ call.tag[1] \in {"FLOOR", "CEIL", "MOD"}
    \/ call.tag[1] = "CAST" /\ ~KeepsDecimals(call)
    \/ call.tag = <<"FORMAT", "0">> /\ i = 1
DividesBeside(prod, i) == \E j \in {i - 1, i} \cap DOMAIN prod.tag : prod.tag[j] \in {"DIV", "%", "MOD"}

RECURSIVE IsComputedValue(_, _, _)

\* Where a body's column may be read: in the query around it, for a CTE after it only.
ColumnReachesValue(t, body, name) ==
    LET whole == Enclosing(t, body, {"query"})
        inScope(ref) == /\ IsStrictPrefix(whole, ref) /\ ~IsPrefix(body, ref)
                        /\ Inside(t, body).op = "cte" => ref[Len(body)] > Last(body)
        reads(ref) == LET node == Inside(t, ref) IN
            node.op = "star" \/ (node.op = "col" /\ name # "" /\ Last(node.tag) = name)
    IN  \E ref \in NodePlaces(t) :
            /\ reads(ref) /\ inScope(ref) /\ ReferenceReadsBody(t, ref, body)
            /\ IsComputedValue(t, ref, name)

ColumnOfItemByOwnName(t, item, handed) ==  \* Faulty: a later branch of a UNION names its own columns.
    IF ItemName(Inside(t, item)) = "*" THEN handed ELSE ItemName(Inside(t, item))

\* The column of a body that an item of it is: named by the first branch of a UNION, or by a CTE's list.
ColumnOfItem(t, item, handed) ==
    LET whole == Front(Front(item))
        body == Inside(t, Front(whole))
        position == IndexFirstSubSeq(<<Last(item)>>, Children(t, Front(item), {"item"}))
        name == ItemName(Inside(t, ItemsOf(t, whole)[position]))
    IN  IF body.op = "derived" \/ Len(body.tag) = 1 THEN (IF name = "*" THEN handed ELSE name)
        ELSE IF name = "*" \/ position + 1 > Len(body.tag) THEN "" ELSE body.tag[position + 1]

ItemReachesValue(t, item, handed) ==
    LET whole == Front(Front(item))
        name == ColumnOfItem(t, item, handed)
        listed == Inside(t, Front(whole)).op = "cte" /\ Len(Inside(t, Front(whole)).tag) > 1
    IN  CASE whole = <<>> -> TRUE
          [] whole # <<>> /\ Inside(t, Front(whole)).op \notin {"derived", "cte"} -> IsComputedValue(t, whole, "")
          [] OTHER -> ~(listed /\ name = "") /\ ColumnReachesValue(t, Front(whole), name)

IsComputedValue(t, place, handed) ==
    LET node == Inside(t, Front(place))  i == Last(place) IN
    CASE node.op = "item" -> ItemReachesValue(t, Front(place), handed)
      [] node.op = "call" -> ~ReadsAsCondition(node, i) /\ ~DropsDecimals(node, i) /\ IsComputedValue(t, Front(place), "")
      [] node.op = "prod" -> ~DividesBeside(node, i) /\ IsComputedValue(t, Front(place), "")
      [] node.op = "case" -> i # 1 /\ IsComputedValue(t, Front(place), "")
      [] node.op = "sum" -> IsComputedValue(t, Front(place), "")
      [] node.op \in {"pred", "cond"} -> FALSE

ComputesColumnDifference(t, pair) ==
    \E p \in Sums(t) : \E k \in 2 .. Len(Inside(t, p).args) :
        IsDifference(Inside(t, p), k, pair) /\ IsComputedValue(t, p, "")

-----------------------------------------------------------------------------
(* validateMetricGuardrails.  A metric is [name, count, enforced, preferred,     *)
(* differences].                                                            *)

ColumnMentioned(t, column) ==
    \E p \in NodePlaces(t) : column \in ToSet(Inside(t, p).tag)

Checked(plan) ==
    SelectSeq(plan, LAMBDA m :
        /\ ~(m.name = "net_sales" /\ \E i \in DOMAIN plan : plan[i].name = "line_net_sales")
        /\ ~m.count /\ m.preferred # {})

Satisfied(t, m) ==
    \/ \E c \in m.preferred : ColumnMentioned(t, c)
    \/ \E d \in m.differences : ComputesColumnDifference(t, d)

Unchecked == [rejects |-> <<>>, warns |-> <<"unchecked">>]

MetricInit ==
    \E check \in MetricChecks : select = check[1] /\ metrics = check[2] /\ metricVerdict = Unchecked

VerdictOn(unmet) ==
    LET refused == SelectSeq(unmet, LAMBDA m : m.enforced) IN
    IF refused # <<>> THEN [rejects |-> <<refused[1].name>>, warns |-> <<>>]
    ELSE [rejects |-> <<>>, warns |-> [i \in DOMAIN unmet |-> unmet[i].name]]

ValidateMetrics ==
    /\ metricVerdict = Unchecked
    /\ metricVerdict' = VerdictOn(SelectSeq(Checked(metrics), LAMBDA m : ~Satisfied(select, m)))
    /\ UNCHANGED <<select, metrics>>

MetricNext == ValidateMetrics
MetricSpec == MetricInit /\ [][MetricNext]_metricVars
-----------------------------------------------------------------------------
(* What the server does with the statement.  A result has the columns' names     *)
(* and the rows.  scopes: the row of each source, here and around, innermost      *)
(* first; rows: those an aggregate goes over; hole: what a "hole" is worth.       *)

NullValue == -1000

LookUp(scopes, tag) ==
    LET has(k) == {s \in DOMAIN scopes[k] : /\ Last(tag) \in DOMAIN scopes[k][s]
                                            /\ Len(tag) = 2 => s = tag[1]}
        owned == {j \in DOMAIN scopes : has(j) # {}}
    IN  IF owned = {} THEN NullValue ELSE scopes[Min(owned)][CHOOSE s \in has(Min(owned)) : TRUE][Last(tag)]

Truth(x) == IF x THEN 10 ELSE 0
WholePart(x) == IF x < 0 THEN -(((-x) \div 10) * 10) ELSE (x \div 10) * 10

CallValue(call, x) ==
    LET f == call.tag[1] IN
    CASE f = "ABS" -> IF x[1] < 0 THEN -x[1] ELSE x[1]
      [] f = "SIGN" -> IF x[1] > 0 THEN 10 ELSE IF x[1] < 0 THEN -10 ELSE 0
      [] f = "FIELD" -> Truth(x[1] = x[2])
      [] f = "INTERVAL" -> Truth(x[1] >= x[2])
      [] f = "ELT" -> IF WholePart(x[1]) = 10 THEN x[2] ELSE NullValue
      [] f = "COALESCE" -> IF x[1] = NullValue THEN x[2] ELSE x[1]
      [] f = "IF" -> IF x[1] # 0 THEN x[2] ELSE x[3]
      [] f = "NULLIF" -> IF x[1] = x[2] THEN NullValue ELSE x[1]
      [] f \in {"FLOOR", "CEIL"} \/ call.tag = <<"FORMAT", "0">> \/ (f = "CAST" /\ ~KeepsDecimals(call)) -> WholePart(x[1])
      [] f = "MOD" -> x[1] % x[2]
      [] OTHER -> x[1]    \* rounded or cast to no less than one decimal

Multiplied(op, x, y) ==
    CASE op = "*" -> (x * y) \div 10 [] op = "DIV" -> WholePart((x * 10) \div y) [] op = "%" -> x % y

Scalar(rows) == IF rows = <<>> THEN NullValue ELSE rows[1][1]

RECURSIVE QueryRows(_, _, _, _)
RECURSIVE ValueOf(_, _, _, _, _)
ValueOf(e, rows, scopes, ctes, hole) ==
    LET here == IF rows = <<>> THEN scopes ELSE <<Head(rows)>> \o scopes
        x == [i \in DOMAIN e.args |-> ValueOf(e.args[i], rows, scopes, ctes, hole)]
        each == [j \in DOMAIN rows |-> ValueOf(e.args[1], <<rows[j]>>, scopes, ctes, hole)]
    IN  CASE e.op = "col" -> IF rows = <<>> THEN NullValue ELSE LookUp(here, e.tag)
          [] e.op = "num" -> Literal[e.tag[1]]
          [] e.op = "hole" -> hole
          [] e.op = "sum" -> FoldLeft(+, 0, [i \in DOMAIN x |-> IF e.tag[i] = "-" THEN -x[i] ELSE x[i]])
          [] e.op = "prod" -> FoldLeftDomain(LAMBDA y, i : IF i = 1 THEN x[1] ELSE Multiplied(e.tag[i - 1], y, x[i]), 0, x)
          [] e.op = "call" /\ e.tag[1] = "SUM" -> FoldLeft(+, 0, each)
          [] e.op = "call" /\ e.tag[1] = "COUNT" -> 10 * Len(each)
          [] e.op = "call" /\ e.tag[1] \notin {"SUM", "COUNT"} -> CallValue(e, x)
          [] e.op = "pred" /\ e.tag[1] = ">" -> Truth(x[1] > x[2])
          [] e.op = "pred" /\ e.tag[1] = "AND" -> Truth(x[1] # 0 /\ x[2] # 0)
          [] e.op = "pred" /\ e.tag[1] = "EXISTS" -> Truth(QueryRows(e.args[1], here, ctes, hole).rows # <<>>)
          [] e.op = "case" -> IF x[1] # 0 THEN x[2] ELSE x[3]
          [] e.op = "query" -> Scalar(QueryRows(e, here, ctes, hole).rows)

RECURSIVE Aggregates(_)
Aggregates(e) ==
    \/ e.op = "call" /\ e.tag[1] \in {"SUM", "COUNT"}
    \/ e.op # "query" /\ \E i \in DOMAIN e.args : Aggregates(e.args[i])

Argued(node, ops) == SelectSeq(node.args, LAMBDA n : n.op \in ops)
OutputName(item) == IF ItemName(item) = "*" THEN "" ELSE ItemName(item)

SourceRows(source, ctes, hole) ==
    LET name == source.tag[1]  row == TableOf[name] IN
    IF source.op = "derived" THEN QueryRows(source.args[1], <<>>, ctes, hole)
    ELSE IF name \in DOMAIN ctes THEN ctes[name]
    ELSE LET names == SetToSeq(DOMAIN row) IN
         [names |-> names, rows |-> [k \in 1 .. 2 |-> [i \in DOMAIN names |-> row[names[i]]]]]

BlockRows(block, scopes, ctes, hole) ==
    LET from == Argued(block, {"table", "derived"})
        tables == FoldLeft(LAMBDA ts, s : Append(ts, SourceRows(s, ctes, hole)), <<>>, from)
        bound(j, row) == [n \in ToSet(tables[j].names) |-> row[IndexFirstSubSeq(<<n>>, tables[j].names)]]
        joined == FoldLeftDomain(
            LAMBDA rows, j : FlattenSeq([r \in DOMAIN rows |->
                [k \in DOMAIN tables[j].rows |-> rows[r] @@ (CalledAs(from[j]) :> bound(j, tables[j].rows[k]))]]),
            <<<<>>>>, tables)
        where == SelectSeq(Argued(block, {"cond"}), LAMBDA c : c.tag = <<"WHERE">>)
        rows == SelectSeq(joined, LAMBDA r : \A i \in DOMAIN where : ValueOf(where[i].args[1], <<r>>, scopes, ctes, hole) # 0)
        items == Argued(block, {"item"})
        starred(i) == SelectSeq([j \in DOMAIN from |-> j], LAMBDA j : items[i].args[1].tag \in {<<>>, <<CalledAs(from[j])>>})
        named(i) == IF items[i].args[1].op # "star" THEN <<OutputName(items[i])>>
                    ELSE FlattenSeq([n \in DOMAIN starred(i) |-> tables[starred(i)[n]].names])
        values(i, group) ==
            IF items[i].args[1].op # "star" THEN <<ValueOf(items[i].args[1], group, scopes, ctes, hole)>>
            ELSE FlattenSeq([n \in DOMAIN starred(i) |->
                LET j == starred(i)[n] IN [c \in DOMAIN tables[j].names |-> group[1][CalledAs(from[j])][tables[j].names[c]]]])
        output(group) == FlattenSeq([i \in DOMAIN items |-> values(i, group)])
    IN  [names |-> FlattenSeq([i \in DOMAIN items |-> named(i)]),
         rows |-> IF \E i \in DOMAIN items : Aggregates(items[i].args[1]) THEN <<output(rows)>>
                  ELSE [r \in DOMAIN rows |-> output(<<rows[r]>>)]]

United(results) ==
    [names |-> results[1].names, rows |-> FlattenSeq([k \in DOMAIN results |-> results[k].rows])]

QueryRows(whole, scopes, ctes, hole) ==
    LET with == Argued(whole, {"cte"})
        named(cte, result) == [result EXCEPT !.names = IF Len(cte.tag) > 1 THEN Tail(cte.tag) ELSE @]
        known == FoldLeft(LAMBDA cs, c : (c.tag[1] :> named(c, QueryRows(c.args[1], <<>>, cs, hole))) @@ cs, ctes, with)
    IN  United(FoldLeft(LAMBDA rs, b : Append(rs, BlockRows(b, scopes, known, hole)), <<>>, Argued(whole, {"block"})))

-----------------------------------------------------------------------------
RECURSIVE PutAt(_, _, _)
PutAt(node, place, new) ==
    IF place = <<>> THEN new ELSE [node EXCEPT !.args[Head(place)] = PutAt(@, Tail(place), new)]

\* The sum without terms k - 1 and k, and a hole in their place.
Holed(sum, k) ==
    Node("sum", RemoveAt(sum.tag, k), ReplaceAt(RemoveAt(sum.args, k), k - 1, Node("hole", <<>>, <<>>)))

\* Of two equal rows, both terms are their column, or both its sum.
AreTheColumns(sum, k, pair) ==
    \E n \in {1, 2} : \A x \in {-17, 12}, y \in {-12, 17, 35} :
        LET row == "o" :> (pair[1] :> x @@ pair[2] :> y)
            value(i) == ValueOf(sum.args[i], <<row, row>>, <<>>, <<>>, 0)
        IN  value(k - 1) = n * x /\ value(k) = n * y

\* Positive ones: close enough to have a whole part in common after an offset or a factor of 3, and far apart.
Differences == {12, 13, 14, 42, 47}

ResultHasDifference(t, pair) ==
    \E p \in Sums(t) : LET sum == Inside(t, p) IN \E k \in 2 .. Len(sum.args) :
        /\ sum.tag[k] = "-" /\ sum.tag[k - 1] = "+"
        /\ AreTheColumns(sum, k, pair)
        /\ LET rows(d) == QueryRows(PutAt(t, p, Holed(sum, k)), <<>>, <<>>, d).rows
           IN  Cardinality({rows(d) : d \in Differences}) = Cardinality(Differences)

(* No statement is turned down that computes the difference, and none is taken  *)
(* that only has it in a condition, a count or a cast, or does not use it at all: *)
(* the guard lets a statement without a preferred column pass for an enforced      *)
(* metric exactly if its result would be another with any other difference.        *)
DifferenceReachesResult ==
    metricVerdict # Unchecked =>
        (metricVerdict.rejects # <<>> <=>
            \E i \in DOMAIN metrics :
                /\ metrics[i].enforced /\ metrics[i] \in ToSet(Checked(metrics))
                /\ ~(\E c \in metrics[i].preferred : ColumnMentioned(select, c))
                /\ ~(\E d \in metrics[i].differences : ResultHasDifference(select, d)))
==============================================================================
