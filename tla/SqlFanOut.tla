------------------------------- MODULE SqlFanOut -------------------------------
(***************************************************************************)
(* The fan-out check of generated SQL (validateFanOut in                     *)
(* src/sql-guardrails.js): a SUM or AVG over a parent's column is rejected    *)
(* when its SELECT block joins a one-to-many child that may repeat it.       *)
(*                                                                         *)
(* A query is what the tokenizer and the relation model read off its text:   *)
(* the joined relations in order, with how each is joined, the equalities of *)
(* its conditions, the IS NULL tests of WHERE, the columns of GROUP BY, and    *)
(* the summed expression as a set of terms, a term the set of relations whose  *)
(* columns it multiplies.  sumOf says what is added: "rows" is SUM(x), "groups" *)
(* is SUM(MAX(x)) OVER (), which adds one value of x per group.                *)
(* The database is a header table D(id) and a line table L(doc, line, *)
(* note) whose key is <<doc, line>>, with doc a foreign key to id and note      *)
(* nullable; G, T, A and O are derived tables over L.                          *)
(* OR conditions, RIGHT and NATURAL joins, comparisons of a string column     *)
(* with a number, other windowed sums, and GROUP BY keys that are no column of  *)
(* a joined relation are left out.                                            *)
(***************************************************************************)
EXTENDS Integers, Sequences, FiniteSets, TLC

CONSTANTS
    Queries,     \* queries to validate
    Databases    \* of the form [D |-> set of ids, L |-> set of [doc, line, note]]

VARIABLES query, verdict    \* verdict: "none", "accepted", "FAN_OUT"

fanOutVars == <<query, verdict>>

Const == <<0, "1">>    \* a literal

-----------------------------------------------------------------------------
(* The relations.                                                           *)

Columns ==
    [D |-> {"id"}, L |-> {"doc", "line", "note"},
     G |-> {"doc"},           \* SELECT doc FROM L GROUP BY doc
     T |-> {"doc", "line"},   \* SELECT DISTINCT doc, line FROM L
     A |-> {"line"},          \* SELECT MIN(line) AS line FROM L GROUP BY doc
     O |-> {"line"}]          \* SELECT MAX(line) AS line FROM L

\* describeUniqueness(): the keys of a relation, each as a set of components; a GROUP BY key
\* that is not projected is a component without a name.  A single row has the empty key.
Keys ==
    [D |-> {{{"id"}}}, L |-> {{{"doc"}, {"line"}}}, G |-> {{{"doc"}}},
     T |-> {{{"doc"}, {"line"}}}, A |-> {{{}}}, O |-> {{}}]

SourceTables == [r \in DOMAIN Columns |-> IF r = "D" THEN {"D"} ELSE {"L"}]

\* The table that a summed column stands for: a body grouped on one foreign key is at the grain
\* of the table that it references.
GrainTable == [r \in DOMAIN Columns |-> IF r \in {"D", "G", "A"} THEN "D" ELSE "L"]

\* Child -> parent foreign keys (collectForeignKeyEdges); D has no parent.
ChildrenOf(table) == IF table = "D" THEN {"L"} ELSE {}

-----------------------------------------------------------------------------
(* The check.                                                               *)

Places(q) == 1 .. Len(q.rels)

\* A LEFT JOIN's condition only restricts the rows of the relation it joins (appliesTo).
Restricts(q, eq, entry) == eq.at = 0 \/ q.joins[eq.at] = "INNER" \/ eq.at = entry

\* Columns that the equalities holding for every row of entry make equal to column c.
EqualTo(q, entry, c) ==
    LET eqs == {{eq.left, eq.right} : eq \in {e \in q.eqs : Restricts(q, e, entry)}}
        class[n \in 0 .. Cardinality(eqs)] ==
            IF n = 0 THEN {c}
            ELSE LET known == class[n - 1] IN known \cup UNION {eq \in eqs : eq \cap known # {}}
    IN  class[Cardinality(eqs)]

\* Columns of entry that are equal to a literal or to a column of the parent's row.
PinnedColumns(q, entry, parent) ==
    {name \in Columns[q.rels[entry]] :
        \E c \in EqualTo(q, entry, <<entry, name>>) : c = Const \/ c[1] = parent}

\* Faulty: one pinned column of a composite key is enough.
RestrictedByAnyColumn(q, entry, parent) ==
    \E key \in Keys[q.rels[entry]] :
        key = {} \/ \E component \in key : component \cap PinnedColumns(q, entry, parent) # {}

\* A child with a whole key pinned, or a single row, has at most one row per parent row.
RestrictedToOneRow(q, entry, parent) ==
    \E key \in Keys[q.rels[entry]] :
        \A component \in key : component \cap PinnedColumns(q, entry, parent) # {}

\* LEFT JOIN ... WHERE c IS NULL with a base table's column that is NULL in no matched row: one
\* that is NOT NULL, or that the join's own condition equates with another column.
AntiJoined(q, entry) ==
    /\ q.joins[entry] = "LEFT" /\ q.rels[entry] \in {"D", "L"}
    /\ \E c \in q.isNull :
          /\ c[1] = entry
          /\ \/ c[2] # "note"
             \/ \E eq \in q.eqs : eq.at = entry /\ c \in {eq.left, eq.right} /\ Const \notin {eq.left, eq.right}

\* Whether a value at the grain of entry's table is repeated by a joined child of it.
Coarse(q, entry) ==
    \E other \in Places(q) \ {entry} :
        /\ SourceTables[q.rels[other]] \cap ChildrenOf(GrainTable[q.rels[entry]]) # {}
        /\ ~AntiJoined(q, other)
        /\ ~RestrictedToOneRow(q, other, entry)

\* collectGroupByOwners(): the relations whose columns GROUP BY reads, none without a GROUP BY.
GroupByOwners(q) == {c[1] : c \in q.groupBy}

GroupedWithin(q, entry) == GroupByOwners(q) \subseteq {entry}

\* isReducedPerParent(): MAX leaves one value per group of the one parent that its argument reads.
ReducedPerParent(q) ==
    /\ q.sumOf = "groups"
    /\ \E parent \in Places(q) :
          {entry \in UNION q.sum : Coarse(q, entry)} = {parent} /\ GroupedWithin(q, parent)

\* createGrainEvaluator(): a product is fine when any factor is, a sum when every term is.
FanOut(q) ==
    /\ \E term \in q.sum : \A entry \in term : Coarse(q, entry)
    /\ ~ReducedPerParent(q)

FanOutInit ==
    /\ query \in Queries
    /\ verdict = "none"

ValidateFanOut ==
    /\ verdict = "none"
    /\ verdict' = IF FanOut(query) THEN "FAN_OUT" ELSE "accepted"
    /\ UNCHANGED query

FanOutNext == ValidateFanOut

FanOutSpec == FanOutInit /\ [][FanOutNext]_fanOutVars

-----------------------------------------------------------------------------
(* What the query does (MariaDB).                                           *)

\* The rows of a relation; the first component tells equal rows apart.
Rows(db, rel) ==
    LET least(d) == CHOOSE n \in {l.line : l \in {k \in db.L : k.doc = d}} :
                       \A l \in db.L : l.doc = d => n <= l.line
        docs == {l.doc : l \in db.L}
        most == CHOOSE l \in db.L : \A k \in db.L : k.line <= l.line
    IN  CASE rel = "D" -> {[row |-> d, id |-> d] : d \in db.D}
          [] rel \in {"L", "T"} -> {[row |-> l, doc |-> l.doc, line |-> l.line, note |-> l.note] : l \in db.L}
          [] rel = "G" -> {[row |-> d, doc |-> d] : d \in docs}
          [] rel = "A" -> {[row |-> d, line |-> least(d)] : d \in docs}
          [] rel = "O" -> {[row |-> 0, line |-> IF db.L = {} THEN 0 ELSE most.line]}

Null == [row |-> "null"]

Value(tuple, c) ==
    IF c = Const THEN 1 ELSE IF c[2] \in DOMAIN tuple[c[1]] THEN tuple[c[1]][c[2]] ELSE 0

\* A NULL, which is 0 here, is equal to nothing.
Holds(tuple, eqs) ==
    \A eq \in eqs : Value(tuple, eq.left) # 0 /\ Value(tuple, eq.left) = Value(tuple, eq.right)

At(q, n) == {eq \in q.eqs : eq.at = n}

\* The joined rows of the first n relations.
Join(db, q) ==
    LET tuples[n \in Places(q)] ==
            IF n = 1 THEN {<<r>> : r \in Rows(db, q.rels[1])}
            ELSE LET rows == Rows(db, q.rels[n])
                     matches(t) == {u \in {Append(t, r) : r \in rows} : Holds(u, At(q, n))}
                 IN  UNION {IF matches(t) = {} /\ q.joins[n] = "LEFT" THEN {Append(t, Null)}
                                                                      ELSE matches(t) :
                               t \in tuples[n - 1]}
    IN  {t \in tuples[Len(q.rels)] : Holds(t, At(q, 0)) /\ \A c \in q.isNull : Value(t, c) = 0}

\* What a joined row's value is added with: itself, or the row's group.
Summand(q, tuple) == IF q.sumOf = "rows" THEN tuple ELSE [c \in q.groupBy |-> Value(tuple, c)]

\* A term's value is added more than once: in two summands it comes from the same rows.
Repeats(db, q, term) ==
    \E t, u \in Join(db, q) :
        /\ Summand(q, t) # Summand(q, u)
        /\ \A n \in term : t[n] = u[n] /\ t[n] # Null

-----------------------------------------------------------------------------
(* Correctness.                                                             *)

\* A column of a relation with one row per header, beside relations that all read its lines.
ParentTerm(q, term) ==
    \E n \in Places(q) :
        /\ term = {n} /\ GrainTable[q.rels[n]] = "D"
        /\ \A m \in Places(q) \ {n} : q.rels[m] # "D"

\* A header's value that passes the check is added once per header, whatever the data.
AcceptedSumsOnce ==
    verdict = "accepted" =>
        \A term \in query.sum : ParentTerm(query, term) =>
            \A db \in Databases : ~Repeats(db, query, term)

\* No correct SUM is refused: of a header joined to one child, a sum is rejected only if some data
\* makes it count a value twice (an anti-joined child, one pinned to a row by its key, and a
\* product with a line's own value are accepted, and one value per group of headers).  The check
\* takes no notice of a literal that the column of an IS NULL test is compared with, nor of
\* anti-joined derived tables, nor of a group key of the child that the join makes a literal or
\* the header's own.
RejectedRepeats ==
    /\ verdict = "FAN_OUT" /\ Len(query.rels) = 2 /\ query.rels[1] = "D"
    /\ query.isNull # {} => query.joins[2] = "LEFT" /\ query.rels[2] = "L"
    /\ \A c \in query.isNull, eq \in query.eqs : {c, Const} # {eq.left, eq.right}
    /\ \A c \in query.groupBy : c[1] = 2 => \A d \in EqualTo(query, 2, c) : d # Const /\ d[1] # 1
    => \E db \in Databases, term \in query.sum : Repeats(db, query, term)

\* The check is exact: a sum that it lets pass counts every header once, over the rows or over the
\* groups, and one that it refuses counts some value twice in some database.
FanOutExact == AcceptedSumsOnce /\ RejectedRepeats
===============================================================================
