------------------------------ MODULE SqlColumns ------------------------------
(***************************************************************************)
(* Which column each name of a statement means, and which table columns the   *)
(* statement joins: buildRelationModel in src/sql-guardrails.js, and the       *)
(* checks validateQualifiedColumns, validateSuspiciousUnqualifiedIdentifiers   *)
(* and validateJoinGuardrails made with it.                                   *)
(*                                                                         *)
(* The code has flat lists: SELECT blocks, table references and CTEs, each     *)
(* with its place in the text.  Here a place is the path to it in the           *)
(* statement's tree, and the model works on paths.  The reference is what the   *)
(* server does with the tree, run on rows whose every value is the name of the   *)
(* table column it comes from.  Which words are references and aliases (the     *)
(* tokenizer's part), recursive CTEs, and the second and later branches of a    *)
(* UNION, whose columns the code takes from the first, are left out.            *)
(***************************************************************************)
EXTENDS Naturals, Sequences, SequencesExt, FiniteSets, Functions

CONSTANTS
    Trees,          \* statements
    TableColumns,   \* the columns of each table of the prompt, in order
    LowerCase,      \* LowerCase[n]: a column or CTE name in lower case
    MixedCase,      \* names with capitals that are not all capitals
    Relationships   \* pairs of table columns that the prompt relates, both ways

VARIABLES
    statement,   \* the tree of the statement
    guard        \* "none", or what the guardrails say of it

columnVars == <<statement, guard>>

-----------------------------------------------------------------------------
(* A query is [ctes, blocks]: a CTE is [name, columns, body], a block is       *)
(* [from, list, equal, subs], with subqueries in its condition.  A reference     *)
(* of FROM is [name, alias, body] and has a body (a list of at most one query)   *)
(* or a name; a select item is [col, alias].  A column is <<qualifier, name>>:   *)
(* <<"", "x">>, <<"q", "x">>, <<"q", "*">>, or <<"", "">> for an expression.     *)

RECURSIVE QueryAt(_, _)
QueryAt(q, place) ==
    IF place = <<>> THEN q
    ELSE IF place[1][1] = "cte" THEN QueryAt(q.ctes[place[1][2]].body, Tail(place))
    ELSE LET block == q.blocks[place[1][2]]
             inner == IF place[2][1] = "ref" THEN block.from[place[2][2]].body[1] ELSE block.subs[place[2][2]]
         IN  QueryAt(inner, SubSeq(place, 3, Len(place)))

RECURSIVE QueryPaths(_)
QueryPaths(q) ==
    LET below(steps, inner) == {steps \o p : p \in QueryPaths(inner)} IN
    {<<>>} \cup UNION {below(<<<<"cte", i>>>>, q.ctes[i].body) : i \in DOMAIN q.ctes}
    \cup UNION {UNION
        ({below(<<<<"block", k>>, <<"ref", j>>>>, q.blocks[k].from[j].body[1]) :
              j \in {i \in DOMAIN q.blocks[k].from : q.blocks[k].from[i].body # <<>>}}
         \cup {below(<<<<"block", k>>, <<"sub", j>>>>, q.blocks[k].subs[j]) : j \in DOMAIN q.blocks[k].subs})
        : k \in DOMAIN q.blocks}

BlockPaths(t) ==
    UNION {{Append(p, <<"block", k>>) : k \in DOMAIN QueryAt(t, p).blocks} : p \in QueryPaths(t)}
BlockAt(t, b) == QueryAt(t, Front(b)).blocks[Last(b)[2]]
CtePaths(t) == UNION {{Append(p, <<"cte", i>>) : i \in DOMAIN QueryAt(t, p).ctes} : p \in QueryPaths(t)}
CteAt(t, c) == QueryAt(t, Front(c)).ctes[Last(c)[2]]

-----------------------------------------------------------------------------
(* buildRelationModel.  A relation is a table, or the body at a place.          *)

None == <<"none">>
NameOf(ref) == IF ref.alias # "" THEN ref.alias ELSE ref.name

\* A CTE's window: its query from its own end on.
VisibleAt(c, place) ==
    /\ IsStrictPrefix(Front(c), place)
    /\ LET step == place[Len(c)] IN step[1] = "block" \/ step[2] > Last(c)[2]

CtesOf(t, place, name) ==
    {c \in CtePaths(t) : VisibleAt(c, place) /\ LowerCase[CteAt(t, c).name] = LowerCase[name]}

\* The innermost of them; of two there, the one that begins to be visible later.
CteOf(ctes) ==
    CHOOSE c \in ctes : \A d \in ctes : Len(d) < Len(c) \/ (Len(d) = Len(c) /\ Last(d)[2] <= Last(c)[2])

BindRef(t, place, ref) ==
    LET ctes == IF ref.body # <<>> THEN {} ELSE CtesOf(t, place, ref.name) IN
    IF ref.body # <<>> THEN (IF ref.alias = "" THEN None ELSE <<"body", place>>)
    ELSE IF ctes # {} THEN <<"body", CteOf(ctes)>>
    ELSE IF ref.name \in DOMAIN TableColumns THEN <<"table", ref.name>>
    ELSE None

\* The references of a block's FROM that bind a name; of two with one name, the first counts.
Bound(refs) ==
    FlattenSeq([j \in DOMAIN refs |-> IF \E i \in 1 .. j - 1 : refs[i][1] = refs[j][1] THEN <<>> ELSE <<refs[j]>>])
Bindings(t, b) ==
    LET from == BlockAt(t, b).from IN
    Bound(SelectSeq([j \in DOMAIN from |-> <<NameOf(from[j]), BindRef(t, Append(b, <<"ref", j>>), from[j])>>],
                    LAMBDA r : r[2] # None))

\* The block whose FROM this one sees next; <<>> for none.
EnclosingUnlessCte(t, b) ==  \* Faulty: the body of a derived table sees what is around it.
    IF Front(b) = <<>> \/ Last(Front(b))[1] = "cte" THEN <<>> ELSE Front(Front(b))

EnclosingBlock(t, b) == IF Front(b) = <<>> \/ Last(Front(b))[1] # "sub" THEN <<>> ELSE Front(Front(b))

RECURSIVE Resolve(_, _, _)
Resolve(t, b, qualifier) ==
    IF b = <<>> THEN None
    ELSE LET here == SelectSeq(Bindings(t, b), LAMBDA r : r[1] = qualifier) IN
         IF here # <<>> THEN here[1][2] ELSE Resolve(t, EnclosingBlock(t, b), qualifier)

Matching(columns, name) == SelectSeq(columns, LAMBDA c : LowerCase[c.name] = LowerCase[name])

\* The columns that a relation exposes, each with the table columns it comes from.
RECURSIVE Project(_, _)

HasColumn(t, relation, name) == Matching(Project(t, relation), name) # <<>>
FirstOrigins(columns) == IF columns = <<>> THEN {} ELSE columns[1].origins
ColumnOrigins(t, relation, name) ==
    FirstOrigins(IF relation = None THEN <<>> ELSE Matching(Project(t, relation), name))

Owners(t, b, name) == SelectSeq(Bindings(t, b), LAMBDA r : HasColumn(t, r[2], name))

\* One select item; a star is all the columns of the block's references, or of one.
ProjectItem(t, b, item) ==
    LET q == item.col[1]  name == item.col[2]
        output == IF item.alias # "" THEN item.alias ELSE name
        all == Bindings(t, b)
        one == Resolve(t, b, q)
        owners == IF name = "" THEN <<>> ELSE Owners(t, b, name)
    IN  CASE item.col = <<"", "*">> -> FlattenSeq([j \in DOMAIN all |-> Project(t, all[j][2])])
          [] name = "*" /\ q # "" -> IF one = None THEN <<>> ELSE Project(t, one)
          [] name # "*" /\ q # "" -> <<[name |-> output, origins |-> ColumnOrigins(t, one, name)]>>
          [] OTHER -> <<[name |-> output,
                         origins |-> IF Len(owners) = 1 THEN ColumnOrigins(t, owners[1][2], name) ELSE {}]>>

Exposed(projected, names) ==
    IF names = <<>> THEN SelectSeq(projected, LAMBDA c : c.name # "")
    ELSE [i \in DOMAIN names |-> [name |-> names[i],
                                  origins |-> IF i \in DOMAIN projected THEN projected[i].origins ELSE {}]]

\* Of a body: its first block's select list, renamed by a CTE's column list.
ProjectBody(t, place) ==
    LET first == Append(place, <<"block", 1>>)
        list == BlockAt(t, first).list
    IN  Exposed(FlattenSeq([i \in DOMAIN list |-> ProjectItem(t, first, list[i])]),
               IF Last(place)[1] = "cte" THEN CteAt(t, place).columns ELSE <<>>)

Project(t, relation) ==
    IF relation[1] = "table"
    THEN [i \in DOMAIN TableColumns[relation[2]] |->
             [name |-> TableColumns[relation[2]][i], origins |-> {<<relation[2], TableColumns[relation[2]][i]>>}]]
    ELSE ProjectBody(t, relation[2])

-----------------------------------------------------------------------------
(* The checks.                                                              *)

ColumnsOf(block) ==
    {block.list[i].col : i \in DOMAIN block.list} \cup UNION {ToSet(block.equal[i]) : i \in DOMAIN block.equal}

QualifiedKnown(t, b, col) ==
    LET relation == Resolve(t, b, col[1]) IN relation # None /\ HasColumn(t, relation, col[2])

\* A plain name is refused in mixed case only, and if neither the statement nor the prompt has it so.
KnownIdentifiers(t) ==
    LET blocks == {BlockAt(t, b) : b \in BlockPaths(t)}
        bodies == {CteAt(t, c).name : c \in CtePaths(t)}
        named(columns) == {columns[i].name : i \in DOMAIN columns}
        derived == CtePaths(t) \cup {p \in QueryPaths(t) : p # <<>> /\ Last(p)[1] = "ref"}
    IN  UNION {ToSet(c) : c \in Range(TableColumns)} \cup DOMAIN TableColumns \cup bodies
        \cup UNION {named(Project(t, <<"body", p>>)) : p \in derived}
        \cup UNION {{NameOf(b.from[j]) : j \in DOMAIN b.from} : b \in blocks}
        \cup UNION {{b.list[i].alias : i \in DOMAIN b.list} : b \in blocks}

UnknownBut(t, odd) ==
    \E b \in BlockPaths(t) : \E col \in ColumnsOf(BlockAt(t, b)) :
        col[2] \notin {"", "*"} /\ IF col[1] # "" THEN ~QualifiedKnown(t, b, col) ELSE col[2] \in odd
Unknown(t) == UnknownBut(t, MixedCase \ KnownIdentifiers(t))

\* Two qualified columns that are compared: of different relations, and of different tables.
OutOfScope(t, b, pair) ==
    LET relation(side) == Resolve(t, b, side[1]) IN
    /\ pair[1][1] # "" /\ pair[2][1] # "" /\ relation(pair[1]) # relation(pair[2])
    /\ \E x \in ColumnOrigins(t, relation(pair[1]), pair[1][2]), y \in ColumnOrigins(t, relation(pair[2]), pair[2][2]) :
           x[1] # y[1] /\ <<x, y>> \notin Relationships

ColumnsInit == statement \in Trees /\ guard = "none"

ValidateColumns ==
    /\ guard = "none"
    /\ guard' = IF Unknown(statement) THEN "UNKNOWN"
                ELSE IF \E b \in BlockPaths(statement) : \E i \in DOMAIN BlockAt(statement, b).equal :
                            OutOfScope(statement, b, BlockAt(statement, b).equal[i])
                THEN "JOIN_PATH" ELSE "accepted"
    /\ UNCHANGED statement

ColumnsNext == ValidateColumns
ColumnsSpec == ColumnsInit /\ [][ColumnsNext]_columnVars

-----------------------------------------------------------------------------
(* The server.  A value is the set of the table column it was read from, empty   *)
(* if it was computed.  scopes: what FROM binds here and around, innermost        *)
(* first, as [alias |-> columns]; ctes: those known here, the last one first.     *)
(* The result has the errors, the rows' columns, and the values it compared.      *)

RECURSIVE Run(_, _, _)

Named(columns, name) == {i \in DOMAIN columns : LowerCase[columns[i].name] = LowerCase[name]}

\* Values of a column: <<>> if no scope has it, or the first one that has, has two.
RECURSIVE Lookup(_, _)
Lookup(scopes, col) ==
    IF scopes = <<>> THEN <<>>
    ELSE LET owners == {r \in Range(Head(scopes)) : (col[1] # "" /\ r[1] = col[1]) \/ (col[1] = "" /\ Named(r[2], col[2]) # {})}
             held == UNION {{r[2][i].value : i \in Named(r[2], col[2])} : r \in owners}
         IN  IF owners = {} THEN Lookup(Tail(scopes), col)
             ELSE IF Cardinality(owners) = 1 /\ held # {} THEN <<CHOOSE v \in held : TRUE>> ELSE <<>>

\* A derived table and a CTE have no two columns of one name.
AsTable(result) ==
    LET twice == \E i \in DOMAIN result.columns :
            result.columns[i].name # "" /\ Cardinality(Named(result.columns, result.columns[i].name)) > 1
    IN  [result EXCEPT !.bad = @ \cup IF twice THEN {"one column twice"} ELSE {}]

Source(ref, ctes) ==
    LET known == SelectSeq(ctes, LAMBDA c : LowerCase[c.name] = LowerCase[ref.name]) IN
    IF ref.body # <<>> THEN AsTable(Run(ref.body[1], ctes, <<>>))
    ELSE IF known # <<>> THEN [bad |-> {}, columns |-> known[1].columns, pairs |-> {}]
    ELSE IF ref.name \in DOMAIN TableColumns
    THEN [bad |-> {}, pairs |-> {},
          columns |-> [i \in DOMAIN TableColumns[ref.name] |->
                         [name |-> TableColumns[ref.name][i], value |-> {<<ref.name, TableColumns[ref.name][i]>>}]]]
    ELSE [bad |-> {"no table"}, columns |-> <<>>, pairs |-> {}]

RunBlock(block, ctes, outer) ==
    LET sources == [j \in DOMAIN block.from |-> Source(block.from[j], ctes)]
        here == [j \in DOMAIN block.from |-> <<NameOf(block.from[j]), sources[j].columns>>]
        scopes == <<here>> \o outer
        own(q) == SelectSeq(here, LAMBDA r : r[1] = q)
        value(col) == LET read == Lookup(scopes, col) IN IF read = <<>> THEN {} ELSE read[1]
        item(i) ==
            LET col == block.list[i].col
                output == IF block.list[i].alias # "" THEN block.list[i].alias ELSE col[2]
            IN  CASE col = <<"", "*">> -> FlattenSeq([j \in DOMAIN here |-> here[j][2]])
                  [] col[2] = "*" /\ col[1] # "" -> IF own(col[1]) = <<>> THEN <<>> ELSE own(col[1])[1][2]
                  [] OTHER -> <<[name |-> output, value |-> IF col[2] = "" THEN {} ELSE value(col)]>>
        missing == {col \in ColumnsOf(block) : col[2] \notin {"", "*"} /\ Lookup(scopes, col) = <<>>}
        nested == [j \in DOMAIN block.subs |-> Run(block.subs[j], ctes, scopes)]
    IN  [bad |-> UNION {sources[j].bad : j \in DOMAIN sources} \cup UNION {nested[j].bad : j \in DOMAIN nested}
                 \cup {IF col[1] = "" THEN "plain name" ELSE "qualified name" : col \in missing}
                 \cup (IF \E j \in DOMAIN here : \E i \in 1 .. j - 1 : here[i][1] = here[j][1] THEN {"one alias twice"} ELSE {})
                 \cup (IF \E j \in DOMAIN here : here[j][1] = "" THEN {"no alias"} ELSE {})
                 \cup (IF \E i \in DOMAIN block.list : item(i) = <<>> THEN {"no such star"} ELSE {}),
         columns |-> FlattenSeq([i \in DOMAIN block.list |-> item(i)]),
         pairs |-> UNION {sources[j].pairs : j \in DOMAIN sources} \cup UNION {nested[j].pairs : j \in DOMAIN nested}
                   \cup {<<value(block.equal[i][1]), value(block.equal[i][2])>> :
                             i \in {k \in DOMAIN block.equal : block.equal[k][1][1] # "" /\ block.equal[k][2][1] # ""}}]

Renamed(columns, names) ==
    IF names = <<>> THEN columns
    ELSE [i \in DOMAIN columns |-> [columns[i] EXCEPT !.name = IF i \in DOMAIN names THEN names[i] ELSE ""]]

\* A CTE is known to the later ones and to the blocks.
RECURSIVE WithCtes(_, _, _)
WithCtes(list, ctes, result) ==
    IF list = <<>> THEN [result EXCEPT !.ctes = ctes]
    ELSE LET body == Run(Head(list).body, ctes, <<>>)
             renamed == AsTable([body EXCEPT !.columns = Renamed(@, Head(list).columns)])
             wrong == IF Len(Head(list).columns) \notin {0, Len(body.columns)} THEN {"column list"} ELSE {}
         IN  WithCtes(Tail(list), <<[name |-> Head(list).name, columns |-> renamed.columns]>> \o ctes,
                      [result EXCEPT !.bad = @ \cup renamed.bad \cup wrong, !.pairs = @ \cup body.pairs])

Run(q, ctes, outer) ==
    LET known == WithCtes(q.ctes, ctes, [bad |-> {}, pairs |-> {}, ctes |-> <<>>])
        blocks == [k \in DOMAIN q.blocks |-> RunBlock(q.blocks[k], known.ctes, outer)]
    IN  [bad |-> known.bad \cup UNION {blocks[k].bad : k \in DOMAIN blocks},
         columns |-> blocks[1].columns,
         pairs |-> known.pairs \cup UNION {blocks[k].pairs : k \in DOMAIN blocks}]

-----------------------------------------------------------------------------
(* Correctness.                                                             *)

SaysWhatItIs(run) ==
    LET unrelated == \E p \in run.pairs : \E x \in p[1], y \in p[2] : x[1] # y[1] /\ <<x, y>> \notin Relationships IN
    /\ run.bad = {} => guard = IF unrelated THEN "JOIN_PATH" ELSE "accepted"
    /\ "qualified name" \in run.bad /\ run.bad \subseteq {"qualified name"} => guard = "UNKNOWN"

\* Names mean to the guardrails what they mean to the server ("the way MariaDB 10.6 scopes it"): a
\* statement that runs is not refused for a name, a qualified name that the server does not know is
\* refused, and a statement that runs is refused for a join exactly when it compares columns of two
\* tables, through whatever derived tables and CTEs they come, that no relationship of the prompt pairs.
NamesAreTheServers == guard # "none" => SaysWhatItIs(Run(statement, <<>>, <<>>))
=============================================================================
