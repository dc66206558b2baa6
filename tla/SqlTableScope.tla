---------------------------- MODULE SqlTableScope ----------------------------
(***************************************************************************)
(* Which tables a statement reads, as the safety layer decides it: the       *)
(* structure analysis of src/sql-tokenizer.js (analyzeSqlStructure) and       *)
(* validateSqlSafety in src/pipeline.js.                                      *)
(*                                                                         *)
(* The analysis never parses: it sees the tokens of the text, and works out   *)
(* paren groups, the window in which each CTE name is visible, and the table  *)
(* references after FROM, JOIN and the commas of a FROM list.  The reference  *)
(* is what the server does with the statement's tree, whose text the tokens    *)
(* are.  Lexing itself is left out, and of the token policy one restricted     *)
(* call stands for all; aliases without AS, and set-operator blocks, which    *)
(* the guardrails use and the scope does not, only appear in the text.        *)
(***************************************************************************)
EXTENDS Naturals, Sequences, SequencesExt, FiniteSets

CONSTANTS
    Statements,  \* the trees of the statements to validate (see Text)
    Names,       \* the table names, CTE names and aliases in them
    Lower,       \* Lower[n]: n in lower case
    Allowed      \* allowedTables

VARIABLES
    tree,        \* the statement
    safety       \* "none", or what validateSqlSafety returns: its code and tablesUsed

scopeVars == <<tree, safety>>

-----------------------------------------------------------------------------
(* The text of a statement.  A query is a sequence of CTEs and a sequence of  *)
(* blocks joined by set operators; a block has FROM items, a condition and a  *)
(* tail; an item is a table name or a query (as a sequence of at most one).   *)

RECURSIVE Text(_)

InParens(s) == <<"(">> \o s \o <<")">>
Subtext(queries) == FlattenSeq([i \in DOMAIN queries |-> InParens(Text(queries[i]))])

TextOfCond(word, cond) ==
    IF cond.call # "" THEN <<word>> \o <<cond.call>> \o InParens(<<"month", "FROM", "day">>)
    ELSE IF cond.query # <<>> THEN <<word>> \o <<"EXISTS">> \o Subtext(cond.query)
    ELSE IF word = "ON" THEN <<"ON", "1">> ELSE <<>>

TextOfItem(item) ==
    <<item.via>> \o (IF item.query = <<>> THEN <<item.name>> ELSE Subtext(item.query))
    \o (IF item.alias = "" THEN <<>> ELSE <<"AS", item.alias>>)
    \o (IF item.via = "JOIN" THEN TextOfCond("ON", item.cond) ELSE <<>>)

TextOfBlock(block) ==
    <<"SELECT", "1">> \o FlattenSeq([i \in DOMAIN block.items |-> TextOfItem(block.items[i])])
    \o TextOfCond("WHERE", block.cond) \o block.tail

Text(q) ==
    LET cte(i) == <<IF i = 1 THEN "WITH" ELSE ",", q.ctes[i].name, "AS">>
                  \o InParens(Text(q.ctes[i].body))
        block(i) == (IF i = 1 THEN <<>> ELSE <<"UNION">>) \o TextOfBlock(q.blocks[i])
    IN  FlattenSeq([i \in DOMAIN q.ctes |-> cte(i)]) \o FlattenSeq([i \in DOMAIN q.blocks |-> block(i)])

-----------------------------------------------------------------------------
(* The analysis.                                                            *)

\* FROM separates arguments inside these calls.
FromArgumentFunctions == {"EXTRACT"}
FromClauseTerminators == {"WHERE", "GROUP", "UNION"}

HowMany(s, token, i, j) == Cardinality({k \in i .. j : s[k] = token})

\* Pass 1: where the group opened at o closes, and the innermost group around a token (0: none);
\* parens belong to the enclosing group.
CloseOf(s) ==
    [o \in {i \in DOMAIN s : s[i] = "("} |->
        CHOOSE c \in o .. Len(s) : HowMany(s, "(", o, c) = HowMany(s, ")", o, c)
                                   /\ \A k \in o .. c - 1 : HowMany(s, "(", o, k) > HowMany(s, ")", o, k)]

GroupOf(s, close) ==
    [i \in DOMAIN s |->
        LET around == {o \in DOMAIN close : o < i /\ i < close[o]} IN
        IF around = {} THEN 0 ELSE CHOOSE o \in around : \A p \in around : p <= o]

OpensQuery(s, o) == s[o + 1] \in {"SELECT", "WITH"}

\* Pass 3: the CTEs of the WITH clause whose next name is at cursor.
RECURSIVE CtesFrom(_, _, _, _)
CtesFrom(s, close, cursor, scopeEnd) ==
    LET body == cursor + 2
        next == close[body] + 1
    IN  {[name |-> s[cursor], visibleFrom |-> next, visibleTo |-> scopeEnd]}
        \cup IF next <= Len(s) /\ s[next] = "," THEN CtesFrom(s, close, next + 1, scopeEnd) ELSE {}

\* A WITH starts a clause only where a scope does (GROUP BY ... WITH ROLLUP does not).
Ctes(s, close, group) ==
    UNION {CtesFrom(s, close, w + 1, IF group[w] = 0 THEN Len(s) + 1 ELSE close[group[w]]) :
              w \in {i \in DOMAIN s : s[i] = "WITH" /\ (i = 1 \/ s[i - 1] = "(")}}

\* A name is a CTE's from the end of its body to the end of the scope of its WITH.
ResolveCte(ctes, name, i) ==
    \E cte \in ctes : Lower[cte.name] = Lower[name] /\ cte.visibleFrom <= i /\ i < cte.visibleTo

\* Pass 4a: the FROM keywords, but for those that separate arguments.
FromKeywords(s, group) ==
    {i \in DOMAIN s :
        s[i] = "FROM" /\ ~(group[i] > 1 /\ ~OpensQuery(s, group[i]) /\ s[group[i] - 1] \in FromArgumentFunctions)}

\* Faulty: a join ends the list.
CommasUpToJoin(s, group, from) ==
    {c \in from + 1 .. Len(s) :
        /\ s[c] = "," /\ group[c] = group[from]
        /\ \A k \in from + 1 .. c - 1 :
              group[k] = group[from] => s[k] \notin FromClauseTerminators \cup {"JOIN"}}

\* Pass 4b: the commas of the list after a FROM, at its own depth, up to a word that ends it; a
\* condition of a join does not.
CommasOf(s, group, from) ==
    {c \in from + 1 .. Len(s) :
        /\ s[c] = "," /\ group[c] = group[from]
        /\ \A k \in from + 1 .. c - 1 : group[k] = group[from] => s[k] \notin FromClauseTerminators}

\* The positions after which a table reference is parsed.
ReferenceAt(s, group) ==
    LET froms == FromKeywords(s, group) IN
    {i + 1 : i \in froms \cup {j \in DOMAIN s : s[j] = "JOIN"} \cup UNION {CommasOf(s, group, f) : f \in froms}}

\* analysis.tableRefs of kind "table", and whether there is an issue instead: a reference that is
\* neither a name nor a derived table.
Analyze(s) ==
    LET close == CloseOf(s)
        group == GroupOf(s, close)
        ctes == Ctes(s, close, group)
        at == ReferenceAt(s, group)
    IN  [tables |-> {s[i] : i \in {j \in at : s[j] \in Names /\ ~ResolveCte(ctes, s[j], j)}},
         issue |-> \E i \in at : s[i] \notin Names /\ ~(s[i] = "(" /\ OpensQuery(s, i))]

\* Layer 1's token policy: a restricted function that is called; its name alone is a name.
PolicyViolation(s) == \E i \in 1 .. Len(s) - 1 : s[i] = "SLEEP" /\ s[i + 1] = "("

ScopeInit ==
    /\ tree \in Statements
    /\ safety = [code |-> "none", tablesUsed |-> {}]

\* validateSqlSafety: the policy, then the structure, then the allow-list.
ValidateSqlSafety ==
    /\ safety.code = "none"
    /\ LET s == Text(tree)
           analysis == Analyze(s)
       IN  safety' = IF PolicyViolation(s) THEN [code |-> "DENYLISTED_FUNCTION", tablesUsed |-> {}]
                     ELSE IF analysis.issue THEN [code |-> "INVALID_TABLE_REFERENCE", tablesUsed |-> {}]
                     ELSE [code |-> IF analysis.tables \subseteq Allowed THEN "accepted" ELSE "TABLE_SCOPE",
                           tablesUsed |-> analysis.tables]
    /\ UNCHANGED tree

ScopeNext == ValidateSqlSafety

ScopeSpec == ScopeInit /\ [][ScopeNext]_scopeVars

-----------------------------------------------------------------------------
(* What the server does with the tree.                                      *)

\* The real tables that a query reads where the CTE names of env (in lower case) are known: a
\* CTE is known to the CTEs after it and to the query, subqueries included, and to nobody else.
RECURSIVE TablesRead(_, _)

ReadByAll(queries, env) == UNION {TablesRead(queries[i], env) : i \in DOMAIN queries}

ReadByItem(item, env) ==
    (IF item.query = <<>> THEN {n \in {item.name} : Lower[n] \notin env} ELSE ReadByAll(item.query, env))
    \cup (IF item.via = "JOIN" THEN ReadByAll(item.cond.query, env) ELSE {})

TablesRead(q, env) ==
    LET known(i) == env \cup {Lower[q.ctes[j].name] : j \in 1 .. i - 1} IN
    UNION {TablesRead(q.ctes[i].body, known(i)) : i \in DOMAIN q.ctes}
    \cup UNION {UNION {ReadByItem(block.items[k], known(Len(q.ctes) + 1)) : k \in DOMAIN block.items}
                \cup ReadByAll(block.cond.query, known(Len(q.ctes) + 1)) :
                    block \in ToSet(q.blocks)}

-----------------------------------------------------------------------------
(* Correctness.                                                             *)

\* Validated SQL reads exactly the tables that tablesUsed names, and a statement is refused for
\* its tables only if the server would read one outside the allow-list: whatever is nested in
\* whatever, the token windows agree with the scopes of the tree (analyzeSqlStructure).
ScopeIsExact ==
    safety.code \in {"accepted", "TABLE_SCOPE"} =>
        /\ safety.tablesUsed = TablesRead(tree, {})
        /\ (safety.code = "accepted") <=> (TablesRead(tree, {}) \subseteq Allowed)
=============================================================================
