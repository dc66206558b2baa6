------------------------------- MODULE MCProduct -------------------------------
(* Instances of the product's own protocols and algorithms: ServerLifecycle,   *)
(* WebAdmission and QueryStream, JoinPathSearch, TableRetrieval, SqlFanOut,     *)
(* SqlTableScope, SqlColumns, MetricGuard, DatabaseSetup and Pricing.  They share no      *)
(* state: a behavior is one of the component chosen at its start, so that a run explores the sum of their  *)
(* state spaces and not the product.                                         *)
EXTENDS ServerLifecycle, WebAdmission, QueryStream, JoinPathSearch, TableRetrieval, SqlFanOut, SqlTableScope, SqlColumns,
        MetricGuard, DatabaseSetup, Pricing

-----------------------------------------------------------------------------
(* Schemas of five tables: a line in two orders of the names, a star, a ring,  *)
(* two ways around, and two unconnected halves.                               *)

Edges(pairs) == {{p[1], p[2]} : p \in pairs}

SomeSchemas ==
    {Edges({<<1, 2>>, <<2, 3>>, <<3, 4>>, <<4, 5>>}), Edges({<<1, 4>>, <<4, 2>>, <<2, 5>>, <<5, 3>>}),
     Edges({<<3, 1>>, <<3, 2>>, <<3, 4>>, <<3, 5>>}), Edges({<<1, 2>>, <<2, 3>>, <<3, 4>>, <<4, 5>>, <<5, 1>>}),
     Edges({<<1, 2>>, <<1, 3>>, <<2, 4>>, <<3, 4>>, <<4, 5>>}), Edges({<<1, 2>>, <<3, 4>>, <<4, 5>>})}
SomeScores ==
    {s \in [Tables -> 0 .. 1] : Cardinality({t \in Tables : s[t] > 0}) = 1} \cup {[t \in Tables |-> t]}
SomeRequirements == {{}} \cup {{t} : t \in Tables}
SomeOrder == <<2, 1, 4, 3, 5>>
SomeConfigs ==
    {[schemaScope |-> "auto", widenOnDemand |-> "unset"],
     [schemaScope |-> "retrieved", widenOnDemand |-> "unset"],
     [schemaScope |-> "full", widenOnDemand |-> "on"]}

-----------------------------------------------------------------------------
(* Queries of a header and one or two more relations, with up to two          *)
(* equalities per join, one in WHERE and one IS NULL test; and sums of one     *)
(* value per group, of up to two columns.                                    *)

Eq(l, r, n) == [left |-> l, right |-> r, at |-> n]
RelColumns(rels, n) == {<<n, c>> : c \in Columns[rels[n]]}
Joinable(rels, n) ==
    {e \in {Eq(l, r, n) : l \in RelColumns(rels, n), r \in {Const} \cup UNION {RelColumns(rels, m) : m \in 1 .. n - 1}} :
        e.right = Const \/ e.left[2] = e.right[2] \/ {e.left[2], e.right[2]} = {"id", "doc"}}
Conditions(rels, n) == {{}} \cup {{a, b} : a, b \in Joinable(rels, n)}
Wheres(rels) == {{}} \cup {{Eq(<<n, c>>, Const, 0)} : n \in DOMAIN rels, c \in {"doc", "id"}}
Exist(rels, where) == \A e \in where : e.left[2] \in Columns[rels[e.left[1]]]
Joined(rels, joins, on, where, nulls, sum) ==
    [rels |-> rels, joins |-> joins, eqs |-> UNION ToSet(on) \cup where, isNull |-> nulls, sum |-> sum,
     sumOf |-> "rows", groupBy |-> {}]

TwoRelations == {<<"D", r>> : r \in {"L", "G", "T", "A", "O", "D"}} \cup {<<"L", "D">>, <<"A", "L">>, <<"L", "L">>}
Pairs ==
    UNION {{Joined(rels, <<"INNER", j>>, <<{}, c>>, w, nulls, sum) :
               j \in {"INNER", "LEFT"}, c \in Conditions(rels, 2), w \in {x \in Wheres(rels) : Exist(rels, x)},
               nulls \in {{}} \cup {{n} : n \in RelColumns(rels, 2)}, sum \in {{{1}}, {{1}, {2}}, {{1, 2}}}} :
           rels \in TwoRelations}

Triples ==
    UNION {{Joined(rels, <<"INNER", j, k>>, <<{}, {c}, d>>, {}, {}, {{1}}) :
               j, k \in {"INNER", "LEFT"}, c \in Joinable(rels, 2), d \in Conditions(rels, 3)} :
           rels \in {<<"D", "L", "G">>, <<"D", "A", "L">>, <<"D", "L", "O">>}}

GroupKeys(q) == {{}} \cup {{a, b} : a, b \in UNION {RelColumns(q.rels, n) : n \in DOMAIN q.rels}}
Grouped ==
    UNION {{[q EXCEPT !.sumOf = "groups", !.groupBy = keys] : keys \in GroupKeys(q)} :
        q \in {p \in Pairs : p.isNull = {} /\ \A e \in p.eqs : e.at # 0}
                \cup {p \in Triples : p.joins[2] = "INNER" /\ \A e \in p.eqs : e.at = 2 => e.right # Const}}

SomeQueries == Pairs \cup Triples \cup Grouped

AllLines == [doc : {1, 2}, line : {1, 2}, note : {0, 1}]
SomeDatabases ==
    {[D |-> {1, 2}, L |-> l] : l \in {m \in SUBSET AllLines :
        \A a, b \in m : a # b => <<a.doc, a.line>> # <<b.doc, b.line>>}}

-----------------------------------------------------------------------------
(* Statements: a list of three tables in one block, under an optional CTE; and  *)
(* a derived table beside another, under two CTEs of which the first nests one. *)

NoCond == [call |-> "", query |-> <<>>]
Table(via, name, alias) == [via |-> via, name |-> name, query |-> <<>>, alias |-> alias, cond |-> NoCond]
Derived(via, q) == [via |-> via, name |-> "", query |-> <<q>>, alias |-> "sleep", cond |-> NoCond]
Block(items, cond, tail) == [items |-> items, cond |-> cond, tail |-> tail]
Reads(name) == [ctes |-> <<>>, blocks |-> <<Block(<<Table("FROM", name, "")>>, NoCond, <<>>)>>]
Cte(name, q) == [name |-> name, body |-> q]

SomeNames == {"orders", "secrets", "SECRETS"}
Simple == {Reads(n) : n \in SomeNames}
Nested == Simple \cup {[ctes |-> <<Cte(c, Reads(n))>>, blocks |-> Reads(m).blocks] : c, n, m \in SomeNames}
Calls == {NoCond, [call |-> "EXTRACT", query |-> <<>>], [call |-> "SLEEP", query |-> <<>>]}
         \cup {[call |-> "", query |-> <<q>>] : q \in Simple}
Lists == {<<Table("FROM", "orders", a), [Table(v, n, "") EXCEPT !.cond = c], Table(w, m, "")>> :
             a \in {"", "sleep"}, v, w \in {",", "JOIN"}, n, m \in {"secrets", "SECRETS"}, c \in Calls}
Flat == {[ctes |-> ctes, blocks |-> <<Block(l, NoCond, t)>>] :
            ctes \in {<<>>, <<Cte("secrets", Reads("orders"))>>}, l \in Lists,
            t \in {<<>>, <<"GROUP", "BY", "x", ",", "y", "WITH", "ROLLUP">>}}
Deep == {[ctes |-> <<Cte("secrets", q), Cte("orders", r)>>,
          blocks |-> <<Block(<<Derived("FROM", p), Table(",", "SECRETS", "")>>, c, <<>>)>> \o u] :
            q, p \in Nested, r \in Simple, c \in {NoCond, [call |-> "", query |-> <<Reads("secrets")>>]},
            u \in {<<>>, Reads("secrets").blocks}}
SomeStatements ==
    Flat \cup {s \in Deep : s.ctes[1].body \in Simple \/ s.blocks[1].items[1].query[1] \in Simple}
LowerOf == [n \in SomeNames \cup {"sleep"} |-> IF n = "SECRETS" THEN "secrets" ELSE n]

-----------------------------------------------------------------------------
(* Statements over two related tables whose names are resolved through derived  *)
(* tables, CTEs with and without a column list, subqueries that see what is     *)
(* around them, and CTEs that hide others of their name.                      *)

SomeTables == [Orders |-> <<"Id", "CustId">>, Customers |-> <<"Id", "Name">>]
Related == LET pair == <<<<"Orders", "CustId">>, <<"Customers", "Id">>>> IN {pair, <<pair[2], pair[1]>>}
LowerColumns ==
    [n \in {"", "Id", "CustId", "Name", "id", "X", "x", "Orders", "Customers", "Recent", "RECENT", "d"} |->
        CASE n = "Id" -> "id" [] n = "CustId" -> "custid" [] n = "Name" -> "name" [] n = "X" -> "x"
          [] n = "RECENT" -> "Recent" [] OTHER -> n]

Ref(name, alias) == [name |-> name, alias |-> alias, body |-> <<>>]
DerivedRef(q, alias) == [name |-> "", alias |-> alias, body |-> <<q>>]
Item(q, n, a) == [col |-> <<q, n>>, alias |-> a]
Select(list, from, equal, subs) ==
    [ctes |-> <<>>, blocks |-> <<[from |-> from, list |-> list, equal |-> equal, subs |-> subs]>>]
With(ctes, q) == [q EXCEPT !.ctes = ctes]
CteOfBody(name, columns, q) == [name |-> name, columns |-> columns, body |-> q]
Compare(l, r) == <<<<l, r>>>>

\* What a body may be: a list of one or two items of a table, with a comparison or none.
Lists1 == {<<Item("", "*", "")>>, <<Item("o", "*", "")>>, <<Item("o", "Id", "")>>, <<Item("o", "CustId", "X")>>,
           <<Item("", "CustId", "X"), Item("o", "id", "")>>, <<Item("", "", "X"), Item("", "CustId", "")>>}
Bodies == {Select(l, <<Ref(t, "o")>>, e, <<>>) :
             l \in Lists1, t \in {"Orders", "Customers"},
             e \in {<<>>, Compare(<<"c", "Id">>, <<"o", "CustId">>)}}
Outer == {<<"d", "X">>, <<"d", "x">>, <<"d", "Id">>, <<"d", "CustId">>, <<"o", "Id">>, <<"d", "Name">>}

WithDerived ==
    {Select(<<Item("d", "*", ""), Item("", "Name", "")>>, <<DerivedRef(q, a), Ref("Customers", "c")>>,
            Compare(l, <<"c", r>>), <<>>) : q \in Bodies, a \in {"d", "o"}, l \in Outer, r \in {"Id", "Name"}}
WithCte ==
    {With(<<CteOfBody("Recent", names, q)>>,
          Select(<<Item("", "*", "")>>, <<Ref(n, a), Ref("Customers", "c")>>, Compare(l, <<"c", "Id">>), <<>>)) :
       names \in {<<>>, <<"X">>, <<"Id", "X">>}, q \in Bodies, n \in {"Recent", "RECENT"}, a \in {"", "d"},
       l \in {<<"d", "X">>, <<"d", "CustId">>, <<"Recent", "X">>, <<"RECENT", "CustId">>}}
Exists ==
    {Select(<<Item("o", "Id", "")>>, <<Ref("Orders", "o"), Ref("Customers", "c")>>, e,
            <<Select(<<Item("", n, "")>>, f, Compare(l, r), <<>>)>>) :
       e \in {<<>>, Compare(<<"o", "CustId">>, <<"c", "Id">>), Compare(<<"o", "Id">>, <<"c", "Id">>)},
       n \in {"Id", "Name", "CustId", "X"}, f \in {<<Ref("Orders", "d")>>, <<Ref("Customers", "o")>>, <<Ref("Customers", "")>>},
       l \in {<<"o", "CustId">>, <<"o", "Id">>, <<"d", "CustId">>, <<"Customers", "Id">>}, r \in {<<"c", "Id">>, <<"o", "Id">>, <<"d", "Id">>}}
\* A CTE beside one of the same name in a subquery, in a derived table, or after it.
Shadowed ==
    LET orders == Select(<<Item("o", "CustId", "X")>>, <<Ref("Orders", "o")>>, <<>>, <<>>)
        ids == Select(<<Item("o", "Id", "X")>>, <<Ref("Orders", "o")>>, <<>>, <<>>)
        same(n) == Select(<<Item("", "*", "")>>, <<Ref(n, "")>>, <<>>, <<>>)
        join == Select(<<Item("", "X", "")>>, <<Ref("Recent", "d"), Ref("Customers", "c")>>, Compare(<<"d", "X">>, <<"c", "Id">>), <<>>)
        bodies == {orders, ids} \cup {same(n) : n \in {"Recent", "RECENT"}}
                  \cup {With(<<CteOfBody(n, <<>>, q)>>, same("Recent")) : n \in {"Recent", "RECENT"}, q \in {orders, ids}}
    IN  {With(<<CteOfBody("Recent", <<>>, p), CteOfBody(n, <<>>, q)>>, r) :
           n \in {"d", "RECENT"}, p, q \in bodies,
           r \in {join, Select(<<Item("", "", "")>>, <<Ref("Orders", "")>>, <<>>, <<join>>)}
                 \cup {Select(<<Item("d", "X", "")>>, <<DerivedRef(m, "d"), Ref("Customers", "c")>>,
                              Compare(<<"d", "X">>, <<"c", "Id">>), <<>>) : m \in bodies}
                 \cup {Select(<<Item("", "", "")>>, <<Ref("Orders", "")>>, <<>>,
                              <<With(<<CteOfBody("Recent", <<>>, m)>>, join)>>) : m \in bodies}}
SomeTrees == WithDerived \cup WithCte \cup Exists \cup Shadowed

-----------------------------------------------------------------------------
(* Statements with one difference: every way to write it beside each other    *)
(* number, every pair of wrappings around it, and every way out of a derived     *)
(* table, a CTE, a UNION or a subquery to the result.                          *)

TableValues == [docs |-> ("a" :> 35 @@ "b" :> 12 @@ "c" :> 3), others |-> ("bal" :> 5 @@ "c" :> 7)]
Literals == [n \in {"0", "1", "3"} |-> CASE n = "0" -> 0 [] n = "1" -> 10 [] n = "3" -> 30]

Col(n) == Node("col", <<"o", n>>, <<>>)
Num(n) == Node("num", <<n>>, <<>>)
Fn(f, args) == Node("call", <<f, "">>, args)
Typed(f, detail, e) == Node("call", <<f, detail>>, <<e>>)
Minus(l, r) == Node("sum", <<"+", "-">>, <<l, r>>)
Multiply(ops, args) == Node("prod", ops, args)
Positive(e) == Node("pred", <<">">>, <<e, Num("0")>>)
CaseWhen(w, t, e) == Node("case", <<>>, <<w, t, e>>)

Difference == Minus(Col("a"), Col("b"))
Written ==
    {Difference, Minus(Col("b"), Col("a")), Minus(Col("a"), Col("c")), Node("sum", <<"+", "+">>, <<Col("a"), Col("b")>>),
     Minus(Fn("SUM", <<Col("a")>>), Fn("SUM", <<Col("b")>>)), Minus(Fn("SUM", <<Col("a")>>), Col("b")),
     Minus(Fn("COALESCE", <<Col("a"), Num("0")>>), Col("b")), Minus(Col("a"), Fn("ABS", <<Col("b")>>)),
     Minus(Typed("ROUND", "1", Col("a")), Typed("ROUND", "1", Col("b"))),
     Minus(Typed("CAST", "DECIMAL(12,2)", Col("a")), Col("b")), Minus(Typed("CAST", "SIGNED", Col("a")), Col("b")),
     Minus(Fn("SUM", <<Typed("CAST", "DOUBLE", Col("a"))>>), Fn("COALESCE", <<Fn("SUM", <<Col("b")>>), Num("0")>>)),
     Minus(Multiply(<<"*">>, <<Num("3"), Col("a")>>), Col("b")), Minus(Col("a"), Multiply(<<"*">>, <<Col("b"), Num("3")>>)),
     Node("sum", <<"-", "-">>, <<Col("a"), Col("b")>>)}
    \cup {Node("sum", s, <<Col("c"), Col("a"), Col("b")>>) : s \in {<<"+", "+", "-">>, <<"+", "-", "-">>, <<"-", "+", "-">>}}
    \cup {Node("sum", s, <<Col("a"), Col("b"), Col("c")>>) : s \in {<<"+", "-", "-">>, <<"+", "-", "+">>}}

Wrapped(e) ==
    {e, Fn("ABS", <<e>>), Fn("SIGN", <<e>>), Fn("FLOOR", <<e>>), Fn("MOD", <<e, Num("3")>>), Fn("COALESCE", <<e, Num("0")>>),
     Fn("IF", <<e, Num("1"), Num("3")>>), Fn("IF", <<Positive(Col("c")), e, Num("0")>>), Fn("NULLIF", <<e, Num("0")>>),
     Fn("NULLIF", <<Num("0"), e>>), Fn("FIELD", <<Num("0"), e>>), Fn("INTERVAL", <<e, Num("0")>>), Fn("ELT", <<e, Num("3")>>),
     Fn("ELT", <<Num("1"), e>>), Typed("FORMAT", "0", e), Typed("FORMAT", "2", e), Typed("CAST", "SIGNED", e),
     Typed("CAST", "DOUBLE", e), Typed("ROUND", "1", e), Multiply(<<"*">>, <<Num("3"), e>>), Multiply(<<"DIV">>, <<e, Num("1")>>),
     Multiply(<<"*", "*">>, <<e, Num("1"), Num("3")>>), Multiply(<<"%">>, <<e, Num("3")>>), Minus(Col("c"), e), Positive(e),
     CaseWhen(Positive(e), Num("1"), Num("0")), CaseWhen(Positive(Num("1")), e, Num("0")), CaseWhen(e, Num("1"), Num("0")),
     Node("pred", <<"AND">>, <<e, Num("1")>>)}
Aggregated(e) == {Fn("SUM", <<e>>), Fn("COUNT", <<e>>)}

FromTable(name, alias) == Node("table", <<name, alias>>, <<>>)
FromQuery(q, alias) == Node("derived", <<"", alias>>, <<q>>)
Output(e, alias) == Node("item", alias, <<e>>)
Star(q) == Node("item", <<>>, <<Node("star", q, <<>>)>>)
Where(e) == Node("cond", <<"WHERE">>, <<e>>)
By(e) == Node("cond", <<"BY">>, <<e>>)
Branch(from, items, conds) == Node("block", <<>>, from \o items \o conds)
QueryOf(ctes, blocks) == Node("query", <<>>, ctes \o blocks)
One(from, items, conds) == QueryOf(<<>>, <<Branch(from, items, conds)>>)
Docs == <<FromTable("docs", "o")>>
WithNames(names, q) == Node("cte", names, <<q>>)

Alone ==
    {One(Docs, <<Output(w, <<>>)>>, <<>>) : w \in UNION {Wrapped(e) : e \in Written}}
    \cup {One(Docs, <<Output(v, <<>>)>>, <<>>) : v \in UNION {Wrapped(w) \cup Aggregated(w) : w \in Wrapped(Difference)}}
    \cup {One(Docs, <<Output(Col("c"), <<>>)>>, <<c>>) : c \in {Where(Positive(Difference)), By(Difference)}}

\* Bodies with the difference as a column, and ways to read it.
Bal == Output(Difference, <<"bal">>)
BalanceBodies ==
    {One(Docs, <<Bal>>, <<>>), One(Docs, <<Output(Col("c"), <<>>), Bal>>, <<>>), One(Docs, <<Output(Difference, <<>>)>>, <<>>),
     One(Docs, <<Output(Col("c"), <<"bal">>)>>, <<Where(Positive(Difference))>>),
     One(<<FromQuery(One(Docs, <<Bal>>, <<>>), "d")>>, <<Star(<<"d">>)>>, <<>>),
     One(Docs, <<Output(QueryOf(<<>>, <<Branch(<<FromTable("docs", "o")>>, <<Output(Difference, <<>>)>>, <<>>)>>), <<"bal">>)>>, <<>>)}
    \cup {QueryOf(<<>>, <<Branch(Docs, <<Output(x, <<"bal">>), Output(y, <<"c">>)>>, <<>>),
                           Branch(Docs, <<Output(u, <<"c">>), Output(v, <<"bal">>)>>, <<>>)>>) :
            x, y, u, v \in {Difference, Col("c")}}

Bare(n) == Node("col", <<n>>, <<>>)
ReadOf(q, n) == Node("col", <<q, n>>, <<>>)
Outers(d) ==    \* d: the sources that have the body, under the alias d
    {One(d, <<Output(e, <<>>)>>, c) : e \in {Bare("bal"), Fn("SUM", <<ReadOf("d", "bal")>>), ReadOf("d", "c"), Fn("COUNT", <<Bare("bal")>>), Num("1")},
        c \in {<<>>, <<Where(Positive(Bare("bal")))>>}}
    \cup {One(d, <<Star(<<>>)>>, <<>>), One(d, <<Star(<<"d">>)>>, <<By(Bare("bal"))>>)}
    \cup {One(d \o <<FromTable("others", "x")>>, <<Output(e, <<>>)>>, <<>>) : e \in {ReadOf("x", "bal"), ReadOf("d", "bal")}}
    \cup {One(d, <<Output(One(<<FromTable("others", "x")>>, <<Output(e, <<>>)>>, <<>>), <<>>)>>, <<>>) : e \in {Bare("bal"), ReadOf("d", "bal"), ReadOf("x", "bal")}}
    \cup {One(d, <<Output(Num("1"), <<>>)>>, <<Where(Node("pred", <<"EXISTS">>, <<One(<<FromTable("others", "x")>>, <<Output(ReadOf("d", "bal"), <<>>)>>, <<>>)>>))>>)}
    \cup {One(<<FromQuery(One(d, <<Star(<<>>)>>, <<>>), "y")>>, <<Output(e, <<>>)>>, <<>>) : e \in {Bare("bal"), Num("1")}}

HasStar(q) == \E i \in DOMAIN q.args[1].args : q.args[1].args[i].op = "item" /\ ItemName(q.args[1].args[i]) = "*"
WithDiff ==
    UNION {Outers(<<FromQuery(q, "d")>>) : q \in BalanceBodies}
    \cup UNION {UNION {{QueryOf(<<WithNames(names, q)>>, o.args) : o \in Outers(<<FromTable("d", "")>>)} :
                names \in {<<"d">>, IF Cardinality({i \in DOMAIN q.args[1].args : q.args[1].args[i].op = "item"}) = 1
                                    THEN <<"d", "bal">> ELSE <<"d", "c", "bal">>}} : q \in {b \in BalanceBodies : ~HasStar(b)}}
    \cup {QueryOf(<<WithNames(<<"d">>, q)>>, o.args) : q \in BalanceBodies, o \in Outers(<<FromTable("d", "")>>)}
SomeSelects == Alone \cup WithDiff
Metric(name, count, enforced, preferred, differences) ==
    [name |-> name, count |-> count, enforced |-> enforced, preferred |-> preferred, differences |-> differences]
Balance(enforced, preferred) == Metric("open_balance", FALSE, enforced, preferred, {<<"a", "b">>})
SomePlans ==
    {<<Balance(FALSE, {"p"})>>, <<Balance(TRUE, {"p", "c"})>>, <<Balance(TRUE, {})>>, <<Metric("documents", TRUE, TRUE, {"p"}, {})>>,
     <<Balance(FALSE, {"p"}), Metric("net_sales", FALSE, TRUE, {"p"}, {}), Metric("line_net_sales", FALSE, TRUE, {"a"}, {})>>,
     <<Metric("net_sales", FALSE, TRUE, {"c"}, {}), Balance(TRUE, {"p"})>>}
SomeMetricChecks ==
    (SomeSelects \X {<<Balance(TRUE, {"p"})>>})
    \cup ({One(Docs, <<Output(e, <<>>)>>, <<>>) : e \in Written} \X SomePlans)

-----------------------------------------------------------------------------
(* Settings of whole or missing or differing accounts, on a machine with a      *)
(* compose service of these settings or of others, or somebody else's server; and   *)
(* grants for all short names.                                               *)

Settings(user, password, roUser, roPassword, admin, host, docker) ==
    [DB_USER |-> user, DB_PASSWORD |-> password, DB_READONLY_USER |-> roUser, DB_READONLY_PASSWORD |-> roPassword,
     DB_ADMIN_USER |-> admin[1], DB_ADMIN_PASSWORD |-> admin[2], MARIADB_ROOT_PASSWORD |-> admin[3], host |-> host, docker |-> docker]
Others == Settings("", "other", "", "", <<"", "", "">>, "elsewhere", TRUE)
SomeEnvironments ==
    {Settings(u, p, r, q, a, "local", TRUE) :
        u \in {"", " ", "demo_readonly", "app"}, p \in {"", "p"}, r \in {"", "app"}, q \in {"", "p", "q"},
        a \in {<<"", "", "">>, <<"", "a", "">>, <<"", "", "r">>, <<"dba", "a", "r">>, <<"dba", "", "">>}}
    \cup {Others} \cup {Settings("", "p", "", "", <<"", "a", "">>, "local", FALSE)}
Machine(container, port, volume, other) == [container |-> container, port |-> port, volume |-> volume, other |-> other]
SomeMachines ==
    [e \in SomeEnvironments |->
        {Machine("none", "same", v, NoVolume) : v \in {NoVolume, FreshVolume(Others)}}
        \cup {Machine(c, p, v, NoVolume) : c \in {"running", "stopped"}, p \in {"same", "other"},
                  v \in {w \in {FreshVolume(e), FreshVolume(Others)} : w.password # ""}}
        \cup {Machine("none", "same", NoVolume, FreshVolume(Others))}]

NamesUpTo(n, chars) == UNION {[1 .. k -> chars] : k \in 1 .. n}
ShortNames == NamesUpTo(4, {"d", "_", "m", "x", "%"}) \cup {<<"d", "\\">>}
Grant(privileges, on, name, option) == [privileges |-> privileges, on |-> on, name |-> name, option |-> option]
SomePatterns == NamesUpTo(3, {"d", "_", "%", "x", "m"}) \cup {<<"d", "\\", "_">>, <<"d", "\\", "_", "%">>, <<"d", "\\", "%">>, <<"d", "\\">>}
SomeReviews ==
    {<<<<Grant({"SELECT"}, on, n, FALSE)>>, d>> : on \in {"database", "table"}, n \in SomePatterns, d \in {<<>>, <<"d", "_">>, <<"d", "x">>, <<"x">>}}
    \cup {<<<<Grant({"USAGE"}, "all", <<>>, FALSE), Grant(p, on, <<"d", "\\", "_", "%">>, o)>>, <<"d", "_">>>> :
             p \in {{"SELECT"}, {"SELECT", "INSERT"}, {"USAGE"}, {"ALL PRIVILEGES"}}, on \in {"role", "all", "database"}, o \in BOOLEAN}

-----------------------------------------------------------------------------
(* Runs of one call of any usage, answered under any id, in a run with a budget *)
(* under every list of overrides; and of three calls grouped in every way.      *)

Id(v, n) == [vendor |-> v, name |-> n, dated |-> FALSE]
Dated(v, n) == [Id(v, n) EXCEPT !.dated = TRUE]
Listed ==
    [sol |-> [input |-> 20, cachedInput |-> 2, output |-> 100, currency |-> "USD"],
     haiku |-> [input |-> 8, cachedInput |-> 1, cacheWrite |-> 10, output |-> 40, currency |-> "USD"]]
Override(id, fields) == [id |-> id, fields |-> fields]

SomeOverrides ==
    {<<>>,
     <<Override(Id("openai", "sol"), [input |-> 30]), Override(Id("", "sol"), [input |-> 40, output |-> Unsaid])>>,
     <<Override(Id("", "sol"), [currency |-> "EUR"]), Override(Id("openai", "sol"), [currency |-> "USD"])>>,
     <<Override(Id("", "haiku"), [currency |-> "EUR"]), Override(Dated("", "sql"), [input |-> 1, output |-> 1])>>,
     <<Override(Id("acme", "sql"), [input |-> 3, output |-> 5]), Override(Id("", "sql"), [input |-> 2, output |-> 4])>>,
     <<Override(Id("", "sql"), [input |-> 3, cachedInput |-> 1, output |-> Unsaid]), Override(Dated("acme", "sol"), [input |-> 7])>>}
Plain == [NoUsage EXCEPT !.prompt = 10, !.completion = 4] @@ [upstream |-> Unsaid, byok |-> "unsaid"]
Charged == [Plain EXCEPT !.cost = 50, !.total = 15]
Detailed == [Plain EXCEPT !.cached = 6, !.written = 7, !.reasoning = 3]
SomeUsages ==
    {Plain, Charged, Detailed, [Plain EXCEPT !.cached = 12, !.written = 0], [Detailed EXCEPT !.cost = 0],
     [Charged EXCEPT !.prompt = Unsaid], [Plain EXCEPT !.completion = Unsaid]}
    \cup {[Charged EXCEPT !.byok = b, !.upstream = u] : b \in {"yes", "no", "unsaid"}, u \in {Unsaid, 200}}

SomeIds ==
    {Id("openai", "sol"), Id("", "sol"), Dated("", "sol"), Id("acme", "sol"), Id("", "haiku"), Dated("acme", "sql"),
     Id("", "sql"), Id("", "new")}
CallsOf(ids, usages) == [answered : ids, usage : usages]
RunsOf(models, overrides, budgeted, calls, most) ==
    [model : models, overrides : overrides, budgeted : budgeted, calls : {calls}, most : {most}]
SomePricedRuns ==
    RunsOf(SomeIds, SomeOverrides, {TRUE}, CallsOf(SomeIds, SomeUsages), 1)
    \cup RunsOf({Id("openai", "sol"), Id("", "new")}, {<<>>, <<Override(Id("", "haiku"), [currency |-> "EUR"])>>}, {FALSE},
                CallsOf({Id("", "sol"), Id("", "haiku"), Id("", "new")}, {Plain, Charged, Detailed}), 3)

-----------------------------------------------------------------------------
VARIABLE part    \* the component that moves

webVars == <<lifecycleVars, admissionVars, streamVars>>
sqlVars == <<searchVars, retrievalVars, fanOutVars, scopeVars, columnVars, metricVars, databaseVars, pricingVars>>

SearchIdle == links = {} /\ ends = <<1, 1, 1>> /\ queue = <<>> /\ visited = {} /\ path = <<>> /\ found = FALSE
RetrievalIdle ==
    /\ graph = {} /\ score = [t \in Tables |-> 0] /\ required = {} /\ scope \in SomeConfigs
    /\ scope.schemaScope = "full" /\ initial = <<>> /\ retrieved = {} /\ extra = {} /\ prompt = {}
FanOutIdle == query = "none" /\ verdict = "none"
ColumnsIdle == statement = "none" /\ guard = "none"
MetricIdle == select = "none" /\ metrics = <<>> /\ metricVerdict = Unchecked
DatabaseIdle ==
    /\ settings = Others /\ machine = Machine("none", "same", NoVolume, NoVolume) /\ stage = "idle" /\ polls = 0
    /\ meddling = 0 /\ review = <<<<>>, <<>>>> /\ warned = {}
PricingIdle ==
    /\ order = [model |-> Id("", "new"), overrides |-> <<>>, budgeted |-> FALSE, calls |-> {}, most |-> 0] /\ running = "no"
    /\ question = <<>> /\ reported = <<>> /\ made = <<>>
ScopeIdle == tree = "none" /\ safety = [code |-> "none", tablesUsed |-> {}]

Init ==
    /\ part \in {"lifecycle", "admission", "stream", "search", "retrieval", "fan-out", "scope", "columns", "metric", "database", "pricing"}
    /\ LifecycleInit /\ AdmissionInit /\ StreamInit
    /\ part # "stream" => kind = [r \in Runs |-> "result"]
    /\ \E r \in Runs : kind[r] = "result"
    /\ IF part = "search" THEN SearchInit /\ (\A l \in links : 5 \notin l) ELSE SearchIdle
    /\ IF part = "retrieval" THEN RetrievalInit ELSE RetrievalIdle
    /\ IF part = "fan-out" THEN FanOutInit ELSE FanOutIdle
    /\ IF part = "scope" THEN ScopeInit ELSE ScopeIdle
    /\ IF part = "columns" THEN ColumnsInit ELSE ColumnsIdle
    /\ IF part = "metric" THEN MetricInit ELSE MetricIdle
    /\ IF part = "database" THEN DatabaseInit ELSE DatabaseIdle
    /\ IF part = "pricing" THEN PricingInit ELSE PricingIdle

Next ==
    /\ UNCHANGED part
    /\ \/ part = "lifecycle" /\ LifecycleNext /\ UNCHANGED <<admissionVars, streamVars, sqlVars>>
       \/ part = "admission" /\ AdmissionNext /\ UNCHANGED <<lifecycleVars, streamVars, sqlVars>>
       \/ part = "stream" /\ StreamNext /\ UNCHANGED <<lifecycleVars, admissionVars, sqlVars>>
       \/ part = "search" /\ SearchNext /\ UNCHANGED <<webVars, retrievalVars, fanOutVars, scopeVars, columnVars, metricVars, databaseVars, pricingVars>>
       \/ part = "retrieval" /\ RetrievalNext /\ UNCHANGED <<webVars, searchVars, fanOutVars, scopeVars, columnVars, metricVars, databaseVars, pricingVars>>
       \/ part = "fan-out" /\ FanOutNext /\ UNCHANGED <<webVars, searchVars, retrievalVars, scopeVars, columnVars, metricVars, databaseVars, pricingVars>>
       \/ part = "scope" /\ ScopeNext /\ UNCHANGED <<webVars, searchVars, retrievalVars, fanOutVars, columnVars, metricVars, databaseVars, pricingVars>>
       \/ part = "columns" /\ ColumnsNext /\ UNCHANGED <<webVars, searchVars, retrievalVars, fanOutVars, scopeVars, metricVars, databaseVars, pricingVars>>
       \/ part = "metric" /\ MetricNext /\ UNCHANGED <<webVars, searchVars, retrievalVars, fanOutVars, scopeVars, columnVars, databaseVars, pricingVars>>
       \/ part = "database" /\ DatabaseNext /\ UNCHANGED <<webVars, searchVars, retrievalVars, fanOutVars, scopeVars, columnVars, metricVars, pricingVars>>
       \/ part = "pricing" /\ PricingNext
          /\ UNCHANGED <<webVars, searchVars, retrievalVars, fanOutVars, scopeVars, columnVars, metricVars, databaseVars>>

vars == <<part, webVars, sqlVars>>

\* The fairness of a component is that of its own steps, which only its part takes.
Spec == Init /\ [][Next]_vars /\ (part = "lifecycle" => LifecycleFairness)
==============================================================================
