----------------------------- MODULE ForeignKeys -----------------------------
(***************************************************************************)
(* Tables joined by foreign keys: distances and shortest join paths, by      *)
(* definition.  A table is a number: its place in the order of the names.    *)
(* A schema's graph is its set of links, a link the set of its two tables.   *)
(***************************************************************************)
EXTENDS Integers, FiniteSets, FiniteSetsExt, SequencesExt

CONSTANT Tables    \* the tables in scope

ASSUME TablesAssumption == IsFiniteSet(Tables) /\ Tables \subseteq Nat

AllLinks == {{a, b} : a, b \in Tables} \ {{a} : a \in Tables}
Hops == 0 .. Cardinality(Tables)

Neighbors(g, t) == {n \in Tables \ {t} : {n, t} \in g}

\* The tables of ts within k hops of t, along links inside ts.
Within(g, ts, t) ==
    LET reach[k \in Hops] ==
            IF k = 0 THEN {t}
            ELSE LET near == reach[k - 1]
                 IN  near \cup {n \in ts : Neighbors(g, n) \cap near # {}}
    IN  reach

\* isLinkedWithin(): a breadth-first search without a bound on the hops.
IsLinkedWithin(g, ts, a, b) == b \in Within(g, ts, a)[Cardinality(Tables)]

\* The shortest path of at most max hops, the first by name among equals; <<>> if there is none.
ShortestPath(g, a, b, max) ==
    LET near == Within(g, Tables, b)
        d == Min({k \in Hops : a \in near[k]} \cup {max + 1})
        p[i \in 1 .. d + 1] ==
            IF i = 1 THEN a ELSE Min(Neighbors(g, p[i - 1]) \cap near[d - i + 1])
    IN  IF d > max THEN <<>> ELSE p
==============================================================================
