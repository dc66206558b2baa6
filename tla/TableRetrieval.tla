---------------------------- MODULE TableRetrieval ----------------------------
(***************************************************************************)
(* Which tables a prompt shows and allows: retrieval with its join paths,    *)
(* the schema scope, and widening after rejections (retrieveRelevantTables,  *)
(* buildOptimizedPrompt, widenRetrievedTables in src/pipeline.js and          *)
(* src/schema-scope.js).                                                      *)
(*                                                                         *)
(* How well a question's words match a table, and which tables a matched      *)
(* metric or filter requires, are inputs.  The search for a join path is      *)
(* JoinPathSearch; here it is the path that it returns.                       *)
(***************************************************************************)
EXTENDS ForeignKeys

CONSTANTS
    Schemas,     \* foreign-key graphs
    Configs,     \* schema-scope configurations
    Order,       \* the tables in the order of the schema
    Scores,      \* lexical and semantic scores of the tables for a question
    Requirements,  \* sets of tables that a semantic plan requires
    MaxTables,   \* tables picked by score
    JoinHops,    \* maxJoinPathHops: hops of a retrieval join path
    WidenHops,   \* maxDepth by default: hops of the paths widening tries first
    TooLarge     \* whether the schema exceeds fullSchemaMaxTokens

ASSUME RetrievalAssumption ==
    /\ Schemas \subseteq SUBSET AllLinks
    /\ Configs \subseteq [schemaScope : {"retrieved", "full", "auto"},
                           widenOnDemand : {"unset", "on", "off"}]
    /\ Order \in Seq(Tables) /\ Range(Order) = Tables /\ Len(Order) = Cardinality(Tables)
    /\ Scores \subseteq [Tables -> Nat] /\ Requirements \subseteq SUBSET Tables
    /\ {MaxTables, JoinHops, WidenHops} \subseteq Nat \ {0}
    /\ TooLarge \in BOOLEAN

VARIABLES
    graph,      \* foreign keys of the schema
    score,
    required,   \* requiredTables of the semantic plan
    scope,      \* the schema scope as configured
    initial,    \* initialTableNames
    retrieved,  \* tables of retrieval
    extra,      \* in-scope tables that a rejection added
    prompt      \* tables of the prompt: its allow-list

retrievalVars == <<graph, score, required, scope, initial, retrieved, extra, prompt>>

-----------------------------------------------------------------------------
(* The schema scope.                                                        *)

EffectiveScope(config) ==
    IF config.schemaScope # "auto" THEN config.schemaScope
    ELSE IF TooLarge THEN "retrieved" ELSE "full"

\* Unset, widening is on except for an explicit 'retrieved'.
WidenOnDemand(config) ==
    IF config.widenOnDemand = "unset" THEN config.schemaScope # "retrieved"
                                     ELSE config.widenOnDemand = "on"

-----------------------------------------------------------------------------
(* Retrieval.                                                               *)

\* The tables of ts, first those before the others; before is a strict order, a set of pairs.
InOrder(ts, before) ==
    [i \in 1 .. Cardinality(ts) |->
        CHOOSE t \in ts : Cardinality({u \in ts : <<u, t>> \in before}) = i - 1]

\* Strongest match first, then by name.
ByScore ==
    {p \in Tables \X Tables : score[p[1]] > score[p[2]] \/ (score[p[1]] = score[p[2]] /\ p[1] < p[2])}
InScore(ts) == InOrder(ts, ByScore)
UpTo(n, s) == SubSeq(s, 1, IF n < Len(s) THEN n ELSE Len(s))

TopSelected == UpTo(MaxTables, InScore({t \in Tables : score[t] > 0}))

\* The best matches, then the required tables that are not among them; the first tables of the
\* schema when nothing matches.
Selected ==
    LET matched == TopSelected \o InScore(required \ Range(TopSelected))
    IN  IF matched # <<>> THEN matched ELSE UpTo(MaxTables, Order)

\* The selected tables and the connectors of their pairwise join paths.
ExpandForJoinPaths(names) ==
    Range(names) \cup
    UNION {Range(ShortestPath(graph, names[p[1]], names[p[2]], JoinHops)) :
              p \in {q \in (1 .. Len(names)) \X (1 .. Len(names)) : q[1] < q[2]}}

-----------------------------------------------------------------------------
(* Widening.                                                                *)

Sorted(ts) == InOrder(ts, {p \in Tables \X Tables : p[1] < p[2]})

\* Tables of the retrieved ones that t is not linked to inside own, nearest first, as near ones
\* in the order of retrieval, which is the schema's.
Unlinked(own, t) ==
    LET hops == [c \in retrieved |-> Len(ShortestPath(graph, t, c, Cardinality(Tables)))]
        lost == {c \in retrieved : ~IsLinkedWithin(graph, own, t, c) /\ hops[c] > 0}
        place(c) == CHOOSE i \in 1 .. Len(Order) : Order[i] = c
    IN  InOrder(lost, {p \in lost \X lost : \/ hops[p[1]] < hops[p[2]]
                                           \/ (hops[p[1]] = hops[p[2]] /\ place(p[1]) < place(p[2]))})

\* The short paths from t to the retrieved tables.
ShortWidening(start, t) ==
    start \cup {t} \cup UNION {Range(ShortestPath(graph, t, c, WidenHops)) : c \in retrieved}

\* Faulty: retrieval's bound on the hops, and nothing beyond it.
NearWidening(start, t) == ShortWidening(start, t)

\* What adding t brings: short paths to every retrieved table, then one path of any length to
\* each that is still not linked.
OwnWidening(start, t) ==
    LET far == Unlinked(ShortWidening(start, t), t)
        own[i \in 0 .. Len(far)] ==
            IF i = 0 THEN ShortWidening(start, t)
            ELSE LET before == own[i - 1] IN
                 IF IsLinkedWithin(graph, before, t, far[i]) THEN before
                 ELSE before \cup Range(ShortestPath(graph, t, far[i], Cardinality(Tables)))
    IN  own[Len(far)]

\* The added tables in turn, each with its own widening of what was retrieved.
WidenInTurn(order) ==
    LET expanded[i \in 0 .. Len(order)] ==
            IF i = 0 THEN retrieved ELSE expanded[i - 1] \cup OwnWidening(retrieved, order[i])
    IN  expanded[Len(order)]

WidenRetrievedTables(added) == WidenInTurn(Sorted(added \ retrieved))

-----------------------------------------------------------------------------
RetrievalInit ==
    /\ graph \in Schemas
    /\ score \in Scores
    /\ required \in Requirements
    /\ scope \in Configs
    /\ initial = <<>> /\ retrieved = {} /\ extra = {} /\ prompt = {}

\* buildOptimizedPrompt() for the first attempt.
BuildPrompt ==
    /\ prompt = {}
    /\ initial' = Selected
    /\ retrieved' = ExpandForJoinPaths(Selected)
    /\ prompt' = IF EffectiveScope(scope) = "full" THEN Tables ELSE retrieved'
    /\ UNCHANGED <<graph, score, required, scope, extra>>

\* The validator rejected SQL that reads ts, in scope but not allowed: the prompt is rebuilt
\* from what was retrieved and every table added so far.
Widen(ts) ==
    /\ prompt # {} /\ ts # {} /\ ts \cap prompt = {}
    /\ WidenOnDemand(scope)
    /\ extra' = extra \cup ts
    /\ prompt' = WidenRetrievedTables(extra')
    /\ UNCHANGED <<graph, score, required, scope, initial, retrieved>>

RetrievalNext == BuildPrompt \/ \E ts \in SUBSET Tables : Widen(ts)

RetrievalSpec == RetrievalInit /\ [][RetrievalNext]_retrievalVars

-----------------------------------------------------------------------------
(* Correctness.                                                             *)

\* "Tables a matched entity/metric/filter explicitly requires must survive the score cap"
\* (retrieveRelevantTables), and every selected table within JoinHops of another can be joined
\* to it inside the prompt.
RetrievalJoinable ==
    prompt # {} =>
        /\ required \subseteq prompt
        /\ \A i, j \in 1 .. Len(initial) :
              ShortestPath(graph, initial[i], initial[j], JoinHops) # <<>> =>
                  IsLinkedWithin(graph, prompt, initial[i], initial[j])

\* A retry must be able to join the table it was widened for to "every retrieved table the
\* foreign-key graph links it to" (widenRetrievedTables), however many hops apart they are.
WidenedIsJoinable ==
    \A t \in extra \ retrieved, c \in retrieved :
        IsLinkedWithin(graph, Tables, t, c) => IsLinkedWithin(graph, prompt, t, c)

\* "It depends on the set of added tables only, not on their order (the live loop passes them in
\* rejection order, verify.js and rescore sorted)", and a prompt for fewer of them has lost nothing.
WideningOrderFree ==
    \A ts \in (SUBSET extra) \ {{}} : \A order \in SetToSeqs(ts \ retrieved) :
        /\ WidenInTurn(order) \subseteq prompt
        /\ ts = extra => WidenInTurn(order) = prompt

\* A prompt can join what it shows, before and after widening, and only the added tables decide
\* what that is.
PromptJoinable == RetrievalJoinable /\ WidenedIsJoinable /\ WideningOrderFree
==============================================================================
