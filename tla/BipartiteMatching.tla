-------------------------- MODULE BipartiteMatching --------------------------
(***************************************************************************)
(* hasPerfectMatching of src/benchmark.js: Hopcroft-Karp over the graph of    *)
(* gold rows (left) and prediction rows (right) that are within the tolerance *)
(* of each other.  A phase layers the left rows by the length of the shortest *)
(* alternating path that reaches them, then augments depth-first along the    *)
(* layers; "stack" holds the recursive calls of augment(), each with the      *)
(* neighbour it is at.                                                       *)
(***************************************************************************)
EXTENDS Naturals, Sequences, FiniteSets

CONSTANTS
    Left, Right,    \* rows, numbered from 1
    Graphs          \* adjacency functions to search

ASSUME MatchingAssumption ==
    /\ Left \subseteq Nat \ {0} /\ Right \subseteq Nat \ {0}
    /\ IsFiniteSet(Left) /\ IsFiniteSet(Right)
    /\ Graphs \subseteq [Left -> SUBSET Right]

VARIABLES
    adjacency,
    matchLeft,   \* the right row of a left row, or 0
    matchRight,  \* the left row of a right row, or 0
    layer,
    stack,       \* calls of augment(), outermost first: [left, at]
    todo,        \* left rows the phase has still to try
    phase        \* "layers", "augment", "done"

matchingVars == <<adjacency, matchLeft, matchRight, layer, stack, todo, phase>>

Infinity == Cardinality(Left) + 1

-----------------------------------------------------------------------------
(* buildLayers.                                                             *)

Unmatched == {i \in Left : matchLeft[i] = 0}

\* The left rows that the matched neighbours of these are matched with.
Across(rows) == {matchRight[j] : j \in UNION {adjacency[i] : i \in rows}} \ {0}

\* Within[n]: the rows in layers 0 .. n.
Within ==
    LET within[n \in 0 .. Cardinality(Left)] ==
            IF n = 0 THEN Unmatched ELSE within[n - 1] \cup Across(within[n - 1])
    IN  within

Reached == Within[Cardinality(Left)]

Layers ==
    [i \in Left |->
        IF i \in Reached
        THEN CHOOSE n \in 0 .. Cardinality(Left) : i \in Within[n] /\ \A m \in 0 .. n - 1 : i \notin Within[m]
        ELSE Infinity]

ReachesFree == \E i \in Reached : \E j \in adjacency[i] : matchRight[j] = 0

MatchingInit ==
    /\ adjacency \in Graphs
    /\ matchLeft = [i \in Left |-> 0] /\ matchRight = [j \in Right |-> 0]
    /\ layer = [i \in Left |-> 0]
    /\ stack = <<>> /\ todo = {} /\ phase = "layers"

\* Faulty: stops when no unmatched row has a free neighbour of its own.
BuildLayersOfUnmatched ==
    /\ phase = "layers"
    /\ layer' = Layers
    /\ IF \E i \in Unmatched : \E j \in adjacency[i] : matchRight[j] = 0
       THEN phase' = "augment" /\ todo' = Left
       ELSE phase' = "done" /\ todo' = {}
    /\ UNCHANGED <<adjacency, matchLeft, matchRight, stack>>

BuildLayers ==
    /\ phase = "layers"
    /\ layer' = Layers
    /\ IF ReachesFree THEN phase' = "augment" /\ todo' = Left ELSE phase' = "done" /\ todo' = {}
    /\ UNCHANGED <<adjacency, matchLeft, matchRight, stack>>

-----------------------------------------------------------------------------
(* The loop over the left rows, and augment().                               *)

\* The next left row, in order; one that an earlier augmentation of the phase did not reach.
TryNext ==
    /\ phase = "augment" /\ stack = <<>>
    /\ IF todo = {}
       THEN phase' = "layers" /\ UNCHANGED <<stack, todo>>
       ELSE LET i == CHOOSE m \in todo : \A n \in todo : m <= n IN
            /\ todo' = todo \ {i}
            /\ stack' = IF matchLeft[i] = 0 THEN <<[left |-> i, at |-> 0]>> ELSE <<>>
            /\ UNCHANGED phase
    /\ UNCHANGED <<adjacency, matchLeft, matchRight, layer>>

Top == stack[Len(stack)]
Rest == SubSeq(stack, 1, Len(stack) - 1)

\* The neighbours the innermost call has still to try.
Untried == {j \in adjacency[Top.left] : j > Top.at}
Neighbour == CHOOSE j \in Untried : \A k \in Untried : j <= k
Moved == Append(Rest, [Top EXCEPT !.at = Neighbour])

InCall == phase = "augment" /\ stack # <<>>

\* A free neighbour: every call on the stack matches its row with the neighbour it is at.
Augment ==
    /\ InCall /\ Untried # {} /\ matchRight[Neighbour] = 0
    /\ LET calls == {Moved[n] : n \in DOMAIN Moved} IN
       /\ matchLeft' = [i \in Left |-> IF \E c \in calls : c.left = i
                                       THEN (CHOOSE c \in calls : c.left = i).at ELSE matchLeft[i]]
       /\ matchRight' = [j \in Right |-> IF \E c \in calls : c.at = j
                                         THEN (CHOOSE c \in calls : c.at = j).left ELSE matchRight[j]]
    /\ stack' = <<>>
    /\ UNCHANGED <<adjacency, layer, todo, phase>>

\* A matched neighbour is only passed through to a row of the next layer.
Descend ==
    /\ InCall /\ Untried # {} /\ matchRight[Neighbour] # 0
    /\ LET next == matchRight[Neighbour] IN
       stack' = IF layer[next] = layer[Top.left] + 1 THEN Append(Moved, [left |-> next, at |-> 0]) ELSE Moved
    /\ UNCHANGED <<adjacency, matchLeft, matchRight, layer, todo, phase>>

\* No neighbour is left: the row is out of the phase, and the caller goes on with its next one.
Fail ==
    /\ InCall /\ Untried = {}
    /\ layer' = [layer EXCEPT ![Top.left] = Infinity]
    /\ stack' = Rest
    /\ UNCHANGED <<adjacency, matchLeft, matchRight, todo, phase>>

MatchingNext == BuildLayers \/ TryNext \/ Augment \/ Descend \/ Fail

MatchingSpec == MatchingInit /\ [][MatchingNext]_matchingVars

\* One call, run to its end.
MatchingFairness == WF_matchingVars(MatchingNext)

-----------------------------------------------------------------------------
(* Correctness.                                                             *)

Perfect(graph) == \E f \in [Left -> Right] :
    /\ \A i \in Left : f[i] \in graph[i]
    /\ \A i, k \in Left : i # k => f[i] # f[k]

\* Between augmentations matchLeft and matchRight are one matching of the graph, seen from both
\* sides: no row is promised twice although several calls rewire it.
MatchingValid ==
    /\ \A i \in Left : matchLeft[i] # 0 => matchLeft[i] \in adjacency[i] /\ matchRight[matchLeft[i]] = i
    /\ \A j \in Right : matchRight[j] # 0 => matchLeft[matchRight[j]] = j

\* The search ends, in a matching of all left rows exactly when there is one ("answers it exactly
\* ... with no step cap", benchmark.js).
MatchingExact ==
    phase # "layers" ~>
        phase = "done" /\ MatchingValid /\ ((Unmatched = {}) <=> Perfect(adjacency))
=============================================================================
