---------------------------- MODULE JoinPathSearch ----------------------------
(***************************************************************************)
(* The breadth-first search for the join path between two tables             *)
(* (findShortestJoinPath in src/pipeline.js), one action per table taken     *)
(* from its queue.  The depth of an entry is the number of hops of its path. *)
(***************************************************************************)
EXTENDS ForeignKeys

CONSTANT Bounds    \* values of maxDepth

ASSUME BoundsAssumption == Bounds \subseteq Nat \ {0}

VARIABLES
    links,    \* the foreign-key graph
    ends,     \* <<start, goal, maxDepth>>
    queue,    \* paths to the tables to visit
    visited,
    path,     \* the path returned, <<>> for null
    found     \* the search has returned

searchVars == <<links, ends, queue, visited, path, found>>

From == ends[1]
To == ends[2]
MaxDepth == ends[3]

SearchInit ==
    /\ links \in SUBSET AllLinks
    /\ ends \in Tables \X Tables \X Bounds
    /\ queue = <<<<From>>>>
    /\ visited = {From}
    /\ path = <<>>
    /\ found = FALSE

New(t) == Neighbors(links, t) \ visited

\* The tables of ts in the order of their names.
ByName(ts) ==
    {s \in [1 .. Cardinality(ts) -> ts] :
        /\ \A t \in ts : \E i \in DOMAIN s : s[i] = t
        /\ \A i, j \in DOMAIN s : i < j => s[i] < s[j]}

SameTable ==
    /\ ~found /\ From = To
    /\ path' = <<From>>
    /\ found' = TRUE
    /\ UNCHANGED <<links, ends, queue, visited>>

\* Faulty: takes the goal for reached when it is next to any table seen so far.
ReachGoalAnywhere ==
    /\ ~found /\ From # To /\ queue # <<>>
    /\ \E i \in 1 .. Len(queue) :
          /\ To \in New(Last(queue[i]))
          /\ path' = Append(queue[i], To)
    /\ found' = TRUE
    /\ UNCHANGED <<links, ends, queue, visited>>

\* The goal is a neighbour of the table at the head of the queue.
ReachGoal ==
    /\ ~found /\ From # To /\ queue # <<>>
    /\ To \in New(Last(Head(queue)))
    /\ path' = Append(Head(queue), To)
    /\ found' = TRUE
    /\ UNCHANGED <<links, ends, queue, visited>>

\* Its new neighbours are queued in the order of their names, unless they are too deep.
Visit ==
    /\ ~found /\ From # To /\ queue # <<>>
    /\ To \notin New(Last(Head(queue)))
    /\ LET next == IF Len(Head(queue)) < MaxDepth THEN New(Last(Head(queue))) ELSE {} IN
       /\ \E names \in ByName(next) :
             queue' = Tail(queue) \o [i \in 1 .. Cardinality(next) |-> Append(Head(queue), names[i])]
       /\ visited' = visited \cup next
    /\ UNCHANGED <<links, ends, path, found>>

GiveUp ==
    /\ ~found /\ queue = <<>>
    /\ found' = TRUE
    /\ UNCHANGED <<links, ends, queue, visited, path>>

SearchNext == SameTable \/ ReachGoal \/ Visit \/ GiveUp

SearchSpec == SearchInit /\ [][SearchNext]_searchVars

-----------------------------------------------------------------------------
(* Correctness.                                                             *)

SearchTypeOK ==
    /\ links \subseteq AllLinks
    /\ ends \in Tables \X Tables \X Bounds
    /\ queue \in Seq(Seq(Tables)) /\ path \in Seq(Tables)
    /\ visited \subseteq Tables
    /\ found \in BOOLEAN

\* The path returned joins the two tables along foreign keys within the bound.
PathSound ==
    path # <<>> =>
        /\ path[1] = From /\ path[Len(path)] = To
        /\ Len(path) <= MaxDepth + 1
        /\ \A i \in 1 .. Len(path) - 1 : path[i + 1] \in Neighbors(links, path[i])

\* findShortestJoinPath(): the search returns exactly the shortest path within the bound, the
\* first by name of several, so that the connectors of a prompt are the same on every run.
PathIsShortest == found => path = ShortestPath(links, From, To, MaxDepth)
==============================================================================
