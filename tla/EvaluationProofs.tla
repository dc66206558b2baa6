-------------------------- MODULE EvaluationProofs --------------------------
(*****************************************************************************)
(* Proofs about the evaluation's components: BipartiteMatching for every     *)
(* graph, FixtureSeeding for any number of fixtures and concurrent setups,   *)
(* HoldoutFreeze for any datasets and controls and any number of edits,       *)
(* GoldCache for any number of calls, Rescore for any recordings and days,    *)
(* CompactReport for any repetitions and days, SuiteCheck for any suite with *)
(* any controls and failures.                                                *)
(*****************************************************************************)
EXTENDS BipartiteMatching, FixtureSeeding, HoldoutFreeze, GoldCache, CompactReport,
        SuiteCheck, FiniteSetTheorems, SequenceTheorems, WellFoundedInduction, TLAPS

-----------------------------------------------------------------------------
(* The matching of rows.                                                     *)

Frames == [left : Left, at : Right \cup {0}]

MatchingTypeOK ==
    /\ adjacency \in [Left -> SUBSET Right]
    /\ matchLeft \in [Left -> Right \cup {0}]
    /\ matchRight \in [Right -> Left \cup {0}]
    /\ layer \in [Left -> Nat]
    /\ stack \in Seq(Frames)
    /\ todo \subseteq Left

\* The call at n goes on through the matched neighbour it is at to the row of the call at n + 1.
Linked(calls, n) ==
    /\ calls[n].at \in adjacency[calls[n].left]
    /\ matchRight[calls[n].at] = calls[n + 1].left

\* The calls of augment() follow an alternating path from an unmatched row, one layer further
\* with every call, so no row and no neighbour is on it twice.
AlternatingPath ==
    stack # <<>> =>
        /\ matchLeft[stack[1].left] = 0
        /\ \A n \in 1 .. Len(stack) : layer[stack[n].left] = layer[stack[1].left] + n - 1
        /\ \A n \in 1 .. Len(stack) - 1 : Linked(stack, n)

\* augment() runs only inside a phase.
CallsInPhase == stack # <<>> => phase = "augment"

MatchingIInv == MatchingTypeOK /\ MatchingValid /\ AlternatingPath /\ CallsInPhase

-----------------------------------------------------------------------------
LEMMA SmallestElement ==
    ASSUME NEW S \in SUBSET Nat, S # {}
    PROVE  \E m \in S : \A n \in S : m <= n
<1>1. \E m \in S : \A n \in S : ~(<<n, m>> \in OpToRel(<, Nat))
    BY NatLessThanWellFounded, WFMin
<1>2. \A n, m \in S : ~(<<n, m>> \in OpToRel(<, Nat)) => m <= n
    BY DEF OpToRel
<1> QED
    BY <1>1, <1>2

LEMMA RowsPositive ==
    /\ Left \subseteq Nat /\ Right \subseteq Nat
    /\ 0 \notin Left /\ 0 \notin Right
    BY MatchingAssumption

\* buildLayers gives every row a layer.
LEMMA LayersType == Layers \in [Left -> Nat]
<1> DEFINE card == Cardinality(Left)
           low(i) == {n \in 0 .. card : i \in Within[n]}
<1>1. card \in Nat
    BY MatchingAssumption, FS_CardinalityType
<1>2. ASSUME NEW i \in Left, i \in Reached
      PROVE  (CHOOSE n \in 0 .. card : i \in Within[n] /\ \A m \in 0 .. n - 1 : i \notin Within[m]) \in Nat
    <2>1. low(i) \in SUBSET Nat /\ card \in low(i)
        BY <1>1, <1>2 DEF Reached
    <2>2. PICK n \in low(i) : \A m \in low(i) : n <= m
        BY <2>1, SmallestElement
    <2>3. \A m \in 0 .. n - 1 : i \notin Within[m]
        BY <1>1, <2>2
    <2> QED
        BY <1>1, <2>2, <2>3
<1>3. Infinity \in Nat
    BY <1>1 DEF Infinity
<1> QED
    BY <1>2, <1>3 DEF Layers

LEMMA MatchingInitImpliesIInv == MatchingInit => MatchingIInv
<1> SUFFICES ASSUME MatchingInit PROVE MatchingIInv
    OBVIOUS
<1> USE DEF MatchingInit
<1>1. MatchingTypeOK
    BY MatchingAssumption DEF MatchingTypeOK
<1>2. MatchingValid /\ AlternatingPath /\ CallsInPhase
    BY DEF MatchingValid, AlternatingPath, CallsInPhase
<1> QED
    BY <1>1, <1>2 DEF MatchingIInv

LEMMA BuildLayersStep ==
    ASSUME MatchingIInv, BuildLayers
    PROVE  MatchingIInv'
<1>1. UNCHANGED <<adjacency, matchLeft, matchRight, stack>> /\ layer' = Layers
    BY DEF BuildLayers
<1>2. todo' \subseteq Left
    BY DEF BuildLayers
<1>3. stack = <<>>
    BY DEF BuildLayers, MatchingIInv, CallsInPhase
<1> QED
    BY <1>1, <1>2, <1>3, LayersType
       DEF MatchingIInv, MatchingTypeOK, MatchingValid, AlternatingPath, CallsInPhase

LEMMA TryNextStep ==
    ASSUME MatchingIInv, TryNext
    PROVE  MatchingIInv'
<1>1. UNCHANGED <<adjacency, matchLeft, matchRight, layer>> /\ stack = <<>> /\ phase = "augment"
    BY DEF TryNext
<1>2. CASE todo = {}
    BY <1>1, <1>2 DEF TryNext, MatchingIInv, MatchingTypeOK, MatchingValid, AlternatingPath, CallsInPhase
<1>3. CASE todo # {}
    <2> DEFINE i == CHOOSE m \in todo : \A n \in todo : m <= n
    <2>1. i \in todo
        BY <1>3, SmallestElement, RowsPositive DEF MatchingIInv, MatchingTypeOK
    <2>2. /\ todo' = todo \ {i}
          /\ stack' = IF matchLeft[i] = 0 THEN <<[left |-> i, at |-> 0]>> ELSE <<>>
          /\ phase' = phase
        BY <1>3 DEF TryNext
    <2>3. i \in Left
        BY <2>1 DEF MatchingIInv, MatchingTypeOK
    <2> HIDE DEF i
    <2>4. [left |-> i, at |-> 0] \in Frames
        BY <2>3 DEF Frames
    <2>5. MatchingTypeOK' /\ MatchingValid'
        BY <1>1, <2>2, <2>4 DEF MatchingIInv, MatchingTypeOK, MatchingValid
    <2>6. AlternatingPath'
        BY <1>1, <2>2, <2>3 DEF MatchingIInv, MatchingTypeOK, AlternatingPath
    <2> QED
        BY <1>1, <2>2, <2>5, <2>6 DEF MatchingIInv, CallsInPhase
<1> QED
    BY <1>2, <1>3

-----------------------------------------------------------------------------
\* What the calls on the stack are, and that no two of them have the same row.
LEMMA CallsTyped ==
    ASSUME MatchingIInv, InCall
    PROVE  /\ Len(stack) \in Nat \ {0}
           /\ \A n \in 1 .. Len(stack) : stack[n] \in Frames
           /\ Top \in Frames
           /\ \A m, n \in 1 .. Len(stack) : stack[m].left = stack[n].left => m = n
<1>1. Len(stack) \in Nat \ {0} /\ \A n \in 1 .. Len(stack) : stack[n] \in Frames
    BY DEF MatchingIInv, MatchingTypeOK, InCall
<1>2. layer[stack[1].left] \in Nat
    <2>1. stack[1] \in Frames /\ layer \in [Left -> Nat]
        BY <1>1 DEF MatchingIInv, MatchingTypeOK
    <2>2. stack[1].left \in Left
        BY <2>1 DEF Frames
    <2> QED
        BY <2>1, <2>2
<1>3. \A m, n \in 1 .. Len(stack) : stack[m].left = stack[n].left => m = n
    <2> TAKE m, n \in 1 .. Len(stack)
    <2> HAVE stack[m].left = stack[n].left
    <2>1. layer[stack[1].left] + m - 1 = layer[stack[1].left] + n - 1
        BY DEF MatchingIInv, AlternatingPath, InCall
    <2> QED
        BY <1>2, <2>1
<1> QED
    BY <1>1, <1>3 DEF Top

LEMMA NextNeighbour ==
    ASSUME MatchingIInv, InCall, Untried # {}
    PROVE  Neighbour \in adjacency[Top.left] /\ Neighbour \in Right
<1>1. Untried \subseteq adjacency[Top.left] /\ Untried \subseteq Right
    <2>1. Top.left \in Left
        BY CallsTyped DEF Frames
    <2>2. adjacency[Top.left] \in SUBSET Right
        BY <2>1 DEF MatchingIInv, MatchingTypeOK
    <2> QED
        BY <2>2 DEF Untried
<1>2. Neighbour \in Untried
    BY <1>1, SmallestElement, RowsPositive DEF Neighbour
<1> QED
    BY <1>1, <1>2

\* The stack with its innermost call at the next neighbour.
LEMMA MovedStack ==
    ASSUME MatchingIInv, InCall, Untried # {}
    PROVE  /\ Moved \in Seq(Frames) /\ Len(Moved) = Len(stack)
           /\ \A n \in 1 .. Len(stack) - 1 : Moved[n] = stack[n]
           /\ \A n \in 1 .. Len(stack) : Moved[n].left = stack[n].left
           /\ Moved[Len(stack)].at = Neighbour
<1> DEFINE top == [Top EXCEPT !.at = Neighbour]
<1>1. /\ Len(stack) \in Nat \ {0}
      /\ \A n \in 1 .. Len(stack) : stack[n] \in Frames
      /\ Top \in Frames
    BY CallsTyped
<1>2. /\ Rest \in Seq(Frames) /\ Len(Rest) = Len(stack) - 1
      /\ \A n \in 1 .. Len(stack) - 1 : Rest[n] = stack[n]
    <2> DEFINE k == Len(stack) - 1
    <2>1. k \in Nat /\ 1 \in Int /\ k \in Int /\ \A n \in 1 .. k : stack[n] \in Frames
        BY <1>1
    <2>2. Rest = SubSeq(stack, 1, k)
        BY DEF Rest
    <2> HIDE DEF k
    <2>3. /\ Rest \in Seq(Frames) /\ Len(Rest) = IF 1 <= k THEN k - 1 + 1 ELSE 0
          /\ \A n \in 1 .. k - 1 + 1 : Rest[n] = stack[1 + n - 1]
        BY <2>1, <2>2, SubSeqProperties
    <2>4. Len(Rest) = k /\ \A n \in 1 .. k : Rest[n] = stack[n]
        BY <2>1, <2>3
    <2> QED
        BY <2>3, <2>4 DEF k
<1>3. top \in Frames /\ top.left = Top.left /\ top.at = Neighbour
    BY <1>1, NextNeighbour DEF Frames
<1> HIDE DEF top
<1>4. /\ Moved \in Seq(Frames) /\ Len(Moved) = Len(stack)
      /\ \A n \in 1 .. Len(stack) - 1 : Moved[n] = stack[n]
      /\ Moved[Len(stack)] = top
    <2>1. Moved = Append(Rest, top)
        BY DEF Moved, top
    <2>2. /\ Moved \in Seq(Frames) /\ Len(Moved) = Len(Rest) + 1
          /\ \A n \in 1 .. Len(Rest) : Moved[n] = Rest[n]
          /\ Moved[Len(Rest) + 1] = top
        BY <1>2, <1>3, <2>1, AppendProperties
    <2>3. Len(Rest) = Len(stack) - 1 /\ Len(Rest) + 1 = Len(stack)
        BY <1>1, <1>2
    <2>4. Len(Moved) = Len(stack) /\ Moved[Len(stack)] = top
        BY <2>2, <2>3
    <2>5. \A n \in 1 .. Len(stack) - 1 : Moved[n] = stack[n]
        BY <1>2, <2>2, <2>3
    <2> QED
        BY <2>2, <2>4, <2>5
<1> QED
    BY <1>1, <1>3, <1>4 DEF Top

\* A deeper call is in the layer after its caller's, by way of the row its neighbour is matched with.
LEMMA DescendStep ==
    ASSUME MatchingIInv, Descend
    PROVE  MatchingIInv'
<1> DEFINE next == matchRight[Neighbour]
           frame == [left |-> next, at |-> 0]
<1>1. InCall /\ Untried # {}
    BY DEF Descend
<1>2. /\ Len(stack) \in Nat \ {0}
      /\ \A n \in 1 .. Len(stack) : stack[n] \in Frames
      /\ Top = stack[Len(stack)]
    BY <1>1, CallsTyped DEF Top
<1>3. /\ Moved \in Seq(Frames) /\ Len(Moved) = Len(stack)
      /\ \A n \in 1 .. Len(stack) - 1 : Moved[n] = stack[n]
      /\ \A n \in 1 .. Len(stack) : Moved[n].left = stack[n].left
      /\ Moved[Len(stack)].at = Neighbour
    BY <1>1, MovedStack
<1>4. Neighbour \in adjacency[Top.left] /\ Neighbour \in Right
    BY <1>1, NextNeighbour
<1>5. next \in Left
    BY <1>4 DEF Descend, MatchingIInv, MatchingTypeOK
<1>6. UNCHANGED <<adjacency, matchLeft, matchRight, layer, todo, phase>>
    BY DEF Descend
<1>7. /\ matchLeft[stack[1].left] = 0
      /\ \A n \in 1 .. Len(stack) : layer[stack[n].left] = layer[stack[1].left] + n - 1
      /\ \A n \in 1 .. Len(stack) - 1 : Linked(stack, n)
    BY <1>1 DEF InCall, MatchingIInv, AlternatingPath
<1>8. CASE layer[next] = layer[Top.left] + 1
    <2>1. stack' = Append(Moved, frame)
        BY <1>8 DEF Descend
    <2>2. frame \in Frames
        BY <1>5 DEF Frames
    <2> HIDE DEF frame
    <2>3. /\ stack' \in Seq(Frames) /\ Len(stack') = Len(stack) + 1
          /\ \A n \in 1 .. Len(stack) : stack'[n] = Moved[n]
          /\ stack'[Len(stack) + 1] = frame
        BY <1>3, <2>1, <2>2, AppendProperties
    <2>4. \A n \in 1 .. Len(stack) : stack'[n].left = stack[n].left
        BY <1>3, <2>3
    <2>5. stack'[Len(stack) + 1].left = next
        BY <2>3 DEF frame
    <2> HIDE DEF next
    <2>6. \A n \in 1 .. Len(stack) + 1 : layer[stack'[n].left] = layer[stack'[1].left] + n - 1
        <3>1. stack'[1].left = stack[1].left
            BY <1>2, <2>4
        <3>2. layer[next] = layer[stack[1].left] + (Len(stack) + 1) - 1
            <4>1. stack[1] \in Frames /\ layer \in [Left -> Nat]
                BY <1>2 DEF MatchingIInv, MatchingTypeOK
            <4>2. stack[1].left \in Left
                BY <4>1 DEF Frames
            <4>3. layer[stack[1].left] \in Nat
                BY <4>1, <4>2
            <4>4. Len(stack) \in 1 .. Len(stack) /\ Len(stack) \in Nat
                BY <1>2
            <4>5. layer[Top.left] = layer[stack[1].left] + Len(stack) - 1
                BY <1>2, <1>7, <4>4
            <4>6. \A a, b \in Nat : a + b - 1 + 1 = a + (b + 1) - 1
                OBVIOUS
            <4> QED
                BY <1>8, <4>3, <4>4, <4>5, <4>6
        <3> QED
            BY <1>2, <1>7, <2>4, <2>5, <3>1, <3>2
    <2>7. \A n \in 1 .. Len(stack) : Linked(stack, n)'
        <3> TAKE n \in 1 .. Len(stack)
        <3>1. CASE n = Len(stack)
            <4>1. stack'[n].at = Neighbour /\ stack'[n].left = Top.left /\ stack'[n + 1].left = next
                BY <1>2, <1>3, <2>3, <2>4, <2>5, <3>1
            <4> QED
                BY <1>4, <1>6, <4>1 DEF Linked, next
        <3>2. CASE n # Len(stack)
            <4>1. n \in 1 .. Len(stack) - 1 /\ n + 1 \in 1 .. Len(stack)
                BY <1>2, <3>2
            <4>2. stack'[n] = stack[n] /\ stack'[n + 1].left = stack[n + 1].left
                BY <1>2, <1>3, <2>3, <2>4, <4>1
            <4> QED
                BY <1>6, <1>7, <4>1, <4>2 DEF Linked
        <3> QED
            BY <3>1, <3>2
    <2>8. AlternatingPath'
        <3>1. Len(stack') - 1 = Len(stack) /\ stack'[1].left = stack[1].left
            BY <1>2, <2>3, <2>4
        <3> QED
            BY <1>6, <1>7, <2>3, <2>6, <2>7, <3>1 DEF AlternatingPath
    <2> QED
        BY <1>1, <1>6, <2>3, <2>8 DEF InCall, MatchingIInv, MatchingTypeOK, MatchingValid, CallsInPhase
<1>9. CASE layer[next] # layer[Top.left] + 1
    <2>1. stack' = Moved
        BY <1>9 DEF Descend
    <2>2. \A n \in 1 .. Len(stack) - 1 : Linked(stack, n)'
        <3> TAKE n \in 1 .. Len(stack) - 1
        <3>1. stack'[n] = stack[n] /\ stack'[n + 1].left = stack[n + 1].left
            BY <1>2, <1>3, <2>1
        <3> QED
            BY <1>6, <1>7, <3>1 DEF Linked
    <2>3. AlternatingPath'
        BY <1>2, <1>3, <1>6, <1>7, <2>1, <2>2 DEF AlternatingPath
    <2> QED
        BY <1>1, <1>3, <1>6, <2>1, <2>3 DEF InCall, MatchingIInv, MatchingTypeOK, MatchingValid, CallsInPhase
<1> QED
    BY <1>8, <1>9

\* A call that gives up takes only its own row out of the phase.
LEMMA FailStep ==
    ASSUME MatchingIInv, Fail
    PROVE  MatchingIInv'
<1> DEFINE k == Len(stack) - 1
<1>1. InCall /\ UNCHANGED <<adjacency, matchLeft, matchRight, todo, phase>>
    BY DEF Fail
<1>2. /\ Len(stack) \in Nat \ {0}
      /\ \A n \in 1 .. Len(stack) : stack[n] \in Frames
      /\ Top = stack[Len(stack)]
      /\ \A m, n \in 1 .. Len(stack) : stack[m].left = stack[n].left => m = n
    BY <1>1, CallsTyped DEF Top
<1>3. k \in Nat /\ 1 \in Int /\ k \in Int /\ \A n \in 1 .. k : stack[n] \in Frames
    BY <1>2
<1>4. stack' = SubSeq(stack, 1, k)
    BY DEF Fail, Rest
<1>5. \A n \in 1 .. k : stack[n].left # Top.left
    BY <1>2
<1>6. /\ matchLeft[stack[1].left] = 0
      /\ \A n \in 1 .. k : layer[stack[n].left] = layer[stack[1].left] + n - 1
      /\ \A n \in 1 .. k : Linked(stack, n)
    BY <1>1, <1>2 DEF InCall, MatchingIInv, AlternatingPath
<1> HIDE DEF k
<1>7. /\ stack' \in Seq(Frames) /\ Len(stack') = k
      /\ \A n \in 1 .. k : stack'[n] = stack[n]
    <2>1. /\ stack' \in Seq(Frames) /\ Len(stack') = IF 1 <= k THEN k - 1 + 1 ELSE 0
          /\ \A n \in 1 .. k - 1 + 1 : stack'[n] = stack[1 + n - 1]
        BY <1>3, <1>4, SubSeqProperties
    <2>2. k - 1 + 1 = k /\ (1 <= k \/ k = 0)
        BY <1>3
    <2>3. \A n \in 1 .. k : stack'[n] = stack[1 + n - 1]
        BY <2>1, <2>2
    <2>4. \A n \in 1 .. k : 1 + n - 1 = n
        BY <1>3
    <2>5. \A n \in 1 .. k : stack'[n] = stack[n]
        BY <2>3, <2>4
    <2> QED
        BY <2>1, <2>2, <2>5
<1>8. Infinity \in Nat
    BY MatchingAssumption, FS_CardinalityType DEF Infinity
<1>9. /\ layer' \in [Left -> Nat]
      /\ \A n \in 1 .. k : layer'[stack[n].left] = layer[stack[n].left]
    <2>1. layer \in [Left -> Nat] /\ layer' = [layer EXCEPT ![Top.left] = Infinity]
        BY DEF Fail, MatchingIInv, MatchingTypeOK
    <2>2. \A n \in 1 .. k : stack[n].left \in Left
        BY <1>3 DEF MatchingIInv, MatchingTypeOK, Frames
    <2> QED
        BY <1>5, <1>8, <2>1, <2>2
<1>10. MatchingTypeOK' /\ MatchingValid' /\ CallsInPhase'
    BY <1>1, <1>7, <1>9 DEF InCall, MatchingIInv, MatchingTypeOK, MatchingValid, CallsInPhase
<1>11. AlternatingPath'
    <2> SUFFICES ASSUME stack' # <<>>
                 PROVE  /\ matchLeft'[stack'[1].left] = 0
                        /\ \A n \in 1 .. k : layer'[stack'[n].left] = layer'[stack'[1].left] + n - 1
                        /\ \A n \in 1 .. k - 1 : Linked(stack, n)'
        BY <1>7 DEF AlternatingPath
    <2>1. 1 \in 1 .. k
        BY <1>3, <1>7
    <2>2. \A n \in 1 .. k - 1 : Linked(stack, n)'
        <3> TAKE n \in 1 .. k - 1
        <3>1. n \in 1 .. k /\ n + 1 \in 1 .. k
            BY <1>3
        <3>2. stack'[n] = stack[n] /\ stack'[n + 1] = stack[n + 1] /\ Linked(stack, n)
            BY <1>6, <1>7, <3>1
        <3> QED
            BY <1>1, <3>2 DEF Linked
    <2>3. stack'[1] = stack[1] /\ layer'[stack[1].left] = layer[stack[1].left]
        BY <1>7, <1>9, <2>1
    <2>4. \A n \in 1 .. k : layer'[stack'[n].left] = layer'[stack'[1].left] + n - 1
        BY <1>6, <1>7, <1>9, <2>3
    <2> QED
        BY <1>1, <1>6, <2>2, <2>3, <2>4
<1> QED
    BY <1>10, <1>11 DEF MatchingIInv

\* The path that an augmentation flips: its rows are distinct, its neighbours are distinct, every
\* neighbour but the last is matched with the next row, and the last is free.
LEMMA PathIsAlternating ==
    ASSUME MatchingIInv, Augment
    PROVE  /\ Len(stack) \in Nat \ {0} /\ DOMAIN Moved = 1 .. Len(stack)
           /\ \A n \in 1 .. Len(stack) :
                 /\ Moved[n].left \in Left /\ Moved[n].at \in Right
                 /\ Moved[n].at \in adjacency[Moved[n].left]
                 /\ matchRight[Moved[n].at] = IF n = Len(stack) THEN 0 ELSE Moved[n + 1].left
           /\ matchLeft[Moved[1].left] = 0
           /\ \A m, n \in 1 .. Len(stack) : Moved[m].left = Moved[n].left => m = n
           /\ \A m, n \in 1 .. Len(stack) : Moved[m].at = Moved[n].at => m = n
<1>1. InCall /\ Untried # {} /\ matchRight[Neighbour] = 0
    BY DEF Augment
<1>2. /\ Len(stack) \in Nat \ {0}
      /\ \A n \in 1 .. Len(stack) : stack[n] \in Frames
      /\ Top = stack[Len(stack)]
      /\ \A m, n \in 1 .. Len(stack) : stack[m].left = stack[n].left => m = n
    BY <1>1, CallsTyped DEF Top
<1>3. /\ Moved \in Seq(Frames) /\ Len(Moved) = Len(stack)
      /\ \A n \in 1 .. Len(stack) - 1 : Moved[n] = stack[n]
      /\ \A n \in 1 .. Len(stack) : Moved[n].left = stack[n].left
      /\ Moved[Len(stack)].at = Neighbour
    BY <1>1, MovedStack
<1>4. Neighbour \in adjacency[Top.left] /\ Neighbour \in Right
    BY <1>1, NextNeighbour
<1>5. /\ matchLeft[stack[1].left] = 0
      /\ \A n \in 1 .. Len(stack) - 1 : Linked(stack, n)
    BY <1>1 DEF InCall, MatchingIInv, AlternatingPath
<1>6. \A n \in 1 .. Len(stack) : Moved[n].left \in Left
    BY <1>2, <1>3 DEF Frames
<1>7. ASSUME NEW n \in 1 .. Len(stack)
      PROVE  /\ Moved[n].at \in adjacency[Moved[n].left]
             /\ matchRight[Moved[n].at] = IF n = Len(stack) THEN 0 ELSE Moved[n + 1].left
    <2>1. CASE n = Len(stack)
        BY <1>1, <1>2, <1>3, <1>4, <2>1
    <2>2. CASE n # Len(stack)
        <3>1. n \in 1 .. Len(stack) - 1 /\ n + 1 \in 1 .. Len(stack)
            BY <1>2, <2>2
        <3>2. Moved[n] = stack[n] /\ Moved[n + 1].left = stack[n + 1].left /\ Linked(stack, n)
            BY <1>3, <1>5, <3>1
        <3> QED
            BY <2>2, <3>2 DEF Linked
    <2> QED
        BY <2>1, <2>2
<1>8. \A n \in 1 .. Len(stack) : Moved[n].at \in Right
    BY <1>6, <1>7 DEF MatchingIInv, MatchingTypeOK
<1>9. \A m, n \in 1 .. Len(stack) : Moved[m].left = Moved[n].left => m = n
    BY <1>2, <1>3
<1>10. \A m, n \in 1 .. Len(stack) : Moved[m].at = Moved[n].at => m = n
    <2> TAKE m, n \in 1 .. Len(stack)
    <2> HAVE Moved[m].at = Moved[n].at
    <2>1. matchRight[Moved[m].at] = matchRight[Moved[n].at]
        OBVIOUS
    <2>2. CASE m = Len(stack) /\ n # Len(stack)
        <3>1. Moved[n + 1].left = 0 /\ n + 1 \in 1 .. Len(stack)
            BY <1>2, <1>7, <2>1, <2>2
        <3> QED
            BY <1>6, <3>1, RowsPositive
    <2>3. CASE m # Len(stack) /\ n = Len(stack)
        <3>1. Moved[m + 1].left = 0 /\ m + 1 \in 1 .. Len(stack)
            BY <1>2, <1>7, <2>1, <2>3
        <3> QED
            BY <1>6, <3>1, RowsPositive
    <2>4. CASE m # Len(stack) /\ n # Len(stack)
        <3>1. Moved[m + 1].left = Moved[n + 1].left /\ m + 1 \in 1 .. Len(stack) /\ n + 1 \in 1 .. Len(stack)
            BY <1>2, <1>7, <2>1, <2>4
        <3>2. m + 1 = n + 1
            BY <1>9, <3>1
        <3> QED
            BY <1>2, <3>2
    <2> QED
        BY <2>2, <2>3, <2>4
<1>11. matchLeft[Moved[1].left] = 0
    BY <1>2, <1>3, <1>5
<1>12. DOMAIN Moved = 1 .. Len(stack)
    BY <1>3
<1> QED
    BY <1>2, <1>6, <1>7, <1>8, <1>9, <1>10, <1>11, <1>12

\* Every call on the stack matches its row with the neighbour it is at; no other row changes.
LEMMA Flipped ==
    ASSUME MatchingIInv, Augment
    PROVE  /\ \A n \in 1 .. Len(stack) :
                 /\ matchLeft'[Moved[n].left] = Moved[n].at
                 /\ matchRight'[Moved[n].at] = Moved[n].left
           /\ \A i \in Left : (\A n \in 1 .. Len(stack) : Moved[n].left # i) => matchLeft'[i] = matchLeft[i]
           /\ \A j \in Right : (\A n \in 1 .. Len(stack) : Moved[n].at # j) => matchRight'[j] = matchRight[j]
<1> DEFINE calls == {Moved[n] : n \in DOMAIN Moved}
<1>1. /\ DOMAIN Moved = 1 .. Len(stack)
      /\ \A n \in 1 .. Len(stack) : Moved[n].left \in Left /\ Moved[n].at \in Right
      /\ \A m, n \in 1 .. Len(stack) : Moved[m].left = Moved[n].left => m = n
      /\ \A m, n \in 1 .. Len(stack) : Moved[m].at = Moved[n].at => m = n
    BY PathIsAlternating
<1>2. /\ matchLeft' = [i \in Left |-> IF \E c \in calls : c.left = i
                                        THEN (CHOOSE c \in calls : c.left = i).at ELSE matchLeft[i]]
      /\ matchRight' = [j \in Right |-> IF \E c \in calls : c.at = j
                                          THEN (CHOOSE c \in calls : c.at = j).left ELSE matchRight[j]]
    BY DEF Augment
<1>3. /\ \A n \in 1 .. Len(stack) : Moved[n] \in calls
      /\ \A c \in calls : \E n \in 1 .. Len(stack) : c = Moved[n]
    BY <1>1
<1> HIDE DEF calls
<1>4. ASSUME NEW n \in 1 .. Len(stack)
      PROVE  /\ matchLeft'[Moved[n].left] = Moved[n].at
             /\ matchRight'[Moved[n].at] = Moved[n].left
    <2>1. \A c \in calls : c.left = Moved[n].left => c = Moved[n]
        BY <1>1, <1>3
    <2>2. \A c \in calls : c.at = Moved[n].at => c = Moved[n]
        BY <1>1, <1>3
    <2>3. (CHOOSE c \in calls : c.left = Moved[n].left) = Moved[n]
        BY <1>3, <2>1
    <2>4. (CHOOSE c \in calls : c.at = Moved[n].at) = Moved[n]
        BY <1>3, <2>2
    <2> QED
        BY <1>1, <1>2, <1>3, <2>3, <2>4
<1>5. \A i \in Left : (\A n \in 1 .. Len(stack) : Moved[n].left # i) => matchLeft'[i] = matchLeft[i]
    BY <1>2, <1>3
<1>6. \A j \in Right : (\A n \in 1 .. Len(stack) : Moved[n].at # j) => matchRight'[j] = matchRight[j]
    BY <1>2, <1>3
<1> QED
    BY <1>4, <1>5, <1>6

LEMMA AugmentStep ==
    ASSUME MatchingIInv, Augment
    PROVE  MatchingIInv'
<1> DEFINE Path == 1 .. Len(stack)
<1>1. /\ Len(stack) \in Nat \ {0}
      /\ \A n \in Path :
            /\ Moved[n].left \in Left /\ Moved[n].at \in Right
            /\ Moved[n].at \in adjacency[Moved[n].left]
            /\ matchRight[Moved[n].at] = IF n = Len(stack) THEN 0 ELSE Moved[n + 1].left
      /\ matchLeft[Moved[1].left] = 0
    BY PathIsAlternating
<1>2. /\ \A n \in Path :
            /\ matchLeft'[Moved[n].left] = Moved[n].at
            /\ matchRight'[Moved[n].at] = Moved[n].left
      /\ \A i \in Left : (\A n \in Path : Moved[n].left # i) => matchLeft'[i] = matchLeft[i]
      /\ \A j \in Right : (\A n \in Path : Moved[n].at # j) => matchRight'[j] = matchRight[j]
    BY Flipped
<1>3. UNCHANGED <<adjacency, layer, todo, phase>> /\ stack' = <<>>
    BY DEF Augment
<1>4. DOMAIN matchLeft' = Left /\ DOMAIN matchRight' = Right
    BY DEF Augment
<1>5. matchLeft' \in [Left -> Right \cup {0}] /\ matchRight' \in [Right -> Left \cup {0}]
    <2>1. ASSUME NEW i \in Left PROVE matchLeft'[i] \in Right \cup {0}
        <3>1. CASE \E n \in Path : Moved[n].left = i
            BY <1>1, <1>2, <3>1
        <3>2. CASE \A n \in Path : Moved[n].left # i
            <4>1. matchLeft'[i] = matchLeft[i]
                BY <1>2, <3>2
            <4> QED
                BY <4>1 DEF MatchingIInv, MatchingTypeOK
        <3> QED
            BY <3>1, <3>2
    <2>2. ASSUME NEW j \in Right PROVE matchRight'[j] \in Left \cup {0}
        <3>1. CASE \E n \in Path : Moved[n].at = j
            BY <1>1, <1>2, <3>1
        <3>2. CASE \A n \in Path : Moved[n].at # j
            <4>1. matchRight'[j] = matchRight[j]
                BY <1>2, <3>2
            <4> QED
                BY <4>1 DEF MatchingIInv, MatchingTypeOK
        <3> QED
            BY <3>1, <3>2
    <2>3. matchLeft' = [i \in Left |-> matchLeft'[i]] /\ matchRight' = [j \in Right |-> matchRight'[j]]
        BY DEF Augment
    <2> QED
        BY <2>1, <2>2, <2>3
<1>6. MatchingTypeOK'
    <2>1. stack' \in Seq(Frames)
        BY <1>3
    <2> QED
        BY <1>3, <1>5, <2>1 DEF MatchingIInv, MatchingTypeOK
<1>7. ASSUME NEW i \in Left, matchLeft'[i] # 0
      PROVE  matchLeft'[i] \in adjacency[i] /\ matchRight'[matchLeft'[i]] = i
    <2>1. CASE \E n \in Path : Moved[n].left = i
        BY <1>1, <1>2, <2>1
    <2>2. CASE \A n \in Path : Moved[n].left # i
        <3>1. matchLeft'[i] = matchLeft[i] /\ matchLeft[i] # 0 /\ matchLeft[i] \in Right
            BY <1>2, <1>7, <2>2 DEF MatchingIInv, MatchingTypeOK
        <3>2. matchLeft[i] \in adjacency[i] /\ matchRight[matchLeft[i]] = i
            BY <3>1 DEF MatchingIInv, MatchingValid
        <3>3. \A n \in Path : Moved[n].at # matchLeft[i]
            <4> SUFFICES ASSUME NEW n \in Path, Moved[n].at = matchLeft[i] PROVE FALSE
                OBVIOUS
            <4>1. i = IF n = Len(stack) THEN 0 ELSE Moved[n + 1].left
                BY <1>1, <3>2
            <4>2. CASE n = Len(stack)
                BY <4>1, <4>2, RowsPositive
            <4>3. CASE n # Len(stack)
                <5>1. n + 1 \in Path /\ Moved[n + 1].left = i
                    BY <1>1, <4>1, <4>3
                <5> QED
                    BY <2>2, <5>1
            <4> QED
                BY <4>2, <4>3
        <3> QED
            BY <1>2, <3>1, <3>2, <3>3
    <2> QED
        BY <2>1, <2>2
<1>8. ASSUME NEW j \in Right, matchRight'[j] # 0
      PROVE  matchLeft'[matchRight'[j]] = j
    <2>1. CASE \E n \in Path : Moved[n].at = j
        BY <1>2, <2>1
    <2>2. CASE \A n \in Path : Moved[n].at # j
        <3>1. matchRight'[j] = matchRight[j] /\ matchRight[j] # 0 /\ matchRight[j] \in Left
            BY <1>2, <1>8, <2>2 DEF MatchingIInv, MatchingTypeOK
        <3>2. matchLeft[matchRight[j]] = j
            BY <3>1 DEF MatchingIInv, MatchingValid
        <3>3. \A n \in Path : Moved[n].left # matchRight[j]
            <4> SUFFICES ASSUME NEW n \in Path, Moved[n].left = matchRight[j] PROVE FALSE
                OBVIOUS
            <4>1. n # 1
                BY <1>1, <3>2, RowsPositive
            <4>2. n - 1 \in Path /\ n - 1 # Len(stack) /\ n - 1 + 1 = n
                BY <1>1, <4>1
            <4>3. Moved[n - 1].at \in Right /\ matchRight[Moved[n - 1].at] = Moved[n].left /\ Moved[n].left \in Left
                BY <1>1, <4>2
            <4>4. matchLeft[Moved[n].left] = Moved[n - 1].at
                BY <4>3, RowsPositive DEF MatchingIInv, MatchingValid
            <4> QED
                BY <2>2, <3>2, <4>2, <4>4
        <3> QED
            BY <1>2, <3>1, <3>2, <3>3
    <2> QED
        BY <2>1, <2>2
<1>9. MatchingValid'
    BY <1>3, <1>7, <1>8 DEF MatchingValid
<1> QED
    BY <1>3, <1>6, <1>9 DEF MatchingIInv, AlternatingPath, CallsInPhase

LEMMA MatchingInvariance == MatchingSpec => []MatchingIInv
<1>1. MatchingIInv /\ [MatchingNext]_matchingVars => MatchingIInv'
    <2> SUFFICES ASSUME MatchingIInv, [MatchingNext]_matchingVars PROVE MatchingIInv'
        OBVIOUS
    <2>1. CASE UNCHANGED matchingVars
        BY <2>1 DEF matchingVars, MatchingIInv, MatchingTypeOK, MatchingValid, AlternatingPath, Linked, CallsInPhase
    <2> QED
        BY <2>1, BuildLayersStep, TryNextStep, AugmentStep, DescendStep, FailStep DEF MatchingNext
<1> QED
    BY <1>1, MatchingInitImpliesIInv, PTL DEF MatchingSpec

\* Whatever rows and graph the oracle compares, matchLeft and matchRight are one matching of the
\* graph throughout the search, however many calls of augment() an augmentation rewires.
THEOREM MatchingStaysValid == MatchingSpec => []MatchingValid
<1>1. MatchingIInv => MatchingValid
    BY DEF MatchingIInv
<1> QED
    BY <1>1, MatchingInvariance, PTL

-----------------------------------------------------------------------------
(* The seeding of the fixtures.                                              *)

\* A table that does not hold what the generator of run r makes.
Bad(r, f, t) == rows[f][t] # Generated(setup[r].version)[t]

\* The tables that run r has read of its fixture all were as its generator makes them.
MatchedSoFar(r) ==
    \A n \in DOMAIN TablesRead(r) : TablesRead(r)[n] = Generated(setup[r].version)[SeededTables[n]]

SeenOK ==
    /\ seen \in [SetupRuns -> Seq(Versions \cup {Absent, Other, SharedRows, NoMeta})]
    /\ \A r \in SetupRuns : at[r] \in {"compare", "write", "forgetMeta", "recordMeta"} => queue[r] # <<>>

\* A fixture that was not exact since the run began has a wrong table.
InexactHasBad(r) ==
    at[r] # "off" => \A f \in Fixtures : f \notin exact[r] => \E t \in Tables : Bad(r, f, t)

\* When the master tables were right, a wrong fact table is still to be read: only a seeding
\* makes it right, and that of another version makes all of them wrong.
BadIsAhead(r) ==
    /\ at[r] \in {"check", "recheck"} /\ queue[r] # <<>> /\ Len(seen[r]) > 1
    /\ MatchedSoFar(r) /\ Subject(r) \notin exact[r]
    => \E n \in {2, 3} : n > Len(seen[r]) - 1 /\ Bad(r, Subject(r), SeededTables[n])

\* What has been read is of the fixture at the head of the queue.
NothingRead(r) ==
    \/ at[r] \in {"create", "write", "forgetMeta", "recordMeta"}
    \/ at[r] \in {"check", "recheck"} /\ queue[r] = <<>>
    => seen[r] = <<>>

Listed(r) == {queue[r][n] : n \in DOMAIN queue[r]}

\* What each stage still has to go through, and what has been found exact.
Progress(r) ==
    setup[r].mode # "lenient" =>
        /\ at[r] = "check" => setup[r].wanted \subseteq Listed(r) \cup lacking[r] \cup exact[r]
        /\ at[r] \in {"create", "compare", "write", "forgetMeta", "recordMeta"} =>
              setup[r].wanted \subseteq lacking[r] \cup exact[r]
        /\ at[r] = "recheck" => setup[r].wanted \subseteq Listed(r) \cup exact[r]
        /\ at[r] = "usable" => setup[r].wanted \subseteq exact[r]

RunOK(r) == InexactHasBad(r) /\ BadIsAhead(r) /\ NothingRead(r) /\ Progress(r)

SeedingIInv == SeedingTypeOK /\ SeenOK /\ \A r \in SetupRuns : RunOK(r)

LEMMA OrderedLists ==
    ASSUME NEW fs \in SUBSET Fixtures
    PROVE  /\ Ordered(fs) \in Seq(Fixtures)
           /\ \A f \in fs : \E n \in DOMAIN Ordered(fs) : Ordered(fs)[n] = f
<1> DEFINE k == Cardinality(fs)
           below(f) == {g \in fs : g < f}
           rank == [f \in fs |-> Cardinality(below(f))]
<1>1. IsFiniteSet(fs) /\ k \in Nat /\ fs \subseteq Nat
    BY SeedingAssumption, FS_Subset, FS_CardinalityType
<1>2. ASSUME NEW f \in fs
      PROVE  IsFiniteSet(below(f)) /\ rank[f] \in 0 .. k - 1
    <2>1. below(f) \in SUBSET (fs \ {f})
        BY <1>1
    <2>2. IsFiniteSet(fs \ {f}) /\ Cardinality(fs \ {f}) = k - 1
        BY <1>1, FS_RemoveElement
    <2>3. IsFiniteSet(below(f)) /\ Cardinality(below(f)) <= k - 1
        BY <2>1, <2>2, FS_Subset
    <2>4. Cardinality(below(f)) \in Nat
        BY <2>3, FS_CardinalityType
    <2> QED
        BY <1>1, <2>3, <2>4
<1>3. ASSUME NEW f \in fs, NEW h \in fs, f < h
      PROVE  rank[f] # rank[h]
    <2>1. f \in Nat /\ h \in Nat /\ \A g \in fs : g \in Nat
        BY <1>1
    <2>2. \A g \in below(f) : g \in below(h)
        BY <2>1, <1>3
    <2>3. f \in below(h) /\ f \notin below(f)
        BY <2>1, <1>3
    <2> QED
        BY <2>2, <2>3, <1>2, FS_Subset
<1>4. rank \in Injection(fs, 0 .. k - 1)
    <2>1. rank \in [fs -> 0 .. k - 1]
        BY <1>2
    <2>2. \A f, h \in fs : rank[f] = rank[h] => f = h
        BY <1>1, <1>3
    <2> QED
        BY <2>1, <2>2 DEF Injection, IsInjective
<1>5. IsFiniteSet(0 .. k - 1) /\ Cardinality(0 .. k - 1) = k
    <2>1. k - 1 \in Int
        BY <1>1
    <2>2. Cardinality(0 .. k - 1) = (IF 0 > k - 1 THEN 0 ELSE (k - 1) - 0 + 1) /\ IsFiniteSet(0 .. k - 1)
        BY <2>1, FS_Interval
    <2> HIDE DEF k
    <2> QED
        BY <1>1, <2>2
<1>6. rank \in Surjection(fs, 0 .. k - 1)
    BY <1>1, <1>4, <1>5, FS_Injection
<1>7. \A m \in 0 .. k - 1 : \E f \in fs : rank[f] = m
    BY <1>6 DEF Surjection
<1>8. ASSUME NEW n \in 1 .. k
      PROVE  Ordered(fs)[n] \in fs /\ rank[Ordered(fs)[n]] = n - 1
    <2>1. n - 1 \in 0 .. k - 1
        BY <1>1
    <2>2. PICK f \in fs : Cardinality({g \in fs : g < f}) = n - 1
        BY <2>1, <1>7
    <2>3. Ordered(fs)[n] = CHOOSE h \in fs : Cardinality({g \in fs : g < h}) = n - 1
        BY DEF Ordered
    <2> QED
        BY <2>2, <2>3
<1>9. DOMAIN Ordered(fs) = 1 .. k
    BY DEF Ordered
<1>10. Ordered(fs) \in Seq(Fixtures)
    <2>1. Ordered(fs) \in [1 .. k -> Fixtures]
        BY <1>8, <1>9 DEF Ordered
    <2> QED
        BY <2>1, <1>1
<1>11. ASSUME NEW f \in fs
       PROVE  \E n \in DOMAIN Ordered(fs) : Ordered(fs)[n] = f
    <2>1. PICK n \in 1 .. k : n - 1 = rank[f]
        <3>1. rank[f] \in 0 .. k - 1
            BY <1>2
        <3> HIDE DEF k, rank
        <3>2. rank[f] + 1 \in 1 .. k /\ (rank[f] + 1) - 1 = rank[f]
            BY <1>1, <3>1
        <3> QED
            BY <3>2
    <2>2. rank[Ordered(fs)[n]] = rank[f] /\ Ordered(fs)[n] \in fs
        BY <2>1, <1>8
    <2> QED
        BY <2>1, <2>2, <1>4, <1>9 DEF Injection, IsInjective
<1> QED
    BY <1>10, <1>11

LEMMA GeneratedRows ==
    ASSUME NEW v \in Versions
    PROVE  /\ Generated(v) \in [Tables -> Versions \cup {SharedRows}]
           /\ Generated(v)["master"] = SharedRows
           /\ Generated(v)["documents"] = v /\ Generated(v)["lines"] = v
           /\ \A t \in Tables : Generated(v)[t] \notin {Other, Absent}
<1>1. v \notin {Other, Absent} /\ SharedRows \notin {Other, Absent}
    BY SeedingAssumption DEF Other, Absent, SharedRows
<1> QED
    BY <1>1 DEF Generated, Tables

LEMMA RunSettings ==
    ASSUME SeedingTypeOK, NEW r \in SetupRuns
    PROVE  setup[r].version \in Versions /\ setup[r].mode \in Modes /\ setup[r].wanted \in SUBSET Fixtures
<1>1. setup \in [SetupRuns -> [version : Versions, mode : Modes, wanted : SUBSET Fixtures]]
    BY SeedingAssumption DEF SeedingTypeOK
<1> QED
    BY <1>1

LEMMA SeededTablesAre ==
    /\ Len(SeededTables) = 3 /\ DOMAIN SeededTables = {1, 2, 3}
    /\ \A n \in {1, 2, 3} : SeededTables[n] \in Tables
    /\ SeededTables[1] = "master"
    /\ \A n \in {2, 3} : SeededTables[n] \in {"documents", "lines"}
    /\ \A t \in Tables : \E n \in {1, 2, 3} : t = SeededTables[n]
    BY DEF SeededTables, Tables

LEMMA TypeStep ==
    ASSUME SeedingTypeOK, SeenOK, SeedingNext
    PROVE  SeedingTypeOK' /\ SeenOK'
<1> USE DEF SeedingTypeOK, SeenOK
<1>1. ASSUME NEW r \in SetupRuns, SeedingStep(r)
      PROVE  SeedingTypeOK' /\ SeenOK'
    <2>1. /\ setup[r].version \in Versions /\ setup[r].wanted \in SUBSET Fixtures /\ lacking[r] \in SUBSET Fixtures
          /\ queue[r] \in Seq(Fixtures) /\ seen[r] \in Seq(Versions \cup {Absent, Other, SharedRows, NoMeta})
        BY RunSettings
    <2>2. queue[r] # <<>> => Subject(r) \in Fixtures /\ Tail(queue[r]) \in Seq(Fixtures)
        BY <2>1 DEF Subject
    <2>3. CASE Start(r)
        <3>1. Ordered(setup[r].wanted) \in Seq(Fixtures)
            BY <2>1, OrderedLists
        <3> QED
            BY <2>1, <2>3, <3>1 DEF Start, Go, Through, Forget
    <2>4. CASE ReadMeta(r)
        <3>1. meta[Subject(r)] \in Versions \cup {NoMeta}
            BY <2>2, <2>4 DEF ReadMeta, Reading
        <3> QED
            BY <2>4, <3>1 DEF ReadMeta, Database
    <2>5. CASE ReadTable(r)
        <3>1. Subject(r) \in Fixtures /\ Len(seen[r]) \in {1, 2, 3}
            BY <2>2, <2>5, SeededTablesAre DEF ReadTable, Reading
        <3>2. rows[Subject(r)][SeededTables[Len(seen[r])]] \in Versions \cup {Absent, Other, SharedRows}
            <4>1. SeededTables[Len(seen[r])] \in Tables
                BY <3>1, SeededTablesAre
            <4> QED
                BY <3>1, <4>1
        <3>3. Append(seen[r], rows[Subject(r)][SeededTables[Len(seen[r])]]) \in Seq(Versions \cup {Absent, Other, SharedRows, NoMeta})
            BY <2>1, <3>2
        <3> QED
            BY <2>5, <3>3 DEF ReadTable, Database
    <2>6. CASE Describe(r)
        BY <2>1, <2>2, <2>6 DEF Describe, ReadAll, Reading, NextFixture, Forget, Database
    <2>7. CASE Checked(r)
        <3>1. Ordered(lacking[r]) \in Seq(Fixtures)
            BY <2>1, OrderedLists
        <3> QED
            BY <2>7, <3>1 DEF Checked, Go, Through, Database
    <2>8. CASE Create(r)
        BY <2>1, <2>2, <2>8 DEF Create, Go
    <2>9. CASE KeepOrWrite(r)
        <3>1. at[r] = "compare"
            BY <2>9 DEF KeepOrWrite
        <3>2. queue[r] # <<>>
            BY <3>1
        <3>3. queue' = queue \/ (queue' = [queue EXCEPT ![r] = Tail(queue[r])] /\ at' = [at EXCEPT ![r] = "create"])
            <4>1. ToWrite(r) \/ SeedFails(r) \/ NextSeed(r)
                BY <2>9 DEF KeepOrWrite
            <4> QED
                BY <4>1 DEF NextSeed, ToWrite, SeedFails, Go, NextFixture
        <3>4. /\ at' \in {[at EXCEPT ![r] = "create"], [at EXCEPT ![r] = "write"], [at EXCEPT ![r] = "failed"]}
              /\ seen' = [seen EXCEPT ![r] = <<>>]
            BY <2>9 DEF KeepOrWrite, NextSeed, ToWrite, SeedFails, Go, Forget
        <3>5. UNCHANGED <<rows, meta, exact, setup, lacking, troubles>>
            BY <2>9 DEF KeepOrWrite, Database
        <3>6. queue' \in [SetupRuns -> Seq(Fixtures)]
            BY <2>2, <3>2, <3>3
        <3>7. at' \in [SetupRuns -> {"off", "check", "create", "compare", "write", "forgetMeta", "recordMeta",
                                  "recheck", "usable", "failed"}]
            BY <3>4
        <3>8. seen' \in [SetupRuns -> Seq(Versions \cup {Absent, Other, SharedRows, NoMeta})]
            BY <3>4
        <3>9. SeedingTypeOK'
            BY <3>5, <3>6, <3>7
        <3>10. SeenOK'
            BY <3>2, <3>3, <3>4, <3>8
        <3> QED
            BY <3>9, <3>10
    <2>10. CASE WriteRows(r)
        <3>1. Subject(r) \in Fixtures /\ Generated(setup[r].version) \in [Tables -> Versions \cup {SharedRows}]
            BY <2>1, <2>2, <2>10, GeneratedRows DEF WriteRows
        <3>2. rows' \in [Fixtures -> [Tables -> Versions \cup {Absent, Other, SharedRows}]]
            BY <2>10, <3>1 DEF WriteRows
        <3>3. exact' \in [SetupRuns -> SUBSET Fixtures]
            BY <2>10 DEF WriteRows, Witness
        <3> QED
            BY <2>10, <3>2, <3>3 DEF WriteRows, Go
    <2>11. CASE WriteFails(r)
        BY <2>11 DEF WriteFails, SeedFails, Go, Database
    <2>12. CASE DeleteMeta(r)
        BY <2>12 DEF DeleteMeta, Go
    <2>13. CASE InsertMeta(r)
        BY <2>1, <2>2, <2>13 DEF InsertMeta, NextSeed, SeedFails, Go, NextFixture
    <2>14. CASE Seeded(r)
        <3>1. Ordered(lacking[r]) \in Seq(Fixtures)
            BY <2>1, OrderedLists
        <3> QED
            BY <2>14, <3>1 DEF Seeded, Go, Through, Database
    <2>15. CASE Recheck(r)
        <3>1. queue[r] # <<>> /\ at[r] = "recheck"
            BY <2>15 DEF Recheck, ReadAll, Reading
        <3>2. queue' = [queue EXCEPT ![r] = Tail(queue[r])] /\ seen' = [seen EXCEPT ![r] = <<>>]
            BY <2>15 DEF Recheck, NextFixture, Forget
        <3>3. at' = [at EXCEPT ![r] = "failed"] \/ at' = at
            BY <2>15 DEF Recheck, Go
        <3>4. UNCHANGED <<rows, meta, exact, setup, lacking, troubles>>
            BY <2>15 DEF Recheck, Database
        <3> QED
            BY <2>2, <3>1, <3>2, <3>3, <3>4
    <2>16. CASE Done(r)
        BY <2>16 DEF Done, Go, Database
    <2> QED
        BY <1>1, <2>3, <2>4, <2>5, <2>6, <2>7, <2>8, <2>9, <2>10, <2>11, <2>12, <2>13, <2>14, <2>15, <2>16 DEF SeedingStep
<1>2. ASSUME NEW r \in SetupRuns, Fault(r)
      PROVE  SeedingTypeOK' /\ SeenOK'
    BY <1>2, SeedingAssumption DEF Fault, Go, Database
<1>3. ASSUME NEW f \in Fixtures, NEW t \in Tables, Edit(f, t)
      PROVE  SeedingTypeOK' /\ SeenOK'
    BY <1>3, SeedingAssumption DEF Edit
<1> QED
    BY <1>1, <1>2, <1>3 DEF SeedingNext

-----------------------------------------------------------------------------
\* What a step does to the rows: tables get worse, or a fixture gets all the
\* tables of one version, which every run of that version under way takes note of.
RowsMove ==
    /\ setup' = setup
    /\ \A f \in Fixtures :
          \/ \A t \in Tables : rows'[f][t] \in {rows[f][t], Other, Absent}
          \/ \E v \in Versions :
                /\ rows'[f] = Generated(v)
                /\ \A r \in SetupRuns : at[r] # "off" /\ setup[r].version = v => f \in exact'[r]

LEMMA QuietMove ==
    ASSUME UNCHANGED <<setup, rows>>
    PROVE  RowsMove
    BY DEF RowsMove

LEMMA CreateMove ==
    ASSUME SeedingTypeOK, NEW r \in SetupRuns, Create(r)
    PROVE  RowsMove
<1>1. setup' = setup /\ exact' = exact
    BY DEF Create
<1>2. ASSUME NEW f \in Fixtures, NEW t \in Tables
      PROVE  rows'[f][t] \in {rows[f][t], Other}
    BY DEF Create, SeedingTypeOK
<1> QED
    BY <1>1, <1>2 DEF RowsMove

LEMMA EditMove ==
    ASSUME SeedingTypeOK, NEW f \in Fixtures, NEW t \in Tables, Edit(f, t)
    PROVE  RowsMove
<1>1. setup' = setup /\ exact' = exact
    BY DEF Edit
<1>2. PICK left \in {Other, Absent} : rows' = [rows EXCEPT ![f][t] = left]
    BY DEF Edit
<1>3. ASSUME NEW g \in Fixtures, NEW u \in Tables
      PROVE  rows'[g][u] \in {rows[g][u], Other, Absent}
    BY <1>2 DEF SeedingTypeOK
<1> QED
    BY <1>1, <1>3 DEF RowsMove

LEMMA WriteMove ==
    ASSUME SeedingTypeOK, NEW r \in SetupRuns, WriteRows(r)
    PROVE  RowsMove /\ \A q \in SetupRuns : exact[q] \subseteq exact'[q]
<1> DEFINE v == setup[r].version
<1>1. setup' = setup /\ v \in Versions
    BY RunSettings DEF WriteRows
<1>2. exact' = [q \in SetupRuns |->
                  exact[q] \cup {f \in Fixtures : at[q] # "off" /\ rows'[f] = Generated(setup[q].version)}]
    BY DEF WriteRows, Witness
<1>3. \A q \in SetupRuns : exact[q] \subseteq exact'[q]
    BY <1>2
<1>4. ASSUME NEW f \in Fixtures
      PROVE  \/ \A t \in Tables : rows'[f][t] \in {rows[f][t], Other, Absent}
             \/ rows'[f] = Generated(v)
    BY DEF WriteRows, SeedingTypeOK
<1>5. ASSUME NEW f \in Fixtures, rows'[f] = Generated(v), NEW q \in SetupRuns, at[q] # "off", setup[q].version = v
      PROVE  f \in exact'[q]
    BY <1>2, <1>5
<1> HIDE DEF v
<1> QED
    BY <1>1, <1>3, <1>4, <1>5 DEF RowsMove

\* A wrong fact table is right again only when the fixture is exact.
LEMMA BadStays ==
    ASSUME SeedingTypeOK, RowsMove, NEW r \in SetupRuns, at[r] # "off",
           NEW f \in Fixtures, f \notin exact'[r], NEW t \in {"documents", "lines"}, Bad(r, f, t)
    PROVE  rows'[f][t] # Generated(setup'[r].version)[t]
<1>1. setup[r].version \in Versions /\ t \in Tables /\ setup'[r] = setup[r]
    BY RunSettings DEF Tables, RowsMove
<1>2. CASE \A u \in Tables : rows'[f][u] \in {rows[f][u], Other, Absent}
    BY <1>1, <1>2, GeneratedRows DEF Bad
<1>3. CASE \E v \in Versions :
              /\ rows'[f] = Generated(v)
              /\ \A q \in SetupRuns : at[q] # "off" /\ setup[q].version = v => f \in exact'[q]
    <2>1. PICK v \in Versions : rows'[f] = Generated(v) /\ v # setup[r].version
        BY <1>3
    <2> QED
        BY <1>1, <2>1, GeneratedRows DEF Bad
<1> QED
    BY <1>2, <1>3 DEF RowsMove

LEMMA SomeBadStays ==
    ASSUME SeedingTypeOK, RowsMove, NEW r \in SetupRuns, at[r] # "off", InexactHasBad(r),
           exact[r] \subseteq exact'[r]
    PROVE  \A f \in Fixtures : f \notin exact'[r] => \E t \in Tables : rows'[f][t] # Generated(setup'[r].version)[t]
<1> SUFFICES ASSUME NEW f \in Fixtures, f \notin exact'[r]
             PROVE  \E t \in Tables : rows'[f][t] # Generated(setup'[r].version)[t]
    OBVIOUS
<1>1. f \notin exact[r]
    OBVIOUS
<1>2. PICK t \in Tables : Bad(r, f, t)
    BY <1>1 DEF InexactHasBad
<1>3. CASE t \in {"documents", "lines"}
    BY <1>2, <1>3, BadStays
<1>4. CASE t = "master"
    <2>1. setup[r].version \in Versions /\ "documents" \in Tables /\ setup'[r] = setup[r]
        BY RunSettings DEF Tables, RowsMove
    <2>2. CASE \A u \in Tables : rows'[f][u] \in {rows[f][u], Other, Absent}
        BY <1>2, <2>1, <2>2, GeneratedRows DEF Bad
    <2>3. CASE \E v \in Versions :
                  /\ rows'[f] = Generated(v)
                  /\ \A q \in SetupRuns : at[q] # "off" /\ setup[q].version = v => f \in exact'[q]
        <3>1. PICK v \in Versions : rows'[f] = Generated(v) /\ v # setup[r].version
            BY <2>3
        <3>2. rows'[f]["documents"] # Generated(setup'[r].version)["documents"]
            BY <2>1, <3>1, GeneratedRows DEF Bad
        <3> QED
            BY <2>1, <3>2
    <2> QED
        BY <2>2, <2>3 DEF RowsMove
<1> QED
    BY <1>3, <1>4 DEF Tables

\* A run that this step is not one of.
LEMMA OtherRun ==
    ASSUME SeedingIInv, RowsMove, NEW r \in SetupRuns, exact[r] \subseteq exact'[r],
           at'[r] = at[r], queue'[r] = queue[r], seen'[r] = seen[r], lacking'[r] = lacking[r]
    PROVE  RunOK(r)'
<1>1. RunOK(r) /\ setup'[r] = setup[r]
    BY DEF SeedingIInv, RowsMove
<1>2. InexactHasBad(r)'
    BY <1>1, SomeBadStays DEF InexactHasBad, RunOK, SeedingIInv, Bad
<1>3. BadIsAhead(r)'
    <2> SUFFICES ASSUME at[r] \in {"check", "recheck"}, queue[r] # <<>>, Len(seen[r]) > 1,
                        MatchedSoFar(r), Subject(r) \notin exact'[r]
                 PROVE  \E n \in {2, 3} : /\ n > Len(seen[r]) - 1
                                         /\ rows'[Subject(r)][SeededTables[n]] # Generated(setup'[r].version)[SeededTables[n]]
        BY <1>1 DEF BadIsAhead, MatchedSoFar, Subject, TablesRead, Bad
    <2>1. PICK n \in {2, 3} : n > Len(seen[r]) - 1 /\ Bad(r, Subject(r), SeededTables[n])
        BY <1>1 DEF RunOK, BadIsAhead
    <2>2. Subject(r) \in Fixtures
        BY DEF SeedingIInv, SeedingTypeOK, Subject
    <2> QED
        BY <2>1, <2>2, BadStays, SeededTablesAre DEF SeedingIInv
<1>4. NothingRead(r)'
    BY <1>1 DEF RunOK, NothingRead
<1>5. Progress(r)'
    <2>1. Listed(r)' = Listed(r)
        BY DEF Listed
    <2> QED
        BY <1>1, <2>1 DEF RunOK, Progress
<1> QED
    BY <1>2, <1>3, <1>4, <1>5 DEF RunOK

\* The runs beside the one that a step is of.
LEMMA OtherRuns ==
    ASSUME SeedingIInv, RowsMove, NEW r \in SetupRuns,
           \A q \in SetupRuns \ {r} :
              /\ exact[q] \subseteq exact'[q]
              /\ at'[q] = at[q] /\ queue'[q] = queue[q] /\ seen'[q] = seen[q] /\ lacking'[q] = lacking[q]
    PROVE  \A q \in SetupRuns \ {r} : RunOK(q)'
    BY OtherRun

LEMMA StartStep ==
    ASSUME SeedingIInv, NEW r \in SetupRuns, Start(r)
    PROVE  RunOK(r)'
<1>1. /\ setup' = setup /\ rows' = rows /\ at'[r] = "check" /\ seen'[r] = <<>>
      /\ queue'[r] = Ordered(setup[r].wanted) /\ exact'[r] = {f \in Fixtures : Exact(r, f)}
    BY DEF Start, Go, Through, Forget, SeedingIInv, SeedingTypeOK, SeenOK
<1>2. InexactHasBad(r)'
    <2> SUFFICES ASSUME NEW f \in Fixtures, ~Exact(r, f) PROVE \E t \in Tables : Bad(r, f, t)
        BY <1>1 DEF InexactHasBad, Bad
    <2>1. rows[f] \in [Tables -> Versions \cup {Absent, Other, SharedRows}]
        BY DEF SeedingIInv, SeedingTypeOK
    <2>2. Generated(setup[r].version) \in [Tables -> Versions \cup {SharedRows}]
        BY RunSettings, GeneratedRows DEF SeedingIInv
    <2> QED
        BY <2>1, <2>2 DEF Exact, Bad
<1>3. BadIsAhead(r)' /\ NothingRead(r)'
    BY <1>1 DEF BadIsAhead, NothingRead
<1>4. Progress(r)'
    <2>1. setup[r].wanted \in SUBSET Fixtures
        BY RunSettings DEF SeedingIInv
    <2>2. setup[r].wanted \subseteq Listed(r)'
        BY <1>1, <2>1, OrderedLists DEF Listed
    <2> QED
        BY <1>1, <2>2 DEF Progress
<1> QED
    BY <1>2, <1>3, <1>4 DEF RunOK

\* A run that has read a fixture whole, and found what its generator makes, has seen it exact.
LEMMA MatchIsExact ==
    ASSUME SeedingIInv, NEW r \in SetupRuns, at[r] \in {"check", "recheck"}, queue[r] # <<>>, seen[r] # <<>>,
           HashMatches(r)
    PROVE  Subject(r) \in exact[r]
<1>1. seen[r] \in Seq(Versions \cup {Absent, Other, SharedRows, NoMeta})
    BY DEF SeedingIInv, SeenOK
<1>2. TablesRead(r) = [n \in {1, 2, 3} |-> Generated(setup[r].version)[SeededTables[n]]]
    BY SeededTablesAre DEF HashMatches
<1>3. DOMAIN TablesRead(r) = {1, 2, 3} /\ MatchedSoFar(r)
    BY <1>2 DEF MatchedSoFar
<1>4. DOMAIN TablesRead(r) = 1 .. Len(seen[r]) - 1 /\ Len(seen[r]) \in Nat
    BY <1>1 DEF TablesRead
<1>5. Len(seen[r]) = 4
    <2> DEFINE len == Len(seen[r])
    <2>1. len \in Nat /\ 1 .. len - 1 = {1, 2, 3}
        BY <1>3, <1>4
    <2> HIDE DEF len
    <2>2. 3 \in 1 .. len - 1 /\ 4 \notin 1 .. len - 1
        BY <2>1
    <2>3. len = 4
        BY <2>1, <2>2
    <2> QED
        BY <2>3 DEF len
<1>6. RunOK(r)
    BY DEF SeedingIInv
<1>7. ASSUME Subject(r) \notin exact[r]
      PROVE  \E n \in {2, 3} : n > 3
    BY <1>3, <1>5, <1>6, <1>7 DEF RunOK, BadIsAhead
<1> QED
    BY <1>7

LEMMA ReadTableStep ==
    ASSUME SeedingIInv, NEW r \in SetupRuns, ReadTable(r)
    PROVE  BadIsAhead(r)'
<1> SUFFICES ASSUME at[r] \in {"check", "recheck"}, MatchedSoFar(r)', Subject(r) \notin exact[r]
             PROVE  \E n \in {2, 3} : n > Len(seen'[r]) - 1 /\ Bad(r, Subject(r), SeededTables[n])
    BY DEF BadIsAhead, ReadTable, Database, Subject, Bad
<1> DEFINE n == Len(seen[r])
           row == rows[Subject(r)][SeededTables[n]]
<1>1. seen[r] \in Seq(Versions \cup {Absent, Other, SharedRows, NoMeta}) /\ queue[r] # <<>>
    BY DEF SeedingIInv, SeenOK, ReadTable, Reading
<1>2. n \in {1, 2, 3} /\ seen'[r] = Append(seen[r], row) /\ setup' = setup
    BY SeededTablesAre DEF ReadTable, SeedingIInv, SeenOK
<1>3. TablesRead(r)' = Append(TablesRead(r), row) /\ Len(TablesRead(r)) = n - 1
    BY <1>1, <1>2 DEF TablesRead
<1>4. TablesRead(r) \in Seq(Versions \cup {Absent, Other, SharedRows, NoMeta})
    BY <1>1, <1>2 DEF TablesRead
<1>5. MatchedSoFar(r)
    BY <1>2, <1>3, <1>4 DEF MatchedSoFar
<1>6. ~Bad(r, Subject(r), SeededTables[n])
    <2>1. n \in DOMAIN TablesRead(r)' /\ TablesRead(r)'[n] = row
        BY <1>2, <1>3, <1>4
    <2> QED
        BY <1>2, <2>1 DEF MatchedSoFar, Bad
<1>7. Len(seen'[r]) = n + 1
    BY <1>1, <1>2
<1> HIDE DEF n, row
<1>8. Subject(r) \in Fixtures
    BY <1>1 DEF SeedingIInv, SeedingTypeOK, Subject
<1>9. CASE n = 1
    <2>1. PICK t \in Tables : Bad(r, Subject(r), t)
        BY <1>8 DEF SeedingIInv, RunOK, InexactHasBad
    <2>2. PICK m \in {1, 2, 3} : t = SeededTables[m]
        BY SeededTablesAre
    <2> QED
        BY <1>6, <1>7, <1>9, <2>1, <2>2
<1>10. CASE n # 1
    <2>1. PICK m \in {2, 3} : m > n - 1 /\ Bad(r, Subject(r), SeededTables[m])
        BY <1>1, <1>2, <1>5, <1>10 DEF SeedingIInv, RunOK, BadIsAhead, n
    <2> QED
        BY <1>2, <1>6, <1>7, <2>1
<1> QED
    BY <1>9, <1>10

LEMMA ListedTail ==
    ASSUME SeedingTypeOK, NEW r \in SetupRuns, queue[r] # <<>>, queue'[r] = Tail(queue[r])
    PROVE  Listed(r) \subseteq {Subject(r)} \cup Listed(r)'
<1>1. queue[r] \in Seq(Fixtures)
    BY DEF SeedingTypeOK
<1>2. ASSUME NEW n \in DOMAIN queue[r], n # 1
      PROVE  n - 1 \in DOMAIN queue'[r] /\ queue'[r][n - 1] = queue[r][n]
    BY <1>1, <1>2
<1>3. queue[r][1] = Subject(r)
    BY <1>1 DEF Subject
<1> QED
    BY <1>2, <1>3 DEF Listed

LEMMA SeededNeedsNothing ==
    ASSUME NEW r \in SetupRuns, ~NeedsSeeding(r)
    PROVE  HashMatches(r)
    BY DEF NeedsSeeding, Status

LEMMA OwnStep ==
    ASSUME SeedingIInv, NEW r \in SetupRuns, SeedingStep(r) \/ Fault(r), RowsMove, exact[r] \subseteq exact'[r], ~Start(r)
    PROVE  RunOK(r)'
<1>1. RunOK(r) /\ setup'[r] = setup[r]
    BY DEF SeedingIInv, RowsMove
<1>2. InexactHasBad(r)'
    <2>1. at[r] # "off"
        BY DEF SeedingStep, ReadMeta, ReadTable, Describe, Checked, Create, KeepOrWrite, WriteRows, WriteFails, DeleteMeta,
               InsertMeta, Seeded, Recheck, Done, Fault, Reading, ReadAll
    <2> QED
        BY <2>1, <1>1, SomeBadStays DEF InexactHasBad, RunOK, SeedingIInv, Bad
<1> SUFFICES BadIsAhead(r)' /\ NothingRead(r)' /\ Progress(r)'
    BY <1>2 DEF RunOK
<1> USE DEF SeedingIInv, SeedingTypeOK, SeenOK, RunOK
<1>3. CASE ReadMeta(r)
    <2>1. /\ at' = at /\ queue' = queue /\ lacking' = lacking /\ seen'[r] = <<meta[Subject(r)]>> /\ Len(seen'[r]) = 1
          /\ exact' = exact /\ queue[r] # <<>> /\ at[r] \in {"check", "compare", "recheck"}
        BY <1>3 DEF ReadMeta, Reading, Database
    <2>2. Listed(r)' = Listed(r)
        BY <2>1 DEF Listed
    <2> QED
        BY <1>1, <2>1, <2>2 DEF BadIsAhead, NothingRead, Progress
<1>4. CASE ReadTable(r)
    <2>1. /\ at' = at /\ queue' = queue /\ lacking' = lacking
          /\ exact' = exact /\ queue[r] # <<>> /\ at[r] \in {"check", "compare", "recheck"}
        BY <1>4 DEF ReadTable, Reading, Database
    <2>2. Listed(r)' = Listed(r)
        BY <2>1 DEF Listed
    <2> QED
        BY <1>1, <1>4, <2>1, <2>2, ReadTableStep DEF NothingRead, Progress
<1>5. CASE Describe(r)
    <2>1. /\ at' = at /\ at[r] = "check" /\ queue[r] # <<>> /\ seen[r] # <<>> /\ queue'[r] = Tail(queue[r]) /\ seen'[r] = <<>>
          /\ exact' = exact /\ lacking'[r] = IF WillNotDo(r) THEN lacking[r] \cup {Subject(r)} ELSE lacking[r]
        BY <1>5 DEF Describe, ReadAll, Reading, NextFixture, Forget, Database
    <2>2. Listed(r) \subseteq {Subject(r)} \cup Listed(r)'
        BY <2>1, ListedTail
    <2>3. setup[r].mode # "lenient" => Subject(r) \in lacking'[r] \cup exact[r]
        BY <2>1, SeededNeedsNothing, MatchIsExact DEF WillNotDo
    <2>4. lacking[r] \subseteq lacking'[r]
        BY <2>1
    <2> QED
        BY <1>1, <2>1, <2>2, <2>3, <2>4 DEF BadIsAhead, NothingRead, Progress
<1>6. CASE Checked(r)
    <2>1. /\ at[r] = "check" /\ queue[r] = <<>> /\ exact' = exact /\ lacking' = lacking /\ seen' = seen
          /\ at'[r] = IF lacking[r] = {} THEN "usable" ELSE IF setup[r].mode = "seed" THEN "create" ELSE "failed"
        BY <1>6 DEF Checked, Go, Database
    <2>2. Listed(r) = {}
        BY <2>1 DEF Listed
    <2> QED
        BY <1>1, <2>1, <2>2 DEF BadIsAhead, NothingRead, Progress
<1>7. CASE Create(r)
    <2>1. at[r] = "create" /\ at'[r] = "compare" /\ exact' = exact /\ lacking' = lacking
        BY <1>7 DEF Create, Go
    <2> QED
        BY <1>1, <2>1 DEF BadIsAhead, NothingRead, Progress
<1>8. CASE KeepOrWrite(r)
    <2>1. /\ at[r] = "compare" /\ at'[r] \in {"create", "write", "failed"} /\ exact' = exact /\ lacking' = lacking
          /\ seen'[r] = <<>>
        BY <1>8 DEF KeepOrWrite, NextSeed, ToWrite, SeedFails, Go, Forget, Database
    <2> QED
        BY <1>1, <2>1 DEF BadIsAhead, NothingRead, Progress
<1>9. CASE WriteRows(r)
    <2>1. at[r] = "write" /\ at'[r] = "forgetMeta" /\ lacking' = lacking /\ seen' = seen
        BY <1>9 DEF WriteRows, Go
    <2> QED
        BY <1>1, <2>1 DEF BadIsAhead, NothingRead, Progress
<1>10. CASE WriteFails(r) \/ Fault(r)
    <2>1. at'[r] = "failed"
        BY <1>10 DEF WriteFails, Fault, SeedFails, Go
    <2> QED
        BY <2>1 DEF BadIsAhead, NothingRead, Progress
<1>11. CASE DeleteMeta(r)
    <2>1. at[r] = "forgetMeta" /\ at'[r] = "recordMeta" /\ exact' = exact /\ lacking' = lacking /\ seen' = seen
        BY <1>11 DEF DeleteMeta, Go
    <2> QED
        BY <1>1, <2>1 DEF BadIsAhead, NothingRead, Progress
<1>12. CASE InsertMeta(r)
    <2>1. at[r] = "recordMeta" /\ at'[r] \in {"create", "failed"} /\ exact' = exact /\ lacking' = lacking /\ seen' = seen
        BY <1>12 DEF InsertMeta, NextSeed, SeedFails, Go
    <2> QED
        BY <1>1, <2>1 DEF BadIsAhead, NothingRead, Progress
<1>13. CASE Seeded(r)
    <2>1. /\ at[r] = "create" /\ at'[r] = "recheck" /\ exact' = exact /\ seen' = seen
          /\ queue'[r] = Ordered(lacking[r])
        BY <1>13 DEF Seeded, Go, Through, Database
    <2>2. lacking[r] \subseteq Listed(r)'
        <3>1. lacking[r] \in SUBSET Fixtures
            <4>1. lacking \in [SetupRuns -> SUBSET Fixtures]
                BY DEF SeedingIInv, SeedingTypeOK
            <4> QED
                BY <4>1
        <3>2. \A f \in lacking[r] : \E n \in DOMAIN queue'[r] : queue'[r][n] = f
            <4>1. \A f \in lacking[r] : \E n \in DOMAIN Ordered(lacking[r]) : Ordered(lacking[r])[n] = f
                BY <3>1, OrderedLists
            <4>2. queue'[r] = Ordered(lacking[r])
                BY <2>1
            <4> QED
                BY <4>1, <4>2, Zenon
        <3> QED
            BY <3>1, <3>2 DEF Listed
    <2>3. seen'[r] = <<>>
        BY <1>1, <2>1 DEF NothingRead
    <2> QED
        BY <1>1, <2>1, <2>2, <2>3 DEF BadIsAhead, NothingRead, Progress
<1>14. CASE Recheck(r)
    <2>1. /\ at[r] = "recheck" /\ queue[r] # <<>> /\ seen[r] # <<>> /\ queue'[r] = Tail(queue[r]) /\ seen'[r] = <<>>
          /\ exact' = exact /\ at'[r] = IF NeedsSeeding(r) THEN "failed" ELSE "recheck"
        BY <1>14 DEF Recheck, ReadAll, Reading, NextFixture, Forget, Go, Database
    <2>2. Listed(r) \subseteq {Subject(r)} \cup Listed(r)'
        BY <2>1, ListedTail
    <2>3. ~NeedsSeeding(r) => Subject(r) \in exact[r]
        BY <2>1, SeededNeedsNothing, MatchIsExact
    <2> QED
        BY <1>1, <2>1, <2>2, <2>3 DEF BadIsAhead, NothingRead, Progress
<1>15. CASE Done(r)
    <2>1. at[r] = "recheck" /\ at'[r] = "usable" /\ queue[r] = <<>> /\ exact' = exact
        BY <1>15 DEF Done, Go, Database
    <2>2. Listed(r) = {}
        BY <2>1 DEF Listed
    <2> QED
        BY <1>1, <2>1, <2>2 DEF BadIsAhead, NothingRead, Progress
<1> QED
    BY <1>3, <1>4, <1>5, <1>6, <1>7, <1>8, <1>9, <1>10, <1>11, <1>12, <1>13, <1>14, <1>15 DEF SeedingStep

\* What a run's step leaves alone: the other runs' places, and what they have seen exact.
LEMMA RunStepFrame ==
    ASSUME SeedingIInv, NEW r \in SetupRuns, SeedingStep(r) \/ Fault(r)
    PROVE  /\ RowsMove
           /\ Start(r) \/ exact[r] \subseteq exact'[r]
           /\ \A q \in SetupRuns \ {r} :
                 /\ exact[q] \subseteq exact'[q]
                 /\ at'[q] = at[q] /\ queue'[q] = queue[q] /\ seen'[q] = seen[q] /\ lacking'[q] = lacking[q]
<1> USE DEF SeedingIInv
<1> DEFINE Elsewhere == \A q \in SetupRuns \ {r} :
                      at'[q] = at[q] /\ queue'[q] = queue[q] /\ seen'[q] = seen[q] /\ lacking'[q] = lacking[q]
<1>1. Elsewhere
    BY DEF SeedingTypeOK, SeenOK, SeedingStep, Start, ReadMeta, ReadTable, Describe, Checked, Create, KeepOrWrite, WriteRows,
           WriteFails, DeleteMeta, InsertMeta, Seeded, Recheck, Done, Fault, Go, Through, NextFixture, Forget, NextSeed,
           ToWrite, SeedFails, Database
<1>2. CASE Start(r)
    <2>1. setup' = setup /\ rows' = rows /\ \A q \in SetupRuns \ {r} : exact'[q] = exact[q]
        BY <1>2 DEF Start, SeedingTypeOK
    <2> QED
        BY <1>1, <1>2, <2>1, QuietMove
<1>3. CASE Create(r)
    <2>1. exact' = exact
        BY <1>3 DEF Create
    <2> QED
        BY <1>1, <1>3, <2>1, CreateMove
<1>4. CASE WriteRows(r)
    BY <1>1, <1>4, WriteMove
<1>5. CASE ~(Start(r) \/ Create(r) \/ WriteRows(r))
    <2>1. UNCHANGED <<setup, rows, exact>>
        BY <1>5 DEF SeedingStep, ReadMeta, ReadTable, Describe, Checked, KeepOrWrite, WriteFails, DeleteMeta, InsertMeta,
                    Seeded, Recheck, Done, Fault, Database
    <2> QED
        BY <1>1, <2>1, QuietMove
<1> QED
    BY <1>2, <1>3, <1>4, <1>5

LEMMA SeedingInitImpliesIInv == SeedingInit => SeedingIInv
<1> SUFFICES ASSUME SeedingInit PROVE SeedingIInv
    OBVIOUS
<1> USE DEF SeedingInit
<1>1. SeedingTypeOK /\ SeenOK
    BY SeedingAssumption DEF SeedingTypeOK, SeenOK
<1>2. \A r \in SetupRuns : RunOK(r)
    BY DEF RunOK, InexactHasBad, BadIsAhead, NothingRead, Progress
<1> QED
    BY <1>1, <1>2 DEF SeedingIInv

LEMMA SeedingInvariance == SeedingSpec => []SeedingIInv
<1>1. SeedingIInv /\ [SeedingNext]_seedingVars => SeedingIInv'
    <2> SUFFICES ASSUME SeedingIInv, [SeedingNext]_seedingVars PROVE SeedingIInv'
        OBVIOUS
    <2>1. CASE SeedingNext
        <3>1. SeedingTypeOK' /\ SeenOK'
            BY <2>1, TypeStep DEF SeedingIInv
        <3>2. ASSUME NEW r \in SetupRuns, SeedingStep(r) \/ Fault(r)
              PROVE  \A q \in SetupRuns : RunOK(q)'
            BY <3>2, RunStepFrame, OtherRuns, StartStep, OwnStep
        <3>3. ASSUME NEW f \in Fixtures, NEW t \in Tables, Edit(f, t)
              PROVE  \A q \in SetupRuns : RunOK(q)'
            <4>1. RowsMove
                BY <3>3, EditMove DEF SeedingIInv
            <4>2. UNCHANGED <<exact, at, queue, seen, lacking>>
                BY <3>3 DEF Edit
            <4> QED
                BY <4>1, <4>2, OtherRun
        <3> QED
            BY <2>1, <3>1, <3>2, <3>3 DEF SeedingNext, SeedingIInv
    <2>2. CASE UNCHANGED seedingVars
        BY <2>2 DEF seedingVars, SeedingIInv, SeedingTypeOK, SeenOK, RunOK, InexactHasBad, BadIsAhead, NothingRead, Progress,
                    Bad, MatchedSoFar, TablesRead, Subject, Listed
    <2> QED
        BY <2>1, <2>2
<1> QED
    BY <1>1, SeedingInitImpliesIInv, PTL DEF SeedingSpec

\* ensureFixtures: a run that goes on found every fixture it wants exact at some moment since it
\* began, although it reads the tables one by one while any number of runs and checkouts reseed
\* them and rows are edited.
THEOREM UsableFixturesAreExact == SeedingSpec => []UsableIsExact
<1>1. SeedingIInv => UsableIsExact
    BY DEF SeedingIInv, RunOK, Progress, UsableIsExact
<1> QED
    BY <1>1, SeedingInvariance, PTL

\* Every variable of the seeding keeps its type, whatever fails or is edited meanwhile.
THEOREM SeedingTypes == SeedingSpec => []SeedingTypeOK
<1>1. SeedingIInv => SeedingTypeOK
    BY DEF SeedingIInv
<1> QED
    BY <1>1, SeedingInvariance, PTL

-----------------------------------------------------------------------------
(* The freeze of the holdout.                                                *)

LEMMA LeastNumber ==
    ASSUME NEW S \in SUBSET Nat, S # {}
    PROVE  Min(S) \in S /\ \A k \in S : Min(S) <= k
    BY SmallestElement DEF Min

LEMMA GreatestNumber ==
    ASSUME NEW n \in Nat, NEW S \in SUBSET (1 .. n), S # {}
    PROVE  Max(S) \in S
<1> DEFINE Mirrored == {k \in Nat : n - k \in S}
<1>1. PICK s \in S : TRUE
    OBVIOUS
<1>2. n - s \in Mirrored
    BY <1>1
<1>3. Mirrored \in SUBSET Nat /\ Mirrored # {}
    BY <1>2
<1> HIDE DEF Mirrored
<1>4. PICK j \in Mirrored : \A k \in Mirrored : j <= k
    BY <1>3, LeastNumber
<1> USE DEF Mirrored
<1>5. \A k \in S : n - k \in Mirrored
    OBVIOUS
<1>6. \A k \in S : j <= n - k
    BY <1>4, <1>5
<1>7. n - j \in S /\ \A k \in S : n - j >= k
    BY <1>4, <1>6
<1> QED
    BY <1>7 DEF Max

\* A case of the holdout has a first and a last definition, and they are among its definitions.
LEMMA HeldCases ==
    ASSUME NEW files, AreDatasets(files), NEW id \in HoldoutIds(files)
    PROVE  /\ FirstOf(files, id) \in DefinitionsOf(files, id) /\ FirstOf(files, id) \in CaseRecords
           /\ LastOf(files, id) \in DefinitionsOf(files, id) /\ LastOf(files, id) \in CaseRecords
<1>1. Holding(files, id) \subseteq 1 .. Len(DatasetNames) /\ Holding(files, id) # {} /\ Len(DatasetNames) \in Nat
    BY FreezeAssumption DEF HoldoutIds, Holding
<1>2. Min(Holding(files, id)) \in Holding(files, id) /\ Max(Holding(files, id)) \in Holding(files, id)
    <2> DEFINE H == Holding(files, id)
               n == Len(DatasetNames)
    <2>1. n \in Nat /\ H \in SUBSET (1 .. n) /\ H \in SUBSET Nat /\ H # {}
        BY <1>1
    <2> HIDE DEF H, n
    <2>2. Min(H) \in H /\ Max(H) \in H
        BY <2>1, LeastNumber, GreatestNumber
    <2> QED
        BY <2>2 DEF H
<1>3. ASSUME NEW n \in Holding(files, id)
      PROVE  /\ files[DatasetNames[n]][id] \in DefinitionsOf(files, id)
             /\ files[DatasetNames[n]][id] \in CaseRecords
    <2>1. DatasetNames[n] \in Range(DatasetNames) /\ id \in DOMAIN files[DatasetNames[n]]
        BY <1>3 DEF Holding, Range
    <2>2. DOMAIN files = Range(DatasetNames) /\ IsFile(files[DatasetNames[n]], CaseRecords)
        BY <2>1 DEF AreDatasets
    <2> QED
        BY <2>1, <2>2 DEF DefinitionsOf, IsFile
<1> QED
    BY <1>2, <1>3 DEF FirstOf, LastOf

\* What an evaluation makes of a case is its definition, with its gold as it is quoted.
LEMMA CaseTells ==
    ASSUME NEW c \in CaseRecords, NEW e \in CaseRecords
    PROVE  MeasuredCase(c) = MeasuredCase(e) <=> CaseDefinition(c) = CaseDefinition(e) /\ c.gold.quoted = e.gold.quoted
<1>1. ASSUME NEW d \in CaseRecords
      PROVE  /\ MeasuredCase(d) = [split |-> d.split, question |-> d.question.words,
                                   gold |-> [words |-> d.gold.words, outside |-> "one", quoted |-> d.gold.quoted],
                                   labels |-> d.labels, pins |-> d.pins, intent |-> d.intent, notes |-> ""]
             /\ d.gold \in Texts
    <2>1. d.gold \in Texts
        BY DEF CaseRecords
    <2>2. Meant(d.gold) = [words |-> d.gold.words, outside |-> "one", quoted |-> d.gold.quoted]
        BY <2>1 DEF Meant, Texts
    <2>3. MeasuredCase(d) = [split |-> d.split, question |-> d.question.words, gold |-> Meant(d.gold),
                             labels |-> d.labels, pins |-> d.pins, intent |-> d.intent, notes |-> ""]
        <3> DEFINE first == [d EXCEPT !.question = d.question.words]
                   second == [first EXCEPT !.gold = Meant(d.gold)]
                   third == [second EXCEPT !.notes = ""]
        <3>1. MeasuredCase(d) = third
            BY DEF MeasuredCase
        <3>2. d = [split |-> d.split, question |-> d.question, gold |-> d.gold, labels |-> d.labels, pins |-> d.pins,
                   intent |-> d.intent, notes |-> d.notes]
            BY DEF CaseRecords
        <3>3. first = [split |-> d.split, question |-> d.question.words, gold |-> d.gold, labels |-> d.labels,
                       pins |-> d.pins, intent |-> d.intent, notes |-> d.notes]
            BY <3>2
        <3> HIDE DEF first
        <3>4. second = [split |-> d.split, question |-> d.question.words, gold |-> Meant(d.gold), labels |-> d.labels,
                        pins |-> d.pins, intent |-> d.intent, notes |-> d.notes]
            BY <3>3
        <3> HIDE DEF second
        <3> QED
            BY <3>1, <3>4
    <2> QED
        BY <2>1, <2>2, <2>3
<1>2. ASSUME NEW d \in CaseRecords, NEW m, m = MeasuredCase(d)
      PROVE  /\ m.split = d.split /\ m.question = d.question.words /\ m.labels = d.labels /\ m.pins = d.pins
             /\ m.intent = d.intent /\ m.gold.words = d.gold.words /\ m.gold.quoted = d.gold.quoted
    <2>1. m = [split |-> d.split, question |-> d.question.words,
               gold |-> [words |-> d.gold.words, outside |-> "one", quoted |-> d.gold.quoted],
               labels |-> d.labels, pins |-> d.pins, intent |-> d.intent, notes |-> ""]
        BY <1>1, <1>2
    <2> QED
        BY <2>1
<1>4. ASSUME MeasuredCase(c) = MeasuredCase(e)
      PROVE  CaseDefinition(c) = CaseDefinition(e) /\ c.gold.quoted = e.gold.quoted
    <2>1. /\ c.split = e.split /\ c.question.words = e.question.words /\ c.labels = e.labels /\ c.pins = e.pins
          /\ c.intent = e.intent /\ c.gold.words = e.gold.words /\ c.gold.quoted = e.gold.quoted
        BY <1>2, <1>4
    <2> QED
        BY <2>1 DEF CaseDefinition, NormalizeSqlText
<1>3. ASSUME CaseDefinition(c) = CaseDefinition(e), c.gold.quoted = e.gold.quoted
      PROVE  MeasuredCase(c) = MeasuredCase(e)
    <2>1. /\ c.question.words = e.question.words /\ c.gold.words = e.gold.words /\ c.split = e.split
          /\ c.labels = e.labels /\ c.pins = e.pins /\ c.intent = e.intent
        BY <1>3 DEF CaseDefinition, NormalizeSqlText
    <2> QED
        BY <1>1, <1>3, <2>1
<1> QED
    BY <1>3, <1>4

-----------------------------------------------------------------------------
\* What resolveCaseControls finds.
IsFound(found) ==
    /\ found \in [by : {"id", "intent", "none"}, stale : BOOLEAN, sql : SUBSET Texts]
    /\ found.by = "none" => found.stale = FALSE /\ found.sql = {}

FoundFingerprint(found) ==
    IF found.by = "none" THEN <<>> ELSE <<found.by, found.stale, {FreezeSqlText(s) : s \in found.sql}>>

LEMMA ControlsFound ==
    ASSUME NEW cs, IsFile(cs, ControlEntries), NEW id \in CaseIds, NEW c \in CaseRecords
    PROVE  /\ IsFound(ResolveCaseControls(id, c, cs))
           /\ ControlsFingerprint(id, c, cs) = FoundFingerprint(ResolveCaseControls(id, c, cs))
<1> DEFINE gold == NormalizeSqlText(c.gold)
           kin == {k \in DOMAIN cs : cs[k].intent = c.intent /\ cs[k].for = gold}
<1>1. \A k \in DOMAIN cs : cs[k].sql \in Texts
    BY DEF IsFile, ControlEntries
<1>2. kin # {} => Min(kin) \in kin
    BY LeastNumber, FreezeAssumption DEF IsFile
<1>3. kin # {} => cs[Min(kin)].sql \in Texts
    BY <1>1, <1>2
<1>4. IsFound(ResolveCaseControls(id, c, cs))
    <2>1. CASE id \in DOMAIN cs
        BY <1>1, <2>1 DEF ResolveCaseControls, IsFound
    <2>2. CASE id \notin DOMAIN cs /\ kin # {}
        BY <1>3, <2>2 DEF ResolveCaseControls, IsFound
    <2>3. CASE id \notin DOMAIN cs /\ kin = {}
        BY <2>3 DEF ResolveCaseControls, IsFound
    <2> QED
        BY <2>1, <2>2, <2>3
<1> QED
    BY <1>4 DEF ControlsFingerprint, FoundFingerprint

\* Only the intent and the gold of a case say which controls it has.
LEMMA ControlsOfDefinition ==
    ASSUME NEW cs, NEW id, NEW c, NEW e, CaseDefinition(c) = CaseDefinition(e)
    PROVE  ResolveCaseControls(id, c, cs) = ResolveCaseControls(id, e, cs)
<1>1. NormalizeSqlText(c.gold) = NormalizeSqlText(e.gold) /\ c.intent = e.intent
    BY DEF CaseDefinition
<1> QED
    BY <1>1 DEF ResolveCaseControls

LEMMA ControlsTell ==
    ASSUME NEW f, NEW g, IsFound(f), IsFound(g)
    PROVE  FoundFingerprint(f) = FoundFingerprint(g) <=> MeasuredControls(f) = MeasuredControls(g)
<1> DEFINE M(found) == {Meant(s) : s \in found.sql}
           Q(found) == {FreezeSqlText(s) : s \in found.sql}
<1>1. \A s \in Texts : Meant(s) = [words |-> s.words, outside |-> "one", quoted |-> s.quoted]
    BY DEF Meant, Texts
<1>2. \A s, t \in Texts : FreezeSqlText(s) = FreezeSqlText(t) <=> Meant(s) = Meant(t)
    BY <1>1 DEF FreezeSqlText
<1>3. f.sql \subseteq Texts /\ g.sql \subseteq Texts
    BY DEF IsFound
<1>4. M(f) = M(g) <=> Q(f) = Q(g)
    <2>1. M(f) = M(g) <=> /\ \A s \in f.sql : \E t \in g.sql : Meant(s) = Meant(t)
                          /\ \A t \in g.sql : \E s \in f.sql : Meant(s) = Meant(t)
        OBVIOUS
    <2>2. Q(f) = Q(g) <=> /\ \A s \in f.sql : \E t \in g.sql : FreezeSqlText(s) = FreezeSqlText(t)
                          /\ \A t \in g.sql : \E s \in f.sql : FreezeSqlText(s) = FreezeSqlText(t)
        OBVIOUS
    <2> QED
        BY <1>2, <1>3, <2>1, <2>2
<1>5. ASSUME NEW h, IsFound(h)
      PROVE  MeasuredControls(h) = [by |-> h.by, stale |-> h.stale, sql |-> M(h)]
    <2>1. h = [by |-> h.by, stale |-> h.stale, sql |-> h.sql]
        BY <1>5 DEF IsFound
    <2> QED
        BY <2>1 DEF MeasuredControls
<1>6. /\ f.by = "none" => M(f) = {} /\ f.stale = FALSE
      /\ g.by = "none" => M(g) = {} /\ g.stale = FALSE
    BY DEF IsFound
<1>7. /\ FoundFingerprint(f) = IF f.by = "none" THEN <<>> ELSE <<f.by, f.stale, Q(f)>>
      /\ FoundFingerprint(g) = IF g.by = "none" THEN <<>> ELSE <<g.by, g.stale, Q(g)>>
    BY DEF FoundFingerprint
<1> HIDE DEF M, Q
<1>8. MeasuredControls(f) = MeasuredControls(g) <=> f.by = g.by /\ f.stale = g.stale /\ M(f) = M(g)
    <2>1. /\ MeasuredControls(f) = [by |-> f.by, stale |-> f.stale, sql |-> M(f)]
          /\ MeasuredControls(g) = [by |-> g.by, stale |-> g.stale, sql |-> M(g)]
        BY <1>5
    <2> QED
        BY <2>1
<1>9. FoundFingerprint(f) = FoundFingerprint(g) <=>
          \/ f.by = "none" /\ g.by = "none"
          \/ f.by # "none" /\ f.by = g.by /\ f.stale = g.stale /\ Q(f) = Q(g)
    BY <1>7
<1> QED
    BY <1>4, <1>6, <1>8, <1>9

\* A manifest's entry tells what an evaluation makes of the case.
LEMMA EntryTells ==
    ASSUME NEW id, NEW in, NEW out, NEW l, NEW m, NEW cs, NEW ds
    PROVE  (\A x \in ComparedFields : HoldoutManifestEntry(id, l, in, cs)[x] = HoldoutManifestEntry(id, m, out, ds)[x])
           <=> /\ in = out /\ CaseDefinition(l) = CaseDefinition(m)
               /\ FreezeSqlText(l.gold) = FreezeSqlText(m.gold)
               /\ ControlsFingerprint(id, l, cs) = ControlsFingerprint(id, m, ds)
<1> DEFINE E == HoldoutManifestEntry(id, l, in, cs)
           F == HoldoutManifestEntry(id, m, out, ds)
<1>1. (\A x \in ComparedFields : E[x] = F[x]) <=>
          /\ E.datasets = F.datasets /\ E.intentId = F.intentId /\ E.question = F.question /\ E.scoring = F.scoring
          /\ E.measurement = F.measurement /\ E.definition = F.definition /\ E.controls = F.controls
    <2> HIDE DEF E, F
    <2> QED
        BY DEF ComparedFields
<1>2. /\ E.datasets = in /\ E.intentId = l.intent /\ E.question = NormalizeSqlText(l.question)
      /\ E.scoring = NormalizeSqlText(l.gold) /\ E.measurement = MeasurementFingerprint(l)
      /\ E.definition = DefinitionFingerprint(l) /\ E.controls = ControlsFingerprint(id, l, cs)
    BY DEF HoldoutManifestEntry
<1>3. /\ F.datasets = out /\ F.intentId = m.intent /\ F.question = NormalizeSqlText(m.question)
      /\ F.scoring = NormalizeSqlText(m.gold) /\ F.measurement = MeasurementFingerprint(m)
      /\ F.definition = DefinitionFingerprint(m) /\ F.controls = ControlsFingerprint(id, m, ds)
    BY DEF HoldoutManifestEntry
<1>4. DefinitionFingerprint(l) = DefinitionFingerprint(m) <=>
          CaseDefinition(l) = CaseDefinition(m) /\ FreezeSqlText(l.gold) = FreezeSqlText(m.gold)
    BY DEF DefinitionFingerprint
<1>5. CaseDefinition(l) = CaseDefinition(m) =>
          /\ l.intent = m.intent /\ NormalizeSqlText(l.question) = NormalizeSqlText(m.question)
          /\ NormalizeSqlText(l.gold) = NormalizeSqlText(m.gold) /\ MeasurementFingerprint(l) = MeasurementFingerprint(m)
    BY DEF CaseDefinition, MeasurementFingerprint
<1> HIDE DEF E, F
<1>6. (\A x \in ComparedFields : E[x] = F[x]) <=>
          /\ in = out /\ CaseDefinition(l) = CaseDefinition(m) /\ FreezeSqlText(l.gold) = FreezeSqlText(m.gold)
          /\ ControlsFingerprint(id, l, cs) = ControlsFingerprint(id, m, ds)
    BY <1>1, <1>2, <1>3, <1>4, <1>5
<1> QED
    BY <1>6 DEF E, F

LEMMA MeasureTells ==
    ASSUME NEW f, NEW g, AreDatasets(f), AreDatasets(g), NEW cs, NEW ds, IsFile(cs, ControlEntries), IsFile(ds, ControlEntries),
           NEW id \in HoldoutIds(f) \cap HoldoutIds(g), Agree(f, id), Agree(g, id)
    PROVE  (\A x \in ComparedFields : ComputeHoldoutEntries(f, cs)[id][x] = ComputeHoldoutEntries(g, ds)[id][x])
           <=> Measured(f, cs).holdout[id] = Measured(g, ds).holdout[id]
<1> DEFINE l == LastOf(f, id)
           m == LastOf(g, id)
           a == FirstOf(f, id)
           b == FirstOf(g, id)
<1>1. /\ l \in CaseRecords /\ m \in CaseRecords /\ a \in CaseRecords /\ b \in CaseRecords
      /\ l \in DefinitionsOf(f, id) /\ a \in DefinitionsOf(f, id) /\ m \in DefinitionsOf(g, id) /\ b \in DefinitionsOf(g, id)
      /\ id \in CaseIds
    BY HeldCases DEF HoldoutIds
<1>2. /\ ComputeHoldoutEntries(f, cs)[id] = HoldoutManifestEntry(id, l, DatasetsOf(f, id), cs)
      /\ ComputeHoldoutEntries(g, ds)[id] = HoldoutManifestEntry(id, m, DatasetsOf(g, id), ds)
    BY DEF ComputeHoldoutEntries
<1>3. /\ Measured(f, cs).holdout[id] =
             [in |-> DatasetsOf(f, id), case |-> MeasuredCase(a), controls |-> MeasuredControls(ResolveCaseControls(id, a, cs))]
      /\ Measured(g, ds).holdout[id] =
             [in |-> DatasetsOf(g, id), case |-> MeasuredCase(b), controls |-> MeasuredControls(ResolveCaseControls(id, b, ds))]
    BY DEF Measured
<1> HIDE DEF l, m, a, b
<1>4. /\ CaseDefinition(l) = CaseDefinition(a) /\ l.gold.quoted = a.gold.quoted
      /\ CaseDefinition(m) = CaseDefinition(b) /\ m.gold.quoted = b.gold.quoted
    BY <1>1 DEF Agree
<1>5. CaseDefinition(l) = CaseDefinition(m) =>
          (FreezeSqlText(l.gold) = FreezeSqlText(m.gold) <=> l.gold.quoted = m.gold.quoted)
    BY DEF CaseDefinition, NormalizeSqlText, FreezeSqlText
<1>6. MeasuredCase(a) = MeasuredCase(b) <=> CaseDefinition(l) = CaseDefinition(m) /\ l.gold.quoted = m.gold.quoted
    BY <1>1, <1>4, CaseTells
<1>7. ControlsFingerprint(id, l, cs) = ControlsFingerprint(id, m, ds) <=>
          MeasuredControls(ResolveCaseControls(id, a, cs)) = MeasuredControls(ResolveCaseControls(id, b, ds))
    <2>1. /\ ResolveCaseControls(id, l, cs) = ResolveCaseControls(id, a, cs)
          /\ ResolveCaseControls(id, m, ds) = ResolveCaseControls(id, b, ds)
        BY <1>4, ControlsOfDefinition
    <2>2. /\ IsFound(ResolveCaseControls(id, a, cs)) /\ IsFound(ResolveCaseControls(id, b, ds))
          /\ ControlsFingerprint(id, l, cs) = FoundFingerprint(ResolveCaseControls(id, a, cs))
          /\ ControlsFingerprint(id, m, ds) = FoundFingerprint(ResolveCaseControls(id, b, ds))
        BY <1>1, <2>1, ControlsFound
    <2> QED
        BY <2>2, ControlsTell
<1>8. (\A x \in ComparedFields : ComputeHoldoutEntries(f, cs)[id][x] = ComputeHoldoutEntries(g, ds)[id][x]) <=>
          /\ DatasetsOf(f, id) = DatasetsOf(g, id) /\ CaseDefinition(l) = CaseDefinition(m)
          /\ FreezeSqlText(l.gold) = FreezeSqlText(m.gold)
          /\ ControlsFingerprint(id, l, cs) = ControlsFingerprint(id, m, ds)
    BY <1>2, EntryTells
<1>9. Measured(f, cs).holdout[id] = Measured(g, ds).holdout[id] <=>
          /\ DatasetsOf(f, id) = DatasetsOf(g, id) /\ MeasuredCase(a) = MeasuredCase(b)
          /\ MeasuredControls(ResolveCaseControls(id, a, cs)) = MeasuredControls(ResolveCaseControls(id, b, ds))
    BY <1>3
<1> QED
    BY <1>5, <1>6, <1>7, <1>8, <1>9

\* The fingerprint of the entries leaves nothing out that a check compares.
LEMMA FingerprintTells ==
    ASSUME NEW e, NEW f
    PROVE  HoldoutEntriesFingerprint(e) = HoldoutEntriesFingerprint(f) <=>
               DOMAIN e = DOMAIN f /\ \A id \in DOMAIN e, x \in ComparedFields : e[id][x] = f[id][x]
<1>1. /\ HoldoutEntriesFingerprint(e) = [id \in DOMAIN e |-> [x \in ComparedFields |-> e[id][x]]]
      /\ HoldoutEntriesFingerprint(f) = [id \in DOMAIN f |-> [x \in ComparedFields |-> f[id][x]]]
    BY DEF HoldoutEntriesFingerprint, Fingerprinted, Restrict
<1>2. ASSUME HoldoutEntriesFingerprint(e) = HoldoutEntriesFingerprint(f)
      PROVE  DOMAIN e = DOMAIN f /\ \A id \in DOMAIN e, x \in ComparedFields : e[id][x] = f[id][x]
    <2>1. DOMAIN e = DOMAIN f
        BY <1>1, <1>2
    <2>2. \A id \in DOMAIN e : [x \in ComparedFields |-> e[id][x]] = [x \in ComparedFields |-> f[id][x]]
        BY <1>1, <1>2, <2>1
    <2>3. ASSUME NEW id \in DOMAIN e, NEW x \in ComparedFields
          PROVE  e[id][x] = f[id][x]
        <3>1. [y \in ComparedFields |-> e[id][y]][x] = [y \in ComparedFields |-> f[id][y]][x]
            BY <2>2
        <3> QED
            BY <3>1
    <2> QED
        BY <2>1, <2>3
<1>3. ASSUME DOMAIN e = DOMAIN f, \A id \in DOMAIN e, x \in ComparedFields : e[id][x] = f[id][x]
      PROVE  HoldoutEntriesFingerprint(e) = HoldoutEntriesFingerprint(f)
    BY <1>1, <1>3
<1> QED
    BY <1>2, <1>3

\* The holdout has the fingerprint it had if and only if an evaluation reads what it read.
LEMMA FreezeTells ==
    ASSUME NEW f, NEW g, AreDatasets(f), AreDatasets(g), NEW cs, NEW ds, IsFile(cs, ControlEntries), IsFile(ds, ControlEntries),
           Measured(f, cs).agreed, Measured(g, ds).agreed
    PROVE  HoldoutEntriesFingerprint(ComputeHoldoutEntries(f, cs)) = HoldoutEntriesFingerprint(ComputeHoldoutEntries(g, ds))
           <=> Measured(f, cs).holdout = Measured(g, ds).holdout
<1> DEFINE E == ComputeHoldoutEntries(f, cs)
           F == ComputeHoldoutEntries(g, ds)
           M == Measured(f, cs).holdout
           N == Measured(g, ds).holdout
<1>1. /\ DOMAIN E = HoldoutIds(f) /\ DOMAIN F = HoldoutIds(g) /\ DOMAIN M = HoldoutIds(f) /\ DOMAIN N = HoldoutIds(g)
      /\ M = [id \in HoldoutIds(f) |-> M[id]] /\ N = [id \in HoldoutIds(g) |-> N[id]]
    BY DEF ComputeHoldoutEntries, Measured
<1>2. (\A id \in HoldoutIds(f) : Agree(f, id)) /\ (\A id \in HoldoutIds(g) : Agree(g, id))
    BY DEF Measured
<1>3. ASSUME HoldoutIds(f) = HoldoutIds(g), NEW id \in HoldoutIds(f)
      PROVE  (\A x \in ComparedFields : E[id][x] = F[id][x]) <=> M[id] = N[id]
    BY <1>2, <1>3, MeasureTells
<1>4. HoldoutEntriesFingerprint(E) = HoldoutEntriesFingerprint(F) <=>
          HoldoutIds(f) = HoldoutIds(g) /\ \A id \in HoldoutIds(f) : \A x \in ComparedFields : E[id][x] = F[id][x]
    BY <1>1, FingerprintTells
<1> HIDE DEF E, F, M, N
<1>5. M = N <=> HoldoutIds(f) = HoldoutIds(g) /\ \A id \in HoldoutIds(f) : M[id] = N[id]
    BY <1>1
<1>6. HoldoutEntriesFingerprint(E) = HoldoutEntriesFingerprint(F) <=> M = N
    BY <1>3, <1>4, <1>5
<1> QED
    BY <1>6 DEF E, F, M, N

-----------------------------------------------------------------------------
(* The inductive invariant of the freeze: every note was written for a       *)
(* holdout there was, and a manifest that nobody edited is a right one.      *)

AllDatasets == [Range(DatasetNames) -> UNION {[ids -> CaseRecords] : ids \in SUBSET CaseIds}]
AllControls == UNION {[ids -> ControlEntries] : ids \in SUBSET CaseIds}
Written(f, cs, note) ==
    [fingerprint |-> HoldoutEntriesFingerprint(ComputeHoldoutEntries(f, cs)), note |-> note, of |-> Measured(f, cs)]
NoteTexts == {"", "why"}
Notes == {Written(w[1], w[2], w[3]) : w \in AllDatasets \X AllControls \X NoteTexts}

FilesTyped == AreDatasets(caseFiles) /\ IsFile(controlFile, ControlEntries)

ManifestTells ==
    /\ manifest = [version |-> manifest.version, entries |-> manifest.entries,
                   fingerprint |-> manifest.fingerprint, history |-> manifest.history]
    /\ manifest.history \in Seq(Notes)

IsRight(m) == m.version = 2 /\ m.fingerprint = HoldoutEntriesFingerprint(m.entries) /\ IsNoted(m)
RightUnlessEdited == handEdits = {} /\ manifest # NoManifest => IsRight(manifest)

SaidTrue ==
    /\ checkSaid = "ok" => CompareHoldoutManifest(manifest, Entries)
    /\ checkSaid = "problems" => ~CompareHoldoutManifest(manifest, Entries)

FreezeIInv == FilesTyped /\ ManifestTells /\ RightUnlessEdited /\ SaidTrue

LEMMA FilesAreSets ==
    /\ \A f : AreDatasets(f) <=> f \in AllDatasets
    /\ \A cs : IsFile(cs, ControlEntries) <=> cs \in AllControls
<1>1. ASSUME NEW file, NEW S
      PROVE  IsFile(file, S) <=> file \in UNION {[ids -> S] : ids \in SUBSET CaseIds}
    BY DEF IsFile
<1>2. \A f : AreDatasets(f) <=> f \in AllDatasets
    <2>1. ASSUME NEW f, AreDatasets(f)
          PROVE  f \in AllDatasets
        BY <1>1, <2>1 DEF AreDatasets, AllDatasets
    <2>2. ASSUME NEW f, f \in AllDatasets
          PROVE  AreDatasets(f)
        <3>1. DOMAIN f = Range(DatasetNames) /\ f = [d \in Range(DatasetNames) |-> f[d]]
            BY <2>2 DEF AllDatasets
        <3>2. \A d \in Range(DatasetNames) : IsFile(f[d], CaseRecords)
            BY <1>1, <2>2 DEF AllDatasets
        <3>3. \A d \in Range(DatasetNames) : f[d] \in Range(f)
            BY <3>1 DEF Range
        <3> QED
            BY <3>1, <3>2, <3>3 DEF AreDatasets
    <2> QED
        BY <2>1, <2>2
<1> QED
    BY <1>1, <1>2 DEF AllControls

LEMMA NoteTells ==
    ASSUME NEW h \in Notes
    PROVE  /\ \E f \in AllDatasets, cs \in AllControls :
                  /\ h.fingerprint = HoldoutEntriesFingerprint(ComputeHoldoutEntries(f, cs))
                  /\ h.of = Measured(f, cs)
           /\ [h EXCEPT !.note = ""] \in Notes
<1>1. PICK f \in AllDatasets, cs \in AllControls, note \in NoteTexts : h = Written(f, cs, note)
    BY DEF Notes
<1>2. [h EXCEPT !.note = ""] = Written(f, cs, "")
    <2> DEFINE fp == HoldoutEntriesFingerprint(ComputeHoldoutEntries(f, cs))
               of == Measured(f, cs)
               blank == ""
    <2>1. h = [fingerprint |-> fp, note |-> note, of |-> of] /\ Written(f, cs, "") = [fingerprint |-> fp, note |-> blank, of |-> of]
        BY <1>1 DEF Written
    <2>2. \A k, a, b, v, c : k = [fingerprint |-> a, note |-> b, of |-> v] =>
              [k EXCEPT !.note = c] = [fingerprint |-> a, note |-> c, of |-> v]
        OBVIOUS
    <2> HIDE DEF fp, of, blank
    <2>3. h = [fingerprint |-> fp, note |-> note, of |-> of]
        BY <2>1
    <2>4. [h EXCEPT !.note = blank] = [fingerprint |-> fp, note |-> blank, of |-> of]
        BY <2>2, <2>3
    <2> QED
        BY <2>1, <2>4 DEF blank
<1>3. <<f, cs, "">> \in AllDatasets \X AllControls \X NoteTexts
    BY DEF NoteTexts
<1>4. Written(f, cs, "") \in Notes
    <2> DEFINE w == <<f, cs, "">>
    <2>1. w[1] = f /\ w[2] = cs /\ w[3] = ""
        OBVIOUS
    <2> QED
        BY <1>3, <2>1 DEF Notes
<1>5. h.fingerprint = HoldoutEntriesFingerprint(ComputeHoldoutEntries(f, cs)) /\ h.of = Measured(f, cs)
    BY <1>1 DEF Written
<1> QED
    BY <1>2, <1>4, <1>5

LEMMA LastAppended ==
    ASSUME NEW S, NEW s \in Seq(S), NEW e
    PROVE  Append(s, e) # <<>> /\ Last(Append(s, e)) = e /\ (e \in S => Append(s, e) \in Seq(S))
<1>1. s \in Seq(S \cup {e})
    BY SeqMonotonic
<1>2. /\ Append(s, e) \in Seq(S \cup {e}) /\ Len(Append(s, e)) = Len(s) + 1 /\ Append(s, e)[Len(s) + 1] = e
      /\ Len(s) \in Nat
    BY <1>1
<1> QED
    BY <1>2 DEF Last

LEMMA NoteWritten ==
    ASSUME NEW f, NEW cs, AreDatasets(f), IsFile(cs, ControlEntries), NEW note \in NoteTexts
    PROVE  Written(f, cs, note) \in Notes
<1>1. <<f, cs, note>> \in AllDatasets \X AllControls \X NoteTexts
    BY FilesAreSets
<1> QED
    BY <1>1 DEF Notes

\* A manifest that agrees with the holdout, and whose note was written for it, is what a check takes.
LEMMA CheckTells ==
    ASSUME FreezeIInv, manifest.history # <<>>, MeasuredNow.agreed, Last(manifest.history).of.agreed
    PROVE  /\ CompareHoldoutManifest(manifest, Entries) => MeasuredNow.holdout = Last(manifest.history).of.holdout
           /\ IsRight(manifest) /\ manifest # NoManifest /\ MeasuredNow.holdout = Last(manifest.history).of.holdout =>
                  CompareHoldoutManifest(manifest, Entries)
<1> DEFINE h == Last(manifest.history)
<1>1. h \in Notes
    BY DEF FreezeIInv, ManifestTells, Last
<1>2. PICK f \in AllDatasets, cs \in AllControls :
          /\ h.fingerprint = HoldoutEntriesFingerprint(ComputeHoldoutEntries(f, cs))
          /\ h.of = Measured(f, cs)
    BY <1>1, NoteTells
<1>3. AreDatasets(f) /\ IsFile(cs, ControlEntries) /\ AreDatasets(caseFiles) /\ IsFile(controlFile, ControlEntries)
    BY FilesAreSets DEF FreezeIInv, FilesTyped
<1> HIDE DEF h
<1>4. Measured(f, cs).agreed /\ Measured(caseFiles, controlFile).agreed
    BY <1>2 DEF MeasuredNow, h
<1>5. h.fingerprint = HoldoutEntriesFingerprint(Entries) <=> h.of.holdout = MeasuredNow.holdout
    BY <1>2, <1>3, <1>4, FreezeTells DEF Entries, MeasuredNow
<1>6. HoldoutEntriesFingerprint(manifest.entries) = HoldoutEntriesFingerprint(Entries) <=>
          /\ DOMAIN manifest.entries = DOMAIN Entries
          /\ \A id \in DOMAIN Entries, x \in ComparedFields : manifest.entries[id][x] = Entries[id][x]
    BY FingerprintTells
<1> QED
    BY <1>5, <1>6 DEF CompareHoldoutManifest, IsRight, IsNoted, h

LEMMA FreezeIsHeld ==
    ASSUME FreezeIInv
    PROVE  FreezeHolds
<1> DEFINE noted == Last(manifest.history).of
<1>1. ASSUME checkSaid = "ok", MeasuredNow.agreed, noted.agreed
      PROVE  MeasuredNow.holdout = noted.holdout
    <2>1. CompareHoldoutManifest(manifest, Entries) /\ manifest.history # <<>>
        BY <1>1 DEF FreezeIInv, SaidTrue, CompareHoldoutManifest, IsNoted
    <2> QED
        BY <1>1, <2>1, CheckTells
<1>2. ASSUME checkSaid = "problems", manifest # NoManifest, handEdits = {}, MeasuredNow.agreed, noted.agreed
      PROVE  MeasuredNow.holdout # noted.holdout
    <2>1. ~CompareHoldoutManifest(manifest, Entries) /\ IsRight(manifest) /\ manifest.history # <<>>
        BY <1>2 DEF FreezeIInv, SaidTrue, RightUnlessEdited, IsRight, IsNoted
    <2> QED
        BY <1>2, <2>1, CheckTells
<1>3. ASSUME ~(manifest.history # <<>> /\ Last(manifest.history).note = "")
      PROVE  \E note \in {"", "why"} :
                 /\ MayBuild(manifest, Entries, note)
                 /\ CompareHoldoutManifest(BuildHoldoutManifest(manifest, Entries, note, <<>>), Entries)
    <2> DEFINE note == IF Unchanged(manifest, Entries) THEN "" ELSE "why"
               fp == HoldoutEntriesFingerprint(Entries)
               new == [fingerprint |-> fp, note |-> note, of |-> <<>>]
               history == IF Unchanged(manifest, Entries) THEN manifest.history ELSE Append(manifest.history, new)
               b == BuildHoldoutManifest(manifest, Entries, note, <<>>)
    <2>1. MayBuild(manifest, Entries, note)
        BY DEF MayBuild
    <2>2. b.version = 2 /\ b.entries = Entries /\ b.fingerprint = fp /\ b.history = history
        BY DEF BuildHoldoutManifest
    <2>3. history # <<>> /\ Last(history).fingerprint = fp /\ Last(history).note # ""
        <3>1. CASE Unchanged(manifest, Entries)
            BY <1>3, <3>1 DEF Unchanged
        <3>2. CASE ~Unchanged(manifest, Entries)
            <4>1. Append(manifest.history, new) # <<>> /\ Last(Append(manifest.history, new)) = new
                BY LastAppended DEF FreezeIInv, ManifestTells
            <4>2. history = Append(manifest.history, new) /\ note = "why" /\ new.fingerprint = fp /\ new.note = note
                BY <3>2
            <4> HIDE DEF new, history, note, fp
            <4> QED
                BY <4>1, <4>2
        <3> QED
            BY <3>1, <3>2
    <2>4. b # NoManifest
        <3>1. NoManifest.version = 0
            BY DEF NoManifest
        <3> HIDE DEF b
        <3> QED
            BY <2>2, <3>1
    <2> HIDE DEF b, history, fp
    <2>5. CompareHoldoutManifest(b, Entries)
        BY <2>2, <2>3, <2>4 DEF CompareHoldoutManifest, IsNoted, fp
    <2> QED
        BY <2>1, <2>5 DEF b
<1> QED
    BY <1>1, <1>2, <1>3 DEF FreezeHolds

-----------------------------------------------------------------------------
LEMMA FreezeInitSound ==
    ASSUME FreezeInit
    PROVE  FreezeIInv
<1>1. FilesTyped
    BY FreezeAssumption DEF FreezeInit, FilesTyped
<1>2. ManifestTells
    <2>1. NoManifest.history = <<>> /\ NoManifest.version = 0 /\ NoManifest.entries = <<>> /\ NoManifest.fingerprint = <<>>
        BY DEF NoManifest
    <2>2. manifest = NoManifest /\ <<>> \in Seq(Notes)
        BY EmptySeq DEF FreezeInit
    <2> QED
        BY <2>1, <2>2 DEF ManifestTells, NoManifest
<1>3. RightUnlessEdited /\ SaidTrue
    BY DEF FreezeInit, RightUnlessEdited, SaidTrue
<1> QED
    BY <1>1, <1>2, <1>3 DEF FreezeIInv

\* An edit of the files.
LEMMA FilesEdited ==
    ASSUME FreezeIInv, FilesTyped', UNCHANGED <<manifest, handEdits>>, Edited
    PROVE  FreezeIInv'
BY DEF FreezeIInv, ManifestTells, RightUnlessEdited, SaidTrue, Edited

LEMMA EditCaseSound ==
    ASSUME FreezeIInv, NEW id, NEW where, NEW edit \in CaseEdits, EditCase(id, edit, where)
    PROVE  FilesTyped'
<1>1. ASSUME NEW c \in CaseRecords
      PROVE  [c EXCEPT ![edit[1]] = edit[2]] \in CaseRecords
    <2>1. \/ edit[1] \in {"split", "labels", "pins", "intent", "notes"} /\ edit[2] \in Values
          \/ edit[1] \in {"question", "gold"} /\ edit[2] \in Texts
        BY FreezeAssumption
    <2> HIDE DEF Texts
    <2> QED
        BY <2>1 DEF CaseRecords
<1>2. AreDatasets(caseFiles) /\ controlFile' = controlFile /\ IsFile(controlFile, ControlEntries)
    BY DEF FreezeIInv, FilesTyped, EditCase
<1>3. DOMAIN caseFiles = Range(DatasetNames) /\ \A d \in Range(DatasetNames) : IsFile(caseFiles[d], CaseRecords)
    BY <1>2 DEF AreDatasets
<1>4. ASSUME NEW d \in where, NEW file, IsFile(file, CaseRecords), id \in DOMAIN file
      PROVE  IsFile([file EXCEPT ![id][edit[1]] = edit[2]], CaseRecords)
    <2>1. [file EXCEPT ![id][edit[1]] = edit[2]] = [file EXCEPT ![id] = [file[id] EXCEPT ![edit[1]] = edit[2]]]
        OBVIOUS
    <2>2. file[id] \in CaseRecords
        BY <1>4 DEF IsFile
    <2>3. [file[id] EXCEPT ![edit[1]] = edit[2]] \in CaseRecords
        BY <1>1, <2>2
    <2> QED
        BY <1>4, <2>1, <2>3 DEF IsFile
<1>5. caseFiles' = [d \in Range(DatasetNames) |->
                       IF d \in where THEN [caseFiles[d] EXCEPT ![id][edit[1]] = edit[2]] ELSE caseFiles[d]]
    BY <1>3 DEF EditCase
<1>6. \A d \in where : id \in DOMAIN caseFiles[d]
    BY DEF EditCase
<1>7. \A d \in Range(DatasetNames) : IsFile(caseFiles'[d], CaseRecords)
    BY <1>3, <1>4, <1>5, <1>6
<1>8. \A d \in Range(DatasetNames) : caseFiles'[d] \in Range(caseFiles')
    BY <1>5 DEF Range
<1>9. AreDatasets(caseFiles')
    BY <1>5, <1>7, <1>8 DEF AreDatasets
<1> QED
    BY <1>2, <1>9 DEF FilesTyped

\* A file with an entry less, or with another entry.
LEMMA FileChanged ==
    ASSUME NEW S, NEW file, IsFile(file, S), NEW id
    PROVE  /\ IsFile(Restrict(file, DOMAIN file \ {id}), S)
           /\ \A e \in S : id \in CaseIds => IsFile(Put(file, id, e), S)
<1>1. IsFile(Restrict(file, DOMAIN file \ {id}), S)
    BY DEF IsFile, Restrict
<1>2. ASSUME NEW e \in S, id \in CaseIds
      PROVE  IsFile(Put(file, id, e), S)
    BY <1>2 DEF IsFile, Put
<1> QED
    BY <1>1, <1>2

LEMMA DatasetChanged ==
    ASSUME AreDatasets(caseFiles), NEW d \in DOMAIN caseFiles, NEW file, IsFile(file, CaseRecords),
           caseFiles' = [caseFiles EXCEPT ![d] = file]
    PROVE  AreDatasets(caseFiles')
<1>1. DOMAIN caseFiles = Range(DatasetNames) /\ \A e \in Range(DatasetNames) : IsFile(caseFiles[e], CaseRecords)
    BY DEF AreDatasets
<1>2. caseFiles' = [e \in Range(DatasetNames) |-> IF e = d THEN file ELSE caseFiles[e]]
    BY <1>1
<1>3. \A e \in Range(DatasetNames) : IsFile(caseFiles'[e], CaseRecords) /\ caseFiles'[e] \in Range(caseFiles')
    BY <1>1, <1>2 DEF Range
<1> QED
    BY <1>2, <1>3 DEF AreDatasets

LEMMA MoveCaseSound ==
    ASSUME FreezeIInv, NEW d \in DOMAIN caseFiles, NEW e \in DOMAIN caseFiles, NEW id,
           RemoveCase(id, d) \/ CopyCase(id, d, e)
    PROVE  FilesTyped'
<1>1. AreDatasets(caseFiles) /\ controlFile' = controlFile /\ IsFile(controlFile, ControlEntries)
    BY DEF FreezeIInv, FilesTyped, RemoveCase, CopyCase
<1>2. IsFile(caseFiles[d], CaseRecords) /\ IsFile(caseFiles[e], CaseRecords)
    BY <1>1 DEF AreDatasets
<1>3. CASE RemoveCase(id, d)
    <2>1. caseFiles' = [caseFiles EXCEPT ![d] = Restrict(caseFiles[d], DOMAIN caseFiles[d] \ {id})]
        BY <1>3 DEF RemoveCase
    <2>2. IsFile(Restrict(caseFiles[d], DOMAIN caseFiles[d] \ {id}), CaseRecords)
        BY <1>2, FileChanged
    <2> QED
        BY <1>1, <2>1, <2>2, DatasetChanged DEF FilesTyped
<1>4. CASE CopyCase(id, d, e)
    <2>1. id \in DOMAIN caseFiles[d] /\ caseFiles' = [caseFiles EXCEPT ![e] = Put(caseFiles[e], id, caseFiles[d][id])]
        BY <1>4 DEF CopyCase
    <2>2. caseFiles[d][id] \in CaseRecords /\ id \in CaseIds
        BY <1>2, <2>1 DEF IsFile
    <2>3. IsFile(Put(caseFiles[e], id, caseFiles[d][id]), CaseRecords)
        BY <1>2, <2>2, FileChanged
    <2> QED
        BY <1>1, <2>1, <2>3, DatasetChanged DEF FilesTyped
<1> QED
    BY <1>3, <1>4

LEMMA EditControlsSound ==
    ASSUME FreezeIInv, NEW edit \in ControlEdits, EditControls(edit)
    PROVE  FilesTyped'
<1>1. AreDatasets(caseFiles) /\ caseFiles' = caseFiles /\ IsFile(controlFile, ControlEntries)
    BY DEF FreezeIInv, FilesTyped, EditControls
<1>2. edit[1] \in CaseIds /\ (edit[2] \in ControlEntries \/ edit[2] = NoControls)
    BY FreezeAssumption
<1>3. IsFile(controlFile', ControlEntries)
    <2>1. CASE edit[2] = NoControls
        BY <1>1, <2>1, FileChanged DEF EditControls
    <2>2. CASE edit[2] # NoControls
        BY <1>1, <1>2, <2>2, FileChanged DEF EditControls
    <2> QED
        BY <2>1, <2>2
<1> QED
    BY <1>1, <1>3 DEF FilesTyped

LEMMA EditManifestSound ==
    ASSUME FreezeIInv, NEW what \in {"entries", "fingerprint", "version", "drop", "blank"}, EditManifest(what)
    PROVE  FreezeIInv'
<1>1. FilesTyped' /\ RightUnlessEdited' /\ SaidTrue'
    BY DEF FreezeIInv, FilesTyped, RightUnlessEdited, SaidTrue, EditManifest, Edited
<1> DEFINE history == manifest.history
<1>2. history \in Seq(Notes) /\ Len(history) \in Nat /\ DOMAIN history = 1 .. Len(history)
    BY DEF FreezeIInv, ManifestTells
<1>3. manifest = [version |-> manifest.version, entries |-> manifest.entries,
                  fingerprint |-> manifest.fingerprint, history |-> history]
    BY DEF FreezeIInv, ManifestTells
<1> DEFINE blanked == [i \in DOMAIN history |-> IF i = Len(history) THEN [history[i] EXCEPT !.note = ""] ELSE history[i]]
           dropped == SubSeq(history, 1, Len(history) - 1)
<1>4. blanked \in Seq(Notes)
    <2>1. \A i \in 1 .. Len(history) : history[i] \in Notes /\ [history[i] EXCEPT !.note = ""] \in Notes
        <3>1. \A h \in Notes : [h EXCEPT !.note = ""] \in Notes
            BY NoteTells
        <3>2. \A i \in 1 .. Len(history) : history[i] \in Notes
            BY <1>2
        <3> QED
            BY <3>1, <3>2
    <2> DEFINE n == Len(history)
               e(i) == IF i = n THEN [history[i] EXCEPT !.note = ""] ELSE history[i]
    <2>2. n \in Nat /\ blanked = [i \in 1 .. n |-> e(i)] /\ \A i \in 1 .. n : e(i) \in Notes
        BY <1>2, <2>1
    <2> HIDE DEF e, n, blanked
    <2> QED
        BY <2>2
<1>5. dropped \in Seq(Notes)
    <2>1. \A i \in 1 .. Len(history) - 1 : history[i] \in Notes
        BY <1>2
    <2>2. Len(history) - 1 \in Int
        BY <1>2
    <2> QED
        BY <2>1, <2>2, SubSeqProperties
<1>6. \/ manifest' = [manifest EXCEPT !.entries = Entries]
      \/ manifest' = [manifest EXCEPT !.fingerprint = HoldoutEntriesFingerprint(Entries)]
      \/ manifest' = [manifest EXCEPT !.version = 1]
      \/ manifest' = [manifest EXCEPT !.history = dropped]
      \/ manifest' = [manifest EXCEPT !.history = blanked]
    BY DEF EditManifest
<1> HIDE DEF history, blanked, dropped
<1>7. manifest'.history \in {history, dropped, blanked}
    BY <1>3, <1>6
<1>8. manifest' = [version |-> manifest'.version, entries |-> manifest'.entries,
                   fingerprint |-> manifest'.fingerprint, history |-> manifest'.history]
    BY <1>3, <1>6
<1>9. ManifestTells'
    BY <1>2, <1>4, <1>5, <1>7, <1>8 DEF ManifestTells
<1> QED
    BY <1>1, <1>9 DEF FreezeIInv

LEMMA CheckManifestSound ==
    ASSUME FreezeIInv, CheckManifest
    PROVE  FreezeIInv'
BY DEF FreezeIInv, FilesTyped, ManifestTells, RightUnlessEdited, SaidTrue, CheckManifest, Entries

LEMMA WriteManifestSound ==
    ASSUME FreezeIInv, NEW note \in {"", "why"}, WriteManifest(note)
    PROVE  FreezeIInv'
<1> DEFINE fp == HoldoutEntriesFingerprint(Entries)
           new == [fingerprint |-> fp, note |-> note, of |-> MeasuredNow]
           history == IF Unchanged(manifest, Entries) THEN manifest.history ELSE Append(manifest.history, new)
<1>1. manifest' = [version |-> 2, entries |-> Entries, fingerprint |-> fp, history |-> history]
    BY DEF WriteManifest, BuildHoldoutManifest
<1>2. manifest.history \in Seq(Notes) /\ AreDatasets(caseFiles) /\ IsFile(controlFile, ControlEntries)
    BY DEF FreezeIInv, ManifestTells, FilesTyped
<1>3. new \in Notes
    <2>1. Written(caseFiles, controlFile, note) \in Notes
        BY <1>2, NoteWritten DEF NoteTexts
    <2> QED
        BY <2>1 DEF Written, Entries, MeasuredNow
<1>4. history \in Seq(Notes) /\ history # <<>> /\ Last(history).fingerprint = fp
    <2>1. CASE Unchanged(manifest, Entries)
        BY <1>2, <2>1 DEF Unchanged
    <2>2. CASE ~Unchanged(manifest, Entries)
        <3>1. /\ Append(manifest.history, new) \in Seq(Notes) /\ Append(manifest.history, new) # <<>>
              /\ Last(Append(manifest.history, new)) = new
            BY <1>2, <1>3, LastAppended
        <3>2. history = Append(manifest.history, new) /\ new.fingerprint = fp
            BY <2>2
        <3> HIDE DEF new, history, fp
        <3> QED
            BY <3>1, <3>2
    <2> QED
        BY <2>1, <2>2
<1>5. /\ handEdits' = IF Last(manifest'.history).note = "" THEN {"blank"} ELSE {}
      /\ checkSaid' = "" /\ UNCHANGED <<caseFiles, controlFile>>
    BY DEF WriteManifest
<1> HIDE DEF history, fp
<1>6. manifest'.version = 2 /\ manifest'.entries = Entries /\ manifest'.fingerprint = fp /\ manifest'.history = history
    BY <1>1
<1>7. ManifestTells'
    BY <1>1, <1>4, <1>6 DEF ManifestTells
<1>8. handEdits' = {} => IsRight(manifest')
    BY <1>4, <1>5, <1>6 DEF IsRight, IsNoted, fp
<1>9. FilesTyped' /\ SaidTrue' /\ RightUnlessEdited'
    BY <1>2, <1>5, <1>8 DEF FilesTyped, SaidTrue, RightUnlessEdited
<1> QED
    BY <1>7, <1>9 DEF FreezeIInv

-----------------------------------------------------------------------------
\* Every note was written for a holdout there was, and a manifest that nobody edited since it was
\* written is a right one, after any edits of the datasets, the controls and the manifest.
THEOREM FreezeInvariance == FreezeSpec => []FreezeIInv
<1>1. FreezeInit => FreezeIInv
    BY FreezeInitSound
<1>2. FreezeIInv /\ [FreezeNext]_freezeVars => FreezeIInv'
    <2> SUFFICES ASSUME FreezeIInv, [FreezeNext]_freezeVars
                 PROVE  FreezeIInv'
        OBVIOUS
    <2>1. CASE UNCHANGED freezeVars
        BY <2>1 DEF freezeVars, FreezeIInv, FilesTyped, ManifestTells, RightUnlessEdited, SaidTrue, Entries
    <2>2. ASSUME NEW id, NEW d \in DOMAIN caseFiles, NEW e \in DOMAIN caseFiles, NEW edit \in CaseEdits,
                 EditCase(id, edit, {d, e})
          PROVE  FreezeIInv'
        BY <2>2, EditCaseSound, FilesEdited DEF EditCase
    <2>3. ASSUME NEW id, NEW d \in DOMAIN caseFiles, NEW e \in DOMAIN caseFiles, RemoveCase(id, d) \/ CopyCase(id, d, e)
          PROVE  FreezeIInv'
        BY <2>3, MoveCaseSound, FilesEdited DEF RemoveCase, CopyCase
    <2>4. ASSUME NEW edit \in ControlEdits, EditControls(edit)
          PROVE  FreezeIInv'
        BY <2>4, EditControlsSound, FilesEdited DEF EditControls
    <2>5. ASSUME NEW what \in {"entries", "fingerprint", "version", "drop", "blank"}, EditManifest(what)
          PROVE  FreezeIInv'
        BY <2>5, EditManifestSound
    <2>6. CASE CheckManifest \/ \E note \in {"", "why"} : WriteManifest(note)
        BY <2>6, CheckManifestSound, WriteManifestSound
    <2> QED
        BY <2>1, <2>2, <2>3, <2>4, <2>5, <2>6 DEF FreezeNext
<1> QED
    BY <1>1, <1>2, PTL DEF FreezeSpec

\* A check passes only for the holdout that the last note was written for, and complains only of a
\* difference or of a manifest edited by hand; one of the two forms of --write puts things right.
THEOREM FreezeIsKept == FreezeSpec => []FreezeHolds
<1>1. FreezeIInv => FreezeHolds
    BY FreezeIsHeld
<1> QED
    BY <1>1, FreezeInvariance, PTL

-----------------------------------------------------------------------------
(* The shared gold rows.                                                     *)

GoldTyped ==
    /\ run \in [Calls -> {"none", "running", "rows", "failed", "cut"}]
    /\ goldPc \in [Calls -> {"loop", "waiting", "rows", "error"}]
    /\ pending \in [Calls -> Calls \cup {NoCall}]
    /\ cache \in [{Key(c) : c \in Calls} -> Calls \cup {NoCall}]

\* An entry is the run of a call for that query, and can still succeed.
EntriesLive ==
    \A k \in DOMAIN cache : cache[k] # NoCall => Key(cache[k]) = k /\ run[cache[k]] \in {"running", "rows"}

\* A call that started a run waits for no other, before or after.
RunOnce == \A c \in Calls : run[c] # "none" => pending[c] = c /\ goldPc[c] # "loop"

\* A run awaited or awaited once was for the same query, and has been started.
AwaitsOwnQuery ==
    \A c \in Calls : pending[c] # NoCall => run[pending[c]] # "none" /\ Key(pending[c]) = Key(c)
Waits == \A c \in Calls : goldPc[c] \in {"waiting", "rows"} => pending[c] # NoCall

CutByOwner == \A c \in Calls : run[c] = "cut" => Owner(c) \in aborted
FailuresOwn == \A c \in Calls : goldPc[c] = "error" => OwnFailure(c)
RowsOwn == \A c \in Calls : goldPc[c] = "rows" => run[pending[c]] = "rows"

GoldIInv ==
    GoldTyped /\ EntriesLive /\ RunOnce /\ AwaitsOwnQuery /\ Waits /\ CutByOwner /\ FailuresOwn /\ RowsOwn

LEMMA GoldInitSound == GoldInit => GoldIInv
    BY GoldAssumption DEF GoldInit, GoldIInv, GoldTyped, EntriesLive, RunOnce, AwaitsOwnQuery, Waits, CutByOwner,
                          FailuresOwn, RowsOwn

LEMMA StartRunSound ==
    ASSUME GoldIInv, NEW c \in Calls, StartRun(c)
    PROVE  GoldIInv'
<1> USE GoldAssumption DEF GoldIInv, Key, Signal, Owner
<1>1. run[c] = "none" /\ run'[c] = "running" /\ \A d \in Calls \ {c} : run'[d] = run[d]
    BY DEF StartRun, GoldTyped, RunOnce
<1>2. Key(c) \in DOMAIN cache
    BY DEF GoldTyped
<1>3. GoldTyped'
    BY <1>2 DEF StartRun, GoldTyped
<1>4. EntriesLive'
    BY <1>1, <1>2 DEF StartRun, GoldTyped, EntriesLive
<1>5. RunOnce' /\ Waits'
    BY <1>1 DEF StartRun, GoldTyped, RunOnce, Waits
<1>6. AwaitsOwnQuery'
    BY <1>1 DEF StartRun, GoldTyped, AwaitsOwnQuery
<1>7. CutByOwner'
    BY <1>1 DEF StartRun, GoldTyped, CutByOwner
<1>8. \A d \in Calls : goldPc[d] \in {"rows", "error"} => d # c /\ goldPc'[d] = goldPc[d] /\ pending'[d] = pending[d]
    BY DEF StartRun, GoldTyped
<1>9. \A d \in Calls : goldPc'[d] \in {"rows", "error"} => goldPc[d] = goldPc'[d] /\ d # c
    BY DEF StartRun, GoldTyped
<1>10. \A d \in Calls : run[pending[d]] \in {"failed", "rows"} /\ pending[d] # NoCall => run'[pending[d]] = run[pending[d]]
    BY <1>1 DEF GoldTyped
<1>11. FailuresOwn' /\ RowsOwn'
    <2>1. ASSUME NEW d \in Calls, goldPc'[d] = "rows"
          PROVE  run'[pending'[d]] = "rows"
        BY <2>1, <1>8, <1>9, <1>10 DEF RowsOwn, Waits
    <2>2. ASSUME NEW d \in Calls, goldPc'[d] = "error"
          PROVE  OwnFailure(d)'
        <3>1. OwnFailure(d) /\ pending'[d] = pending[d] /\ aborted' = aborted /\ task' = task
            BY <2>2, <1>8, <1>9 DEF FailuresOwn, StartRun
        <3>2. pending[d] # c \/ run[pending[d]] # "failed"
            BY <1>1
        <3>3. run'[pending[d]] = run[pending[d]] \/ run[pending[d]] # "failed"
            BY <3>2 DEF StartRun, GoldTyped
        <3> QED
            BY <3>1, <3>3 DEF OwnFailure
    <2> QED
        BY <2>1, <2>2 DEF FailuresOwn, RowsOwn
<1> QED
    BY <1>3, <1>4, <1>5, <1>6, <1>7, <1>11

LEMMA RunEndsSound ==
    ASSUME GoldIInv, NEW c \in Calls, NEW outcome \in {"rows", "failed", "cut"}, RunEnds(c, outcome)
    PROVE  GoldIInv'
<1> USE GoldAssumption DEF GoldIInv, Key, Signal, Owner
<1>1. run[c] = "running" /\ run'[c] = outcome /\ \A d \in Calls \ {c} : run'[d] = run[d]
    BY DEF RunEnds, GoldTyped
<1>2. GoldTyped'
    BY DEF RunEnds, GoldTyped
<1>3. EntriesLive'
    <2> SUFFICES ASSUME NEW k \in DOMAIN cache, cache'[k] # NoCall
                 PROVE  task[cache'[k]].key = k /\ run'[cache'[k]] \in {"running", "rows"}
        BY DEF EntriesLive, RunEnds, GoldTyped
    <2>1. cache'[k] = cache[k] /\ task[cache[k]].key = k /\ run[cache[k]] \in {"running", "rows"} /\ cache[k] \in Calls
        BY DEF EntriesLive, RunEnds, GoldTyped
    <2>2. cache[k] = c => outcome = "rows"
        BY <2>1 DEF RunEnds, GoldTyped
    <2> QED
        BY <1>1, <2>1, <2>2
<1>4. RunOnce' /\ Waits' /\ AwaitsOwnQuery'
    BY <1>1 DEF RunEnds, GoldTyped, RunOnce, Waits, AwaitsOwnQuery
<1>5. CutByOwner'
    BY <1>1 DEF RunEnds, GoldTyped, CutByOwner
<1>6. FailuresOwn'
    BY <1>1 DEF RunEnds, GoldTyped, FailuresOwn, OwnFailure
<1>7. RowsOwn'
    BY <1>1 DEF RunEnds, GoldTyped, RowsOwn
<1> QED
    BY <1>2, <1>3, <1>4, <1>5, <1>6, <1>7

\* What one call's step may do: it moves only itself.
LEMMA CallSound ==
    ASSUME GoldIInv, NEW c \in Calls, LoopAborted(c) \/ JoinRun(c) \/ StopWaiting(c) \/ Awaited(c)
    PROVE  GoldIInv'
<1> USE GoldAssumption DEF GoldIInv, Key, Signal, Owner
<1>1. UNCHANGED <<task, aborted, run, cache>>
    BY DEF LoopAborted, JoinRun, StopWaiting, Awaited
<1>2. Key(c) \in DOMAIN cache
    BY DEF GoldTyped
<1>3. CASE LoopAborted(c) \/ StopWaiting(c)
    BY <1>1, <1>3 DEF LoopAborted, StopWaiting, GoldTyped, EntriesLive, RunOnce, AwaitsOwnQuery, Waits, CutByOwner, FailuresOwn, RowsOwn, OwnFailure
<1>4. CASE JoinRun(c)
    <2>1. cache[Key(c)] \in Calls /\ Key(cache[Key(c)]) = Key(c) /\ run[cache[Key(c)]] \in {"running", "rows"}
        BY <1>2, <1>4 DEF JoinRun, GoldTyped, EntriesLive
    <2>2. run[c] = "none"
        BY <1>4 DEF JoinRun, RunOnce
    <2> DEFINE entry == cache[Key(c)]
    <2>3. pending' = [pending EXCEPT ![c] = entry] /\ goldPc' = [goldPc EXCEPT ![c] = "waiting"]
        BY <1>4 DEF JoinRun
    <2>4. /\ \A d \in Calls \ {c} : pending'[d] = pending[d] /\ goldPc'[d] = goldPc[d]
          /\ pending'[c] = entry /\ goldPc'[c] = "waiting"
        BY <2>3 DEF GoldTyped
    <2>5. GoldTyped' /\ EntriesLive' /\ CutByOwner'
        BY <1>1, <2>1, <2>3 DEF GoldTyped, EntriesLive, CutByOwner
    <2> HIDE DEF entry
    <2>6. RunOnce' /\ Waits'
        BY <1>1, <2>1, <2>2, <2>4 DEF entry, RunOnce, Waits
    <2>7. AwaitsOwnQuery'
        BY <1>1, <2>1, <2>4 DEF entry, AwaitsOwnQuery
    <2>8. FailuresOwn' /\ RowsOwn'
        BY <1>1, <2>4 DEF FailuresOwn, RowsOwn, OwnFailure
    <2> QED
        BY <2>5, <2>6, <2>7, <2>8
<1>5. CASE Awaited(c)
    <2>1. pending[c] \in Calls /\ run[pending[c]] \in {"rows", "failed", "cut"}
        BY <1>5 DEF Awaited, GoldTyped, Waits
    <2>2. Outcome(c) \in {"rows", "loop", "error"}
        BY DEF Outcome
    <2>3. Outcome(c) = "rows" => run[pending[c]] = "rows"
        BY DEF Outcome
    <2>4. Outcome(c) = "loop" => run[c] = "none"
        BY <1>5 DEF Outcome, RunOnce, Awaited, GoldTyped
    <2>5. Outcome(c) = "error" => OwnFailure(c)
        BY <2>1 DEF Outcome, OwnFailure, CutByOwner
    <2>6. goldPc' = [goldPc EXCEPT ![c] = Outcome(c)] /\ pending' = pending
        BY <1>5 DEF Awaited
    <2> HIDE DEF Outcome
    <2> QED
        BY <1>1, <2>1, <2>2, <2>3, <2>4, <2>5, <2>6 DEF GoldTyped, EntriesLive, RunOnce, AwaitsOwnQuery, Waits, CutByOwner, FailuresOwn, RowsOwn, OwnFailure
<1> QED
    BY <1>3, <1>4, <1>5

LEMMA AbortSound ==
    ASSUME GoldIInv, NEW s, AbortCase(s)
    PROVE  GoldIInv'
    BY DEF AbortCase, GoldIInv, GoldTyped, EntriesLive, RunOnce, AwaitsOwnQuery, Waits, CutByOwner, FailuresOwn, RowsOwn,
           OwnFailure, Key, Signal, Owner

LEMMA GoldInductive == GoldIInv /\ [GoldNext]_goldVars => GoldIInv'
<1> SUFFICES ASSUME GoldIInv, [GoldNext]_goldVars
             PROVE  GoldIInv'
    OBVIOUS
<1>1. CASE UNCHANGED goldVars
    BY <1>1 DEF goldVars, GoldIInv, GoldTyped, EntriesLive, RunOnce, AwaitsOwnQuery, Waits, CutByOwner, FailuresOwn,
                RowsOwn, OwnFailure, Key, Signal, Owner
<1>2. CASE GoldNext
    BY <1>2, StartRunSound, RunEndsSound, CallSound, AbortSound DEF GoldNext, GoldStep
<1> QED
    BY <1>1, <1>2

\* However many cases share gold queries and whatever aborts: a call fails only by its own signal or a run
\* that failed by itself, and a call that has rows has those of a finished run of its own query.
THEOREM GoldIsOwn ==
    GoldSpec => [](\A c \in Calls :
                       /\ goldPc[c] = "error" => OwnFailure(c)
                       /\ goldPc[c] = "rows" => run[pending[c]] = "rows" /\ Key(pending[c]) = Key(c))
<1> DEFINE Owned == \A c \in Calls :
                       /\ goldPc[c] = "error" => OwnFailure(c)
                       /\ goldPc[c] = "rows" => run[pending[c]] = "rows" /\ Key(pending[c]) = Key(c)
<1>1. GoldIInv => Owned
    BY DEF GoldIInv, FailuresOwn, RowsOwn, AwaitsOwnQuery, Waits
<1> HIDE DEF Owned
<1>2. GoldSpec => []Owned
    BY <1>1, GoldInitSound, GoldInductive, PTL DEF GoldSpec
<1> QED
    BY <1>2 DEF Owned

\* No call starts to wait for a run that has failed: the loop of executeGoldSql cannot spin on one.
THEOREM GoldJoinsLiveRuns == GoldSpec => [][\A c \in Calls : JoinsLiveRun(c)]_goldVars
<1>1. GoldIInv /\ [GoldNext]_goldVars => [\A c \in Calls : JoinsLiveRun(c)]_goldVars
    <2> SUFFICES ASSUME GoldIInv, GoldNext, NEW c \in Calls, goldPc[c] = "loop", goldPc'[c] = "waiting"
                 PROVE  run'[pending'[c]] \in {"running", "rows"}
        BY DEF JoinsLiveRun
    <2>1. PICK d \in Calls : JoinRun(d) \/ StartRun(d)
        BY DEF GoldNext, GoldStep, LoopAborted, JoinRun, StartRun, StopWaiting, Awaited, RunEnds, AbortCase, GoldIInv, GoldTyped, Outcome
    <2>2. d = c
        BY <2>1 DEF JoinRun, StartRun, GoldIInv, GoldTyped
    <2>3. Key(c) \in DOMAIN cache
        BY DEF GoldIInv, GoldTyped
    <2> QED
        BY <2>1, <2>2, <2>3 DEF JoinRun, StartRun, GoldIInv, GoldTyped, EntriesLive
<1> QED
    BY <1>1, GoldInitSound, GoldInductive, PTL DEF GoldSpec

-----------------------------------------------------------------------------
(* Rescoring.                                                                *)

IsReport(r) ==
    r = [status |-> r.status, attempts |-> r.attempts, replayTruncated |-> r.replayTruncated, inherited |-> r.inherited]
AreAttempts(attempts) ==
    /\ attempts \in Seq(Range(attempts))
    /\ \A i \in DOMAIN attempts : attempts[i] = [sql |-> attempts[i].sql, mark |-> attempts[i].mark]

\* A day has a verdict on every SQL of the attempts.
Judges(day, attempts) ==
    \A i \in DOMAIN attempts :
        HasSql(attempts[i]) => attempts[i].sql \in DOMAIN day.judge /\ day.judge[attempts[i].sql] \in Verdicts

LEMMA AttemptsRecorded ==
    ASSUME NEW attempts, AreAttempts(attempts)
    PROVE  /\ DOMAIN attempts = 1 .. Len(attempts) /\ Len(attempts) \in Nat /\ (attempts = <<>> <=> Len(attempts) = 0)
           /\ AsRecorded(attempts) = [i \in 1 .. Len(attempts) |-> [sql |-> attempts[i].sql, mark |-> "none"]]
<1>1. DOMAIN attempts = 1 .. Len(attempts) /\ Len(attempts) \in Nat /\ (attempts = <<>> <=> Len(attempts) = 0)
    BY DEF AreAttempts
<1> DEFINE none == "none"
<1>2. \A k, a, b, c : k = [sql |-> a, mark |-> b] => [k EXCEPT !.mark = c] = [sql |-> a, mark |-> c]
    OBVIOUS
<1> HIDE DEF none
<1>3. \A i \in DOMAIN attempts : [attempts[i] EXCEPT !.mark = none] = [sql |-> attempts[i].sql, mark |-> none]
    BY <1>2 DEF AreAttempts
<1>4. AsRecorded(attempts) = [i \in DOMAIN attempts |-> [attempts[i] EXCEPT !.mark = none]]
    BY DEF AsRecorded, none
<1> QED
    BY <1>1, <1>3, <1>4 DEF none

LEMMA AttemptsBuilt ==
    ASSUME NEW n \in Nat, NEW a, DOMAIN a = 1 .. n, a = [i \in 1 .. n |-> a[i]],
           \A i \in 1 .. n : a[i] = [sql |-> a[i].sql, mark |-> a[i].mark]
    PROVE  AreAttempts(a) /\ Len(a) = n
<1>1. \A i \in 1 .. n : a[i] \in Range(a)
    BY DEF Range
<1>2. a \in [1 .. n -> Range(a)]
    BY <1>1
<1> QED
    BY <1>2 DEF AreAttempts

\* Marks come and go; the SQLs stay.
LEMMA RecordedAgain ==
    ASSUME NEW attempts, AreAttempts(attempts)
    PROVE  /\ AreAttempts(AsRecorded(attempts)) /\ AsRecorded(AsRecorded(attempts)) = AsRecorded(attempts)
           /\ DOMAIN AsRecorded(attempts) = DOMAIN attempts /\ (AsRecorded(attempts) = <<>> <=> attempts = <<>>)
           /\ \A i \in DOMAIN attempts : AsRecorded(attempts)[i].sql = attempts[i].sql
<1> DEFINE n == Len(attempts)
           sql == [i \in 1 .. n |-> attempts[i].sql]
           mark == [i \in 1 .. n |-> "none"]
           again == [i \in 1 .. n |-> [sql |-> sql[i], mark |-> mark[i]]]
<1>1. DOMAIN attempts = 1 .. n /\ n \in Nat /\ (attempts = <<>> <=> n = 0)
    BY AttemptsRecorded
<1>2. AsRecorded(attempts) = again
    BY AttemptsRecorded
<1>3. AreAttempts(again) /\ Len(again) = n /\ DOMAIN again = 1 .. n /\ \A i \in 1 .. n : again[i].sql = sql[i]
    <2> HIDE DEF sql, mark, n
    <2>1. /\ DOMAIN again = 1 .. n /\ again = [i \in 1 .. n |-> again[i]]
          /\ \A i \in 1 .. n : again[i] = [sql |-> again[i].sql, mark |-> again[i].mark] /\ again[i].sql = sql[i]
        OBVIOUS
    <2> HIDE DEF again
    <2> QED
        BY <1>1, <2>1, AttemptsBuilt
<1>4. \A i \in 1 .. n : again[i].sql = attempts[i].sql
    BY <1>3
<1> HIDE DEF again
<1>5. AsRecorded(again) = [i \in 1 .. n |-> [sql |-> again[i].sql, mark |-> "none"]]
    BY <1>3, AttemptsRecorded
<1>6. again = [i \in 1 .. n |-> [sql |-> attempts[i].sql, mark |-> "none"]]
    BY <1>2, AttemptsRecorded
<1>7. AsRecorded(again) = again
    BY <1>4, <1>5, <1>6
<1>8. again = <<>> <=> n = 0
    BY <1>3 DEF AreAttempts
<1> QED
    BY <1>1, <1>2, <1>3, <1>4, <1>7, <1>8

LEMMA MarkedRecorded ==
    ASSUME NEW attempts, AreAttempts(attempts), NEW verdicts
    PROVE  /\ AreAttempts(Marked(attempts, verdicts))
           /\ DOMAIN Marked(attempts, verdicts) = DOMAIN attempts /\ (Marked(attempts, verdicts) = <<>> <=> attempts = <<>>)
           /\ \A i \in DOMAIN attempts : Marked(attempts, verdicts)[i].sql = attempts[i].sql
           /\ AsRecorded(Marked(attempts, verdicts)) = AsRecorded(attempts)
<1> DEFINE n == Len(attempts)
           sql == [i \in 1 .. n |-> attempts[i].sql]
           mark == [i \in 1 .. n |-> IF i \in DOMAIN verdicts THEN "reached" ELSE "not_reached"]
           marked == [i \in 1 .. n |-> [sql |-> sql[i], mark |-> mark[i]]]
<1>1. DOMAIN attempts = 1 .. n /\ n \in Nat /\ (attempts = <<>> <=> n = 0)
    BY AttemptsRecorded
<1>2. Marked(attempts, verdicts) = marked
    <2>1. \A k, a, b, c : k = [sql |-> a, mark |-> b] => [k EXCEPT !.mark = c] = [sql |-> a, mark |-> c]
        OBVIOUS
    <2>2. Marked(attempts, verdicts) = [i \in 1 .. n |-> [attempts[i] EXCEPT !.mark = mark[i]]]
        BY <1>1 DEF Marked
    <2> HIDE DEF mark
    <2>3. \A i \in 1 .. n : [attempts[i] EXCEPT !.mark = mark[i]] = [sql |-> attempts[i].sql, mark |-> mark[i]]
        BY <1>1, <2>1 DEF AreAttempts
    <2> QED
        BY <2>2, <2>3
<1>3. AreAttempts(marked) /\ Len(marked) = n /\ DOMAIN marked = 1 .. n /\ \A i \in 1 .. n : marked[i].sql = sql[i]
    <2> HIDE DEF sql, mark, n
    <2>1. /\ DOMAIN marked = 1 .. n /\ marked = [i \in 1 .. n |-> marked[i]]
          /\ \A i \in 1 .. n : marked[i] = [sql |-> marked[i].sql, mark |-> marked[i].mark] /\ marked[i].sql = sql[i]
        OBVIOUS
    <2> HIDE DEF marked
    <2> QED
        BY <1>1, <2>1, AttemptsBuilt
<1>4. \A i \in 1 .. n : marked[i].sql = attempts[i].sql
    BY <1>3
<1> HIDE DEF marked
<1>5. AsRecorded(marked) = [i \in 1 .. n |-> [sql |-> marked[i].sql, mark |-> "none"]]
    BY <1>3, AttemptsRecorded
<1>6. AsRecorded(attempts) = [i \in 1 .. n |-> [sql |-> attempts[i].sql, mark |-> "none"]]
    BY AttemptsRecorded
<1>7. AsRecorded(marked) = AsRecorded(attempts)
    BY <1>4, <1>5, <1>6
<1>8. marked = <<>> <=> n = 0
    BY <1>3 DEF AreAttempts
<1> QED
    BY <1>1, <1>2, <1>3, <1>4, <1>7, <1>8

-----------------------------------------------------------------------------
\* The last verdict of a replay is that of one of the attempts.
LEMMA LastJudged ==
    ASSUME NEW day, NEW attempts, AreAttempts(attempts), attempts # <<>>
    PROVE  \E n \in DOMAIN attempts : Last(Replay(day, attempts)) = Judged(day, attempts, n)
<1> DEFINE ends == {i \in DOMAIN attempts : Judged(day, attempts, i) \in Ends}
           n == ReachedCount(day, attempts)
           verdicts == [i \in 1 .. n |-> Judged(day, attempts, i)]
<1>1. DOMAIN attempts = 1 .. Len(attempts) /\ Len(attempts) \in Nat /\ Len(attempts) # 0
    BY AttemptsRecorded
<1>2. n \in DOMAIN attempts
    <2>1. CASE ends = {}
        BY <1>1, <2>1 DEF ReachedCount
    <2>2. CASE ends # {}
        <3>1. ends \in SUBSET Nat /\ ends \subseteq DOMAIN attempts
            BY <1>1
        <3>2. n = Min(ends)
            BY <2>2 DEF ReachedCount
        <3> HIDE DEF ends, n
        <3> QED
            BY <2>2, <3>1, <3>2, LeastNumber
    <2> QED
        BY <2>1, <2>2
<1>3. n \in Nat /\ n # 0
    BY <1>1, <1>2
<1>4. Replay(day, attempts) = verdicts
    BY DEF Replay
<1> HIDE DEF n
<1>5. Len(verdicts) = n
    BY <1>3
<1>6. Last(verdicts) = Judged(day, attempts, n)
    BY <1>3, <1>5 DEF Last
<1> QED
    BY <1>2, <1>4, <1>6

\* An ordinary day's verdicts.
Plainly(v) == v \in {"clarify", "llm", "match", "mismatch", "rejected", "scope", "execution_error"}

LEMMA OrdinaryVerdicts ==
    ASSUME NEW day, NEW attempts, AreAttempts(attempts), Judges(day, attempts), ~Outage(day), NEW i \in DOMAIN attempts
    PROVE  Plainly(Judged(day, attempts, i)) /\ (Judged(day, attempts, i) = "clarify" <=> attempts[i].sql = Clarify)
<1>1. HasSql(attempts[i]) =>
          day.judge[attempts[i].sql] \in {"rejected", "scope", "match", "mismatch", "execution_error"}
    BY DEF Judges, Outage, Verdicts
<1> QED
    BY <1>1, RescoreAssumption DEF Judged, HasSql, Plainly

-----------------------------------------------------------------------------
LEMMA ReportBuilt ==
    ASSUME NEW k, NEW a, NEW b, NEW c, NEW d,
           k = [status |-> a, attempts |-> b, replayTruncated |-> c, inherited |-> d]
    PROVE  IsReport(k) /\ k.status = a /\ k.attempts = b /\ k.replayTruncated = c /\ k.inherited = d
    BY DEF IsReport

LEMMA StatusSet ==
    ASSUME NEW k, IsReport(k), NEW e
    PROVE  LET n == [k EXCEPT !.status = e] IN IsReport(n) /\ n.status = e /\ n.attempts = k.attempts
<1>1. [k EXCEPT !.status = e] =
          [status |-> e, attempts |-> k.attempts, replayTruncated |-> k.replayTruncated, inherited |-> k.inherited]
    BY DEF IsReport
<1> QED
    BY <1>1, ReportBuilt

LEMMA AttemptsSet ==
    ASSUME NEW k, IsReport(k), NEW e
    PROVE  LET n == [k EXCEPT !.attempts = e] IN IsReport(n) /\ n.status = k.status /\ n.attempts = e
<1>1. [k EXCEPT !.attempts = e] =
          [status |-> k.status, attempts |-> e, replayTruncated |-> k.replayTruncated, inherited |-> k.inherited]
    BY DEF IsReport
<1> QED
    BY <1>1, ReportBuilt

LEMMA TruncatedSet ==
    ASSUME NEW k, IsReport(k), NEW e
    PROVE  LET n == [k EXCEPT !.replayTruncated = e] IN IsReport(n) /\ n.status = k.status /\ n.attempts = k.attempts
<1>1. [k EXCEPT !.replayTruncated = e] =
          [status |-> k.status, attempts |-> k.attempts, replayTruncated |-> e, inherited |-> k.inherited]
    BY DEF IsReport
<1> QED
    BY <1>1, ReportBuilt

LEMMA InheritedSet ==
    ASSUME NEW k, IsReport(k), NEW e
    PROVE  LET n == [k EXCEPT !.inherited = e] IN IsReport(n) /\ n.status = k.status /\ n.attempts = k.attempts
<1>1. [k EXCEPT !.inherited = e] =
          [status |-> k.status, attempts |-> k.attempts, replayTruncated |-> k.replayTruncated, inherited |-> e]
    BY DEF IsReport
<1> QED
    BY <1>1, ReportBuilt

LEMMA Ended ==
    ASSUME NEW r, IsReport(r), NEW s, NEW b
    PROVE  LET n == Ending(r, s, b) IN IsReport(n) /\ n.status = s /\ n.attempts = r.attempts
<1> DEFINE no == FALSE
           r1 == [r EXCEPT !.status = s]
           r2 == [r1 EXCEPT !.inherited = b]
           r3 == [r2 EXCEPT !.replayTruncated = no]
<1>1. Ending(r, s, b) = r3
    BY DEF Ending
<1> HIDE DEF no
<1>2. IsReport(r1) /\ r1.status = s /\ r1.attempts = r.attempts
    BY StatusSet
<1> HIDE DEF r1
<1>3. IsReport(r2) /\ r2.status = s /\ r2.attempts = r.attempts
    BY <1>2, InheritedSet
<1> HIDE DEF r2
<1>4. IsReport(r3) /\ r3.status = s /\ r3.attempts = r.attempts
    BY <1>3, TruncatedSet
<1> QED
    BY <1>1, <1>4

-----------------------------------------------------------------------------
\* A repetition that tells a rescore the same as another.
LikeRecorded(a, b) ==
    /\ IsReport(a) /\ AreAttempts(a.attempts)
    /\ IsReport(b) /\ AreAttempts(b.attempts)
    /\ AsRecorded(a.attempts) = AsRecorded(b.attempts)

LEMMA ReplayedFields ==
    ASSUME NEW r, IsReport(r), AreAttempts(r.attempts), NEW attempts, AreAttempts(attempts), NEW verdicts
    PROVE  LET new == Replayed(r, attempts, verdicts)
               last == Last(verdicts)
           IN  /\ IsReport(new)
               /\ new.attempts = IF last = "gold" THEN r.attempts ELSE Marked(attempts, verdicts)
               /\ new.status = IF last = "gold" THEN "expected_sql_error"
                               ELSE IF last \in {"match", "mismatch", "infra_elsewhere", "infra"} THEN FinalStatus(last)
                               ELSE IF last = "clarify" THEN "clarify"
                               ELSE IF last \notin Ends /\ r.status \in CutShort THEN r.status
                               ELSE FinalStatus(last)
<1> DEFINE new == Replayed(r, attempts, verdicts)
           last == Last(verdicts)
           base == [r EXCEPT !.attempts = Marked(attempts, verdicts)]
           kept == last = "llm" /\ r.status = "llm_error"
           cut == r.status \in Executed /\ Len(verdicts) < MaxAttempts
           marked == Marked(attempts, verdicts)
           yes == TRUE
           no == FALSE
<1>1. new = CASE last = "gold" -> Ending(r, "expected_sql_error", no)
              [] last \in {"match", "mismatch", "infra_elsewhere"} -> Ending(base, FinalStatus(last), no)
              [] last = "clarify" -> Ending(base, "clarify", yes)
              [] last \notin Ends /\ r.status \in CutShort -> Ending(base, r.status, yes)
              [] OTHER -> [Ending(base, FinalStatus(last), kept) EXCEPT !.replayTruncated = cut]
    BY DEF Replayed, GoldError
<1>2. IsReport(base) /\ base.attempts = marked
    BY AttemptsSet
<1> HIDE DEF base, last, kept, cut, marked, new, yes, no
<1>3. CASE last = "gold"
    <2>1. new = Ending(r, "expected_sql_error", no)
        BY <1>1, <1>3 DEF Ends
    <2> QED
        BY <1>3, <2>1, Ended DEF new, last
<1>4. CASE last \in {"match", "mismatch", "infra_elsewhere"}
    <2>1. new = Ending(base, FinalStatus(last), no)
        BY <1>1, <1>4 DEF Ends
    <2> QED
        BY <1>2, <1>4, <2>1, Ended DEF new, last, marked
<1>5. CASE last = "clarify"
    <2>1. new = Ending(base, "clarify", yes)
        BY <1>1, <1>5 DEF Ends
    <2> QED
        BY <1>2, <1>5, <2>1, Ended DEF new, last, marked
<1>6. CASE last \notin Ends /\ r.status \in CutShort
    <2>1. last \notin {"gold", "match", "mismatch", "infra_elsewhere", "infra", "clarify"}
        BY <1>6 DEF Ends
    <2>2. new = Ending(base, r.status, yes)
        BY <1>1, <1>6, <2>1
    <2> QED
        BY <1>2, <1>6, <2>1, <2>2, Ended DEF new, last, marked
<1>7. CASE last \notin {"gold", "match", "mismatch", "infra_elsewhere", "clarify"}
           /\ ~(last \notin Ends /\ r.status \in CutShort)
    <2> DEFINE ended == Ending(base, FinalStatus(last), kept)
    <2>1. new = [ended EXCEPT !.replayTruncated = cut]
        BY <1>1, <1>7
    <2>2. IsReport(ended) /\ ended.status = FinalStatus(last) /\ ended.attempts = marked
        BY <1>2, Ended
    <2> HIDE DEF ended
    <2>3. IsReport(new) /\ new.status = FinalStatus(last) /\ new.attempts = marked
        BY <2>1, <2>2, TruncatedSet
    <2> QED
        BY <1>7, <2>3 DEF new, last, marked
<1> QED
    BY <1>3, <1>4, <1>5, <1>6, <1>7

LEMMA RescoredFields ==
    ASSUME NEW r, IsReport(r), AreAttempts(r.attempts), NEW day
    PROVE  LET new == Rescored(day, r)
               attempts == AsRecorded(r.attempts)
           IN  /\ IsReport(new)
               /\ IsReplayed(day, r) => new = Replayed(r, attempts, Replay(day, attempts))
               /\ ~IsReplayed(day, r) =>
                     /\ new.attempts = r.attempts
                     /\ new.status = IF ~day.gold THEN "expected_sql_error"
                                     ELSE IF NothingToReplay(r) THEN r.status ELSE "infra_error"
<1> DEFINE new == Rescored(day, r)
           attempts == AsRecorded(r.attempts)
           yes == TRUE
           no == FALSE
<1>1. AreAttempts(attempts)
    BY RecordedAgain
<1>2. new = IF IsReplayed(day, r) THEN Replayed(r, attempts, Replay(day, attempts))
            ELSE IF ~day.gold THEN Ending(r, "expected_sql_error", no)
            ELSE IF NothingToReplay(r) THEN Ending(r, r.status, yes)
            ELSE Ending(r, "infra_error", no)
    BY DEF Rescored, GoldError
<1> HIDE DEF new, attempts, yes, no
<1>3. CASE IsReplayed(day, r)
    BY <1>1, <1>2, <1>3, ReplayedFields DEF new, attempts
<1>4. CASE ~IsReplayed(day, r)
    BY <1>2, <1>4, Ended DEF new, attempts
<1> QED
    BY <1>3, <1>4

\* A rescore keeps every recorded attempt.
LEMMA RescoredKeeps ==
    ASSUME NEW r, IsReport(r), AreAttempts(r.attempts), NEW day
    PROVE  LikeRecorded(Rescored(day, r), r)
<1> DEFINE new == Rescored(day, r)
           attempts == AsRecorded(r.attempts)
           verdicts == Replay(day, attempts)
<1>1. AreAttempts(attempts) /\ AsRecorded(attempts) = AsRecorded(r.attempts)
    BY RecordedAgain
<1>2. AreAttempts(Marked(attempts, verdicts)) /\ AsRecorded(Marked(attempts, verdicts)) = AsRecorded(r.attempts)
    BY <1>1, MarkedRecorded
<1>3. /\ IsReport(new)
      /\ IsReplayed(day, r) => new = Replayed(r, attempts, verdicts)
      /\ ~IsReplayed(day, r) => new.attempts = r.attempts
    BY RescoredFields
<1>4. LET other == Replayed(r, attempts, verdicts) IN
      other.attempts = IF Last(verdicts) = "gold" THEN r.attempts ELSE Marked(attempts, verdicts)
    BY <1>1, ReplayedFields
<1> HIDE DEF new, attempts, verdicts
<1>5. new.attempts = r.attempts \/ new.attempts = Marked(attempts, verdicts)
    BY <1>3, <1>4
<1> QED
    BY <1>2, <1>3, <1>5 DEF LikeRecorded, new

-----------------------------------------------------------------------------
\* Rescores of repetitions that tell the same come to the same.
LEMMA RescoredAlike ==
    ASSUME NEW a, NEW b, LikeRecorded(a, b), a.status \notin CutShort, b.status \notin CutShort,
           NothingToReplay(a) <=> NothingToReplay(b),
           NothingToReplay(a) => a.status = b.status /\ a.attempts = b.attempts,
           NEW day, Judges(day, AsRecorded(a.attempts))
    PROVE  /\ Rescored(day, a).status = Rescored(day, b).status
           /\ ~Outage(day) => Rescored(day, a).attempts = Rescored(day, b).attempts
<1> DEFINE attempts == AsRecorded(a.attempts)
           verdicts == Replay(day, attempts)
           last == Last(verdicts)
<1>1. IsReport(a) /\ IsReport(b) /\ AreAttempts(a.attempts) /\ AreAttempts(b.attempts) /\ attempts = AsRecorded(b.attempts)
    BY DEF LikeRecorded
<1>2. IsReplayed(day, a) <=> IsReplayed(day, b)
    BY DEF IsReplayed
<1>3. AreAttempts(attempts) /\ (attempts = <<>> <=> a.attempts = <<>>)
    BY <1>1, RecordedAgain
<1>4. CASE ~IsReplayed(day, a)
    <2>1. ~Outage(day) => NothingToReplay(a)
        BY <1>4 DEF IsReplayed, Outage
    <2> QED
        BY <1>1, <1>2, <1>4, <2>1, RescoredFields
<1>5. CASE IsReplayed(day, a)
    <2>1. Rescored(day, a) = Replayed(a, attempts, verdicts) /\ Rescored(day, b) = Replayed(b, attempts, verdicts)
        BY <1>1, <1>2, <1>5, RescoredFields
    <2>2. attempts # <<>>
        BY <1>3, <1>5 DEF IsReplayed, NothingToReplay
    <2>3. ~Outage(day) => last # "gold"
        <3>1. PICK n \in DOMAIN attempts : last = Judged(day, attempts, n)
            BY <1>3, <2>2, LastJudged
        <3>2. ~Outage(day) => Plainly(Judged(day, attempts, n))
            BY <1>3, OrdinaryVerdicts
        <3> QED
            BY <3>1, <3>2 DEF Plainly
    <2> DEFINE ra == Replayed(a, attempts, verdicts)
               rb == Replayed(b, attempts, verdicts)
               status == IF last = "gold" THEN "expected_sql_error"
                         ELSE IF last \in {"match", "mismatch", "infra_elsewhere", "infra"} THEN FinalStatus(last)
                         ELSE IF last = "clarify" THEN "clarify"
                         ELSE FinalStatus(last)
    <2>4. ra.status = status /\ (last # "gold" => ra.attempts = Marked(attempts, verdicts))
        BY <1>1, <1>3, ReplayedFields
    <2>5. rb.status = status /\ (last # "gold" => rb.attempts = Marked(attempts, verdicts))
        BY <1>1, <1>3, ReplayedFields
    <2> HIDE DEF ra, rb, status, last
    <2> QED
        BY <2>1, <2>3, <2>4, <2>5 DEF ra, rb
<1> QED
    BY <1>4, <1>5

\* A repetition that only ordinary days have judged tells a rescore what its recording r0 does.
Alike(r, r0) ==
    /\ r.status \notin CutShort
    /\ NothingToReplay(r) <=> NothingToReplay(r0)
    /\ NothingToReplay(r) => r.status = r0.status /\ r.attempts = r0.attempts

LEMMA AlikeStays ==
    ASSUME NEW r0 \in Recordings, r0.status \notin CutShort, NEW r, IsReport(r), AreAttempts(r.attempts),
           AsRecorded(r.attempts) = r0.attempts, Alike(r, r0), NEW day, Judges(day, r0.attempts), ~Outage(day)
    PROVE  Alike(Rescored(day, r), r0)
<1> DEFINE new == Rescored(day, r)
           attempts == r0.attempts
           verdicts == Replay(day, attempts)
           last == Last(verdicts)
<1>1. day.gold /\ day.prompt
    BY DEF Outage
<1>2. CASE NothingToReplay(r)
    <2>1. new.status = r.status /\ new.attempts = r.attempts
        BY <1>1, <1>2, RescoredFields DEF IsReplayed
    <2> HIDE DEF new
    <2>2. NothingToReplay(new) <=> NothingToReplay(r)
        BY <2>1 DEF NothingToReplay
    <2> QED
        BY <2>1, <2>2 DEF Alike, new
<1>3. CASE ~NothingToReplay(r)
    <2>1. AreAttempts(attempts) /\ attempts # <<>> /\ DOMAIN attempts = DOMAIN r.attempts
        BY <1>3, RecordedAgain DEF NothingToReplay
    <2>2. new = Replayed(r, attempts, verdicts)
        BY <1>1, <1>3, RescoredFields DEF IsReplayed
    <2>3. PICK n \in DOMAIN attempts : last = Judged(day, attempts, n)
        BY <2>1, LastJudged
    <2>4. Plainly(last) /\ (last = "clarify" <=> attempts[n].sql = Clarify)
        BY <2>1, <2>3, OrdinaryVerdicts
    <2> HIDE DEF last
    <2>5. new.attempts = Marked(attempts, verdicts) /\ new.status \in {FinalStatus(last), "clarify"}
          /\ (new.status = "clarify" => last = "clarify" \/ FinalStatus(last) = "clarify")
        <3>1. last # "gold"
            BY <2>4 DEF Plainly
        <3> DEFINE other == Replayed(r, attempts, verdicts)
        <3>2. /\ other.attempts = Marked(attempts, verdicts)
              /\ other.status = IF last \in {"match", "mismatch", "infra_elsewhere", "infra"} THEN FinalStatus(last)
                               ELSE IF last = "clarify" THEN "clarify"
                               ELSE FinalStatus(last)
            BY <2>1, <3>1, ReplayedFields DEF last, Alike
        <3> HIDE DEF other, new
        <3> QED
            BY <2>2, <3>2 DEF other
    <2>6. /\ FinalStatus(last) \in {"pass", "result_mismatch", "clarify", "llm_error", "validation_error", "execution_error"}
          /\ FinalStatus(last) = "clarify" => last = "clarify"
        BY <2>4 DEF FinalStatus, Plainly
    <2>7. /\ new.attempts # <<>> /\ DOMAIN new.attempts = DOMAIN attempts
          /\ \A i \in DOMAIN attempts : new.attempts[i].sql = attempts[i].sql
        BY <2>1, <2>5, MarkedRecorded
    <2>8. r0.status \notin Kept /\ (r0.status = "clarify" => \E i \in DOMAIN attempts : HasSql(attempts[i]))
        BY <1>3 DEF Alike, NothingToReplay
    <2>9. new.status = "clarify" => \E i \in DOMAIN attempts : HasSql(attempts[i])
        <3>1. SUFFICES ASSUME new.status = "clarify"
                       PROVE  r0.status = "clarify"
            BY <2>8
        <3>2. attempts[n].sql = Clarify
            BY <2>4, <2>5, <2>6, <3>1
        <3> QED
            BY <2>3, <2>8, <3>2, RescoreAssumption
    <2> HIDE DEF new, verdicts
    <2>10. new.status \notin CutShort /\ new.status \notin Kept
        BY <2>5, <2>6 DEF CutShort, Kept
    <2>11. ~NothingToReplay(new)
        BY <2>7, <2>9, <2>10 DEF NothingToReplay, HasSql
    <2> QED
        BY <1>3, <2>10, <2>11 DEF Alike, new
<1> QED
    BY <1>2, <1>3

-----------------------------------------------------------------------------
RescoreTyped ==
    /\ recording \in Recordings /\ days \in Seq(Days)
    /\ IsReport(report) /\ AreAttempts(report.attempts)
StillRecorded == AsRecorded(report.attempts) = recording.attempts
Clean == recording.status \notin CutShort /\ \A i \in 1 .. Len(days) : ~Outage(days[i])
CleanIsAlike == Clean => Alike(report, recording)
RescoreIInv == RescoreTyped /\ StillRecorded /\ CleanIsAlike /\ RescoreStable

LEMMA RecordingTyped ==
    ASSUME NEW r \in Recordings
    PROVE  AreAttempts(r.attempts) /\ AsRecorded(r.attempts) = r.attempts /\ \A day \in Days : Judges(day, r.attempts)
<1>1. /\ r.attempts \in Seq(Range(r.attempts))
      /\ \A i \in DOMAIN r.attempts : r.attempts[i] = [sql |-> r.attempts[i].sql, mark |-> "none"]
    BY RescoreAssumption
<1>2. AreAttempts(r.attempts)
    <2> DEFINE none == "none"
    <2>1. \A i \in DOMAIN r.attempts : r.attempts[i] = [sql |-> r.attempts[i].sql, mark |-> none]
        BY <1>1
    <2> HIDE DEF none
    <2>2. \A k, a, b : k = [sql |-> a, mark |-> b] => k = [sql |-> k.sql, mark |-> k.mark]
        OBVIOUS
    <2>3. \A i \in DOMAIN r.attempts : r.attempts[i] = [sql |-> r.attempts[i].sql, mark |-> r.attempts[i].mark]
        BY <2>1, <2>2
    <2> QED
        BY <1>1, <2>3 DEF AreAttempts
<1>3. AsRecorded(r.attempts) = r.attempts
    <2> DEFINE a == r.attempts
    <2>1. AsRecorded(a) = [i \in 1 .. Len(a) |-> [sql |-> a[i].sql, mark |-> "none"]] /\ DOMAIN a = 1 .. Len(a)
        BY <1>2, AttemptsRecorded
    <2>2. a = [i \in DOMAIN a |-> a[i]]
        BY <1>1
    <2> QED
        BY <1>1, <2>1, <2>2
<1>4. \A day \in Days : Judges(day, r.attempts)
    BY RescoreAssumption DEF Judges
<1> QED
    BY <1>2, <1>3, <1>4

LEMMA RescoreInitSound == RescoreInit => RescoreIInv
<1> SUFFICES ASSUME RescoreInit
             PROVE  RescoreIInv
    OBVIOUS
<1>1. IsReport(report) /\ report.status = recording.status /\ report.attempts = recording.attempts
    BY ReportBuilt DEF RescoreInit
<1>2. recording \in Recordings /\ days = <<>>
    BY DEF RescoreInit
<1>3. NothingToReplay(report) <=> NothingToReplay(recording)
    BY <1>1 DEF NothingToReplay
<1>4. RescoreTyped /\ StillRecorded
    BY <1>1, <1>2, RecordingTyped DEF RescoreTyped, StillRecorded
<1>5. CleanIsAlike /\ RescoreStable
    BY <1>1, <1>2, <1>3 DEF CleanIsAlike, Clean, Alike, RescoreStable
<1> QED
    BY <1>4, <1>5 DEF RescoreIInv

LEMMA RescoreSound ==
    ASSUME RescoreIInv, NEW day \in Days, RescoreReport(day)
    PROVE  RescoreIInv'
<1> USE DEF RescoreIInv, RescoreTyped
<1>1. report' = Rescored(day, report) /\ days' = Append(days, day) /\ recording' = recording
    BY DEF RescoreReport
<1>2. /\ days' \in Seq(Days) /\ Len(days') = Len(days) + 1 /\ Len(days) \in Nat /\ days' # <<>>
      /\ days'[Len(days')] = day /\ \A i \in 1 .. Len(days) : days'[i] = days[i]
    BY <1>1
<1>3. Last(days') = day
    BY <1>2 DEF Last
<1>4. /\ AreAttempts(recording.attempts) /\ AsRecorded(recording.attempts) = recording.attempts
      /\ Judges(day, recording.attempts)
    BY RecordingTyped
<1>5. LikeRecorded(report', report)
    BY <1>1, RescoredKeeps
<1>6. RescoreTyped' /\ StillRecorded'
    BY <1>1, <1>2, <1>5 DEF LikeRecorded, StillRecorded
<1>7. Clean' <=> Clean /\ ~Outage(day)
    BY <1>1, <1>2 DEF Clean
<1>8. CleanIsAlike'
    <2>1. ASSUME Clean, ~Outage(day)
          PROVE  Alike(Rescored(day, report), recording)
        BY <1>4, <2>1, AlikeStays DEF Clean, CleanIsAlike, StillRecorded
    <2> QED
        BY <1>1, <1>7, <2>1 DEF CleanIsAlike
<1>9. RescoreStable'
    <2> DEFINE r0 == [report' EXCEPT !.status = recording.status, !.attempts = recording.attempts]
    <2>1. IsReport(r0) /\ r0.status = recording.status /\ r0.attempts = recording.attempts
        <3> DEFINE r1 == [report' EXCEPT !.status = recording.status]
                   r2 == [r1 EXCEPT !.attempts = recording.attempts]
        <3>1. r0 = r2
            OBVIOUS
        <3> HIDE DEF r0
        <3>2. IsReport(r1) /\ r1.status = recording.status
            BY <1>6, StatusSet
        <3> HIDE DEF r1
        <3>3. IsReport(r2) /\ r2.status = recording.status /\ r2.attempts = recording.attempts
            BY <3>2, AttemptsSet
        <3> QED
            BY <3>1, <3>3
    <2>2. SUFFICES ASSUME recording.status \notin CutShort, \A i \in 1 .. Len(days) : ~Outage(days[i])
                   PROVE  /\ report'.status = Rescored(day, r0).status
                          /\ AsRecorded(report'.attempts) = recording.attempts
                          /\ Outage(day) \/ report'.attempts = Rescored(day, r0).attempts
        <3>1. \A i \in 1 .. Len(days) : days'[i] = days[i] /\ Len(days') - 1 = Len(days)
            BY <1>2
        <3>2. Len(days') - 1 = Len(days)
            BY <1>2
        <3> QED
            BY <1>1, <1>3, <3>1, <3>2 DEF RescoreStable
    <2>3. Alike(report, recording)
        BY <2>2 DEF CleanIsAlike, Clean
    <2> HIDE DEF r0
    <2>4. LikeRecorded(report, r0)
        BY <1>4, <2>1 DEF LikeRecorded, StillRecorded
    <2>5. NothingToReplay(r0) <=> NothingToReplay(recording)
        BY <2>1 DEF NothingToReplay
    <2>6. /\ Rescored(day, report).status = Rescored(day, r0).status
          /\ ~Outage(day) => Rescored(day, report).attempts = Rescored(day, r0).attempts
        BY <1>4, <2>1, <2>2, <2>3, <2>4, <2>5, RescoredAlike DEF Alike, StillRecorded
    <2> QED
        BY <1>1, <1>6, <2>6 DEF StillRecorded
<1> QED
    BY <1>6, <1>8, <1>9

\* Whatever recordings, days and number of rescores: every recorded attempt stays in the report, and
\* today's verdict and replay are those of the recording, whichever validators judged it in between.
THEOREM RescoreIsStable == RescoreSpec => []RescoreStable
<1>1. RescoreInit => RescoreIInv
    BY RescoreInitSound
<1>2. RescoreIInv /\ [RescoreNext]_rescoreVars => RescoreIInv'
    <2> SUFFICES ASSUME RescoreIInv, [RescoreNext]_rescoreVars
                 PROVE  RescoreIInv'
        OBVIOUS
    <2>1. CASE UNCHANGED rescoreVars
        BY <2>1 DEF rescoreVars, RescoreIInv, RescoreTyped, StillRecorded, CleanIsAlike, Clean, RescoreStable
    <2>2. CASE RescoreNext
        BY <2>2, RescoreSound DEF RescoreNext
    <2> QED
        BY <2>1, <2>2
<1>3. RescoreIInv => RescoreStable
    BY DEF RescoreIInv
<1> QED
    BY <1>1, <1>2, <1>3, PTL DEF RescoreSpec
-----------------------------------------------------------------------------
(* The compact form of a repetition.                                         *)

RepetitionOf(status, truncated, inherited, attempts, final, shared, usage, cost) ==
    [status |-> status, replayTruncated |-> truncated, inherited |-> inherited, attempts |-> attempts,
     final |-> final, shared |-> shared, usage |-> usage, cost |-> cost]
AttemptOf(sql, mark, usage, cost) == [sql |-> sql, mark |-> mark, usage |-> usage, cost |-> cost]

\* What is read of a value, and what of it a compact report keeps.
LEMMA ValueParts ==
    ASSUME NEW v, IsValue(v)
    PROVE  /\ IsValue(ReadPart(v)) /\ IsValue(OrNull(v)) /\ IsValue(ReadPart(OrNull(v)))
           /\ ReadPart(ReadPart(v)) = ReadPart(v) /\ ReadPart(v).is = v.is /\ ReadPart(v).read = v.read
           /\ ReadPart(v) = Unset <=> v = Unset
           /\ OrNull(ReadPart(v)) = ReadPart(OrNull(v))
           /\ OrNull(v).is = "null" <=> v.is # "some"
           /\ v.is # "some" => OrNull(v) = NullValue
           /\ v.is = "some" => OrNull(v) = v /\ ReadPart(v) = Value(v.read, 0)
<1>1. /\ NullValue = [is |-> "null", read |-> 0, other |-> 0] /\ Unset.is = "absent" /\ NullValue.is = "null" /\ Unset # NullValue
      /\ \A a, b : Value(a, b).is = "some" /\ Value(a, b).read = a /\ Value(a, b).other = b
    BY DEF NullValue, Unset, Value
<1>2. ReadPart(Unset) = Unset /\ ReadPart(NullValue) = NullValue
    BY <1>1 DEF ReadPart, Unset
<1>3. \A a, b : ReadPart(Value(a, b)) = Value(a, 0)
    BY DEF ReadPart, Value
<1>4. IsValue(Unset) /\ IsValue(NullValue) /\ \A a, b : IsValue(Value(a, b))
    BY <1>1 DEF IsValue
<1>5. v \in {Unset, NullValue} \/ v = Value(v.read, v.other)
    BY DEF IsValue
<1>6. OrNull(Unset) = NullValue /\ OrNull(NullValue) = NullValue /\ \A a, b : OrNull(Value(a, b)) = Value(a, b)
    BY <1>1 DEF OrNull
<1> HIDE DEF Unset, NullValue, Value, ReadPart, OrNull, IsValue
<1> QED
    BY <1>1, <1>2, <1>3, <1>4, <1>5, <1>6

LEMMA RepetitionParts ==
    ASSUME NEW a, NEW b, NEW c, NEW d, NEW e, NEW f, NEW g, NEW h
    PROVE  LET r == RepetitionOf(a, b, c, d, e, f, g, h) IN
           /\ r.status = a /\ r.replayTruncated = b /\ r.inherited = c /\ r.attempts = d
           /\ r.final = e /\ r.shared = f /\ r.usage = g /\ r.cost = h
    BY DEF RepetitionOf

LEMMA RepetitionSet ==
    ASSUME NEW a, NEW b, NEW c, NEW d, NEW e, NEW f, NEW g, NEW h
    PROVE  LET r == RepetitionOf(a, b, c, d, e, f, g, h) IN
           /\ \A x : [r EXCEPT !.status = x] = RepetitionOf(x, b, c, d, e, f, g, h)
           /\ \A x : [r EXCEPT !.replayTruncated = x] = RepetitionOf(a, x, c, d, e, f, g, h)
           /\ \A x : [r EXCEPT !.inherited = x] = RepetitionOf(a, b, x, d, e, f, g, h)
           /\ \A x : [r EXCEPT !.attempts = x] = RepetitionOf(a, b, c, x, e, f, g, h)
           /\ \A x : [r EXCEPT !.final = x] = RepetitionOf(a, b, c, d, x, f, g, h)
           /\ \A x : [r EXCEPT !.shared = x] = RepetitionOf(a, b, c, d, e, x, g, h)
           /\ \A x : [r EXCEPT !.usage = x] = RepetitionOf(a, b, c, d, e, f, x, h)
           /\ \A x : [r EXCEPT !.cost = x] = RepetitionOf(a, b, c, d, e, f, g, x)
<1> DEFINE r == RepetitionOf(a, b, c, d, e, f, g, h)
<1>1. \A x : [r EXCEPT !.status = x] = RepetitionOf(x, b, c, d, e, f, g, h)
    BY DEF RepetitionOf
<1>2. \A x : [r EXCEPT !.replayTruncated = x] = RepetitionOf(a, x, c, d, e, f, g, h)
    BY DEF RepetitionOf
<1>3. \A x : [r EXCEPT !.inherited = x] = RepetitionOf(a, b, x, d, e, f, g, h)
    BY DEF RepetitionOf
<1>4. \A x : [r EXCEPT !.attempts = x] = RepetitionOf(a, b, c, x, e, f, g, h)
    BY DEF RepetitionOf
<1>5. \A x : [r EXCEPT !.final = x] = RepetitionOf(a, b, c, d, x, f, g, h)
    BY DEF RepetitionOf
<1>6. \A x : [r EXCEPT !.shared = x] = RepetitionOf(a, b, c, d, e, x, g, h)
    BY DEF RepetitionOf
<1>7. \A x : [r EXCEPT !.usage = x] = RepetitionOf(a, b, c, d, e, f, x, h)
    BY DEF RepetitionOf
<1>8. \A x : [r EXCEPT !.cost = x] = RepetitionOf(a, b, c, d, e, f, g, x)
    BY DEF RepetitionOf
<1> QED
    BY <1>1, <1>2, <1>3, <1>4, <1>5, <1>6, <1>7, <1>8

LEMMA AttemptParts ==
    ASSUME NEW a, NEW b, NEW c, NEW d
    PROVE  LET k == AttemptOf(a, b, c, d) IN
           /\ k.sql = a /\ k.mark = b /\ k.usage = c /\ k.cost = d
           /\ \A x : [k EXCEPT !.mark = x] = AttemptOf(a, x, c, d)
           /\ \A x : [k EXCEPT !.usage = x] = AttemptOf(a, b, x, d)
           /\ \A x : [k EXCEPT !.cost = x] = AttemptOf(a, b, c, x)
    BY DEF AttemptOf

\* A list of attempts is given by their fields.
AttemptsOf(n, sql, mark, usage, cost) == [i \in 1 .. n |-> AttemptOf(sql[i], mark[i], usage[i], cost[i])]

LEMMA AttemptTyped ==
    ASSUME NEW k
    PROVE  IsAttempt(k) <=> k = AttemptOf(k.sql, k.mark, k.usage, k.cost) /\ IsValue(k.usage) /\ IsValue(k.cost)
    BY DEF IsAttempt, AttemptOf

LEMMA RepetitionTyped ==
    ASSUME NEW r
    PROVE  IsRepetition(r) <=>
              /\ r = RepetitionOf(r.status, r.replayTruncated, r.inherited, r.attempts, r.final, r.shared, r.usage, r.cost)
              /\ r.attempts \in Seq(Range(r.attempts)) /\ \A i \in DOMAIN r.attempts : IsAttempt(r.attempts[i])
              /\ r.shared \in {0} \cup DOMAIN r.attempts
              /\ IsValue(r.usage) /\ IsValue(r.cost)
    BY DEF IsRepetition, RepetitionOf

LEMMA BuiltList ==
    ASSUME NEW n \in Nat, NEW a, DOMAIN a = 1 .. n, a = [i \in 1 .. n |-> a[i]]
    PROVE  a \in Seq(Range(a)) /\ Len(a) = n
<1>1. \A i \in 1 .. n : a[i] \in Range(a)
    BY DEF Range
<1>2. a \in [1 .. n -> Range(a)]
    BY <1>1
<1> QED
    BY <1>2

\* The last SQL depends on the SQLs alone, and there is one only if an attempt has one.
SameSqls(a, b) == Len(a) = Len(b) /\ DOMAIN a = DOMAIN b /\ \A i \in DOMAIN a : a[i].sql = b[i].sql
IsList(a) == Len(a) \in Nat /\ DOMAIN a = 1 .. Len(a)

LEMMA LastSqlAlike ==
    ASSUME NEW a, NEW b, IsList(a), SameSqls(a, b), NEW n, NEW none
    PROVE  /\ LastSql(a, n, none) = LastSql(b, n, none)
           /\ LastSql(a, n, none) = none \/ \E i \in DOMAIN a : HasSql(a[i])
<1> DEFINE with(k) == {i \in DOMAIN k : i <= n /\ HasSql(k[i])}
<1>1. with(a) = with(b) /\ with(a) \in SUBSET (1 .. Len(a))
    BY DEF SameSqls, HasSql, IsList
<1>2. with(a) # {} => Max(with(a)) \in with(a)
    <2> DEFINE W == with(a)
    <2>1. W \in SUBSET (1 .. Len(a)) /\ Len(a) \in Nat
        BY <1>1 DEF IsList
    <2> HIDE DEF W
    <2>2. W # {} => Max(W) \in W
        BY <2>1, GreatestNumber
    <2> QED
        BY <2>2 DEF W
<1> QED
    BY <1>1, <1>2 DEF LastSql, SameSqls

\* A step of EXCEPT into an attempt of a repetition.
LEMMA AttemptSet ==
    ASSUME NEW r, NEW n, NEW x, NEW y
    PROVE  [r EXCEPT !.attempts[n].usage = x, !.attempts[n].cost = y] =
              LET one == [r.attempts EXCEPT ![n] = [r.attempts[n] EXCEPT !.usage = x]]
                  r1 == [r EXCEPT !.attempts = one]
              IN  [r1 EXCEPT !.attempts = [r1.attempts EXCEPT ![n] = [r1.attempts[n] EXCEPT !.cost = y]]]
    OBVIOUS

\* The figures of attempt n replaced.
WithFigures(attempts, n, usage, cost) ==
    [i \in DOMAIN attempts |->
        IF i = n THEN AttemptOf(attempts[i].sql, attempts[i].mark, usage, cost) ELSE attempts[i]]

FiguresPut(r, n, x, y) == [r EXCEPT !.attempts[n].usage = x, !.attempts[n].cost = y]

LEMMA FiguresSet ==
    ASSUME NEW r, IsRepetition(r), NEW n \in DOMAIN r.attempts, NEW x, NEW y
    PROVE  FiguresPut(r, n, x, y) =
              RepetitionOf(r.status, r.replayTruncated, r.inherited, WithFigures(r.attempts, n, x, y),
                           r.final, r.shared, r.usage, r.cost)
<1> DEFINE a == r.attempts
           k == AttemptOf(a[n].sql, a[n].mark, x, a[n].cost)
           one == [a EXCEPT ![n] = [a[n] EXCEPT !.usage = x]]
           two == [one EXCEPT ![n] = [one[n] EXCEPT !.cost = y]]
           Is(b) == RepetitionOf(r.status, r.replayTruncated, r.inherited, b, r.final, r.shared, r.usage, r.cost)
<1>1. r = Is(a)
    BY RepetitionTyped
<1>2. \A i \in DOMAIN a : a[i] = AttemptOf(a[i].sql, a[i].mark, a[i].usage, a[i].cost)
    BY RepetitionTyped, AttemptTyped
<1>3. [a[n] EXCEPT !.usage = x] = k /\ [k EXCEPT !.cost = y] = AttemptOf(a[n].sql, a[n].mark, x, y)
    BY <1>2, AttemptParts
<1>4. a = [i \in DOMAIN a |-> a[i]]
    BY RepetitionTyped
<1>5. one = [i \in DOMAIN a |-> IF i = n THEN k ELSE a[i]]
    BY <1>3, <1>4
<1>6. two = WithFigures(a, n, x, y)
    BY <1>3, <1>5 DEF WithFigures
<1>7. [r EXCEPT !.attempts = one] = Is(one) /\ Is(one).attempts = one /\ [Is(one) EXCEPT !.attempts = two] = Is(two)
    <2> HIDE DEF a, one, two
    <2>1. \A b : [Is(a) EXCEPT !.attempts = b] = Is(b)
        BY RepetitionSet
    <2>2. \A b : Is(b).attempts = b
        BY RepetitionParts
    <2>3. \A b, c : [Is(b) EXCEPT !.attempts = c] = Is(c)
        BY RepetitionSet
    <2> QED
        BY <1>1, <2>1, <2>2, <2>3
<1>8. FiguresPut(r, n, x, y) =
          LET r1 == [r EXCEPT !.attempts = one]
          IN  [r1 EXCEPT !.attempts = [r1.attempts EXCEPT ![n] = [r1.attempts[n] EXCEPT !.cost = y]]]
    BY AttemptSet DEF FiguresPut
<1> HIDE DEF one, Is, a, k
<1>9. QED
    BY <1>6, <1>7, <1>8 DEF Is, a

\* What the statistics read is the same of two repetitions.
SameReading(a, b) ==
    /\ a.status = b.status /\ a.inherited = b.inherited /\ a.replayTruncated = b.replayTruncated
    /\ DOMAIN a.attempts = DOMAIN b.attempts
    /\ \A i \in DOMAIN a.attempts : a.attempts[i].sql = b.attempts[i].sql /\ a.attempts[i].mark = b.attempts[i].mark
HasSomeSql(r) == r.final \notin {"absent", NoSql} \/ \E i \in DOMAIN r.attempts : HasSql(r.attempts[i])
SameTotals(a, b) ==
    /\ OrNull(a.usage).read = OrNull(b.usage).read /\ OrNull(a.usage).is = OrNull(b.usage).is
    /\ OrNull(a.cost).read = OrNull(b.cost).read /\ OrNull(a.cost).is = OrNull(b.cost).is

LEMMA ReadAlike ==
    ASSUME NEW a, NEW b
    PROVE  Read(a) = Read(b) <=> SameReading(a, b) /\ SameTotals(a, b) /\ HasSomeSql(a) = HasSomeSql(b)
<1> DEFINE list(r) == [i \in DOMAIN r.attempts |-> <<r.attempts[i].sql, r.attempts[i].mark>>]
           Parts(s, t, u, c, d, e, f, g, h) ==
               [status |-> s, inherited |-> t, truncated |-> u, tokens |-> c, asked |-> d, total |-> e, priced |-> f,
                attempts |-> g, sql |-> h]
           Of(r) == Parts(r.status, r.inherited, r.replayTruncated, OrNull(r.usage).read, OrNull(r.usage).is,
                          OrNull(r.cost).read, OrNull(r.cost).is, list(r), HasSomeSql(r))
<1>1. Read(a) = Of(a) /\ Read(b) = Of(b)
    BY DEF Read, HasSomeSql
<1>2. \A s, t, u, c, d, e, f, g, h, s1, t1, u1, c1, d1, e1, f1, g1, h1 :
          Parts(s, t, u, c, d, e, f, g, h) = Parts(s1, t1, u1, c1, d1, e1, f1, g1, h1) <=>
              s = s1 /\ t = t1 /\ u = u1 /\ c = c1 /\ d = d1 /\ e = e1 /\ f = f1 /\ g = g1 /\ h = h1
    OBVIOUS
<1>3. list(a) = list(b) <=>
          /\ DOMAIN a.attempts = DOMAIN b.attempts
          /\ \A i \in DOMAIN a.attempts : a.attempts[i].sql = b.attempts[i].sql /\ a.attempts[i].mark = b.attempts[i].mark
    <2>1. DOMAIN list(a) = DOMAIN a.attempts /\ DOMAIN list(b) = DOMAIN b.attempts
        OBVIOUS
    <2>2. ASSUME list(a) = list(b), NEW i \in DOMAIN a.attempts
          PROVE  a.attempts[i].sql = b.attempts[i].sql /\ a.attempts[i].mark = b.attempts[i].mark
        <3>1. list(a)[i] = <<a.attempts[i].sql, a.attempts[i].mark>> /\ list(b)[i] = <<b.attempts[i].sql, b.attempts[i].mark>>
            BY <2>1, <2>2
        <3> HIDE DEF list
        <3> QED
            BY <2>2, <3>1
    <2>3. ASSUME DOMAIN a.attempts = DOMAIN b.attempts,
                 \A i \in DOMAIN a.attempts : a.attempts[i].sql = b.attempts[i].sql /\ a.attempts[i].mark = b.attempts[i].mark
          PROVE  list(a) = list(b)
        BY <2>3
    <2> HIDE DEF list
    <2> QED
        BY <2>1, <2>2, <2>3
<1> HIDE DEF list, Parts
<1> QED
    BY <1>1, <1>2, <1>3 DEF SameReading, SameTotals

\* The figures that a rescore finds are the same.
SameFigure(v, w) == ReadPart(OrNull(v)) = ReadPart(OrNull(w))
SameFigures(a, b) ==
    /\ DOMAIN a = DOMAIN b
    /\ \A i \in DOMAIN a : SameFigure(a[i].usage, b[i].usage) /\ SameFigure(a[i].cost, b[i].cost)

LEMMA FiguresAlike ==
    ASSUME NEW a, NEW b, DOMAIN Restored(a).attempts = DOMAIN a.attempts, DOMAIN Restored(b).attempts = DOMAIN b.attempts
    PROVE  Figures(a) = Figures(b) <=>
              Restored(a).final = Restored(b).final /\ SameFigures(Restored(a).attempts, Restored(b).attempts)
<1> DEFINE usage(r, i) == ReadPart(OrNull(Restored(r).attempts[i].usage))
           cost(r, i) == ReadPart(OrNull(Restored(r).attempts[i].cost))
           list(r) == [i \in DOMAIN r.attempts |-> <<usage(r, i), cost(r, i)>>]
<1>1. Figures(a) = <<Restored(a).final, list(a)>> /\ Figures(b) = <<Restored(b).final, list(b)>>
    BY DEF Figures
<1>2. Figures(a) = Figures(b) <=> Restored(a).final = Restored(b).final /\ list(a) = list(b)
    <2> HIDE DEF list
    <2> QED
        BY <1>1
<1>3. list(a) = list(b) <=> SameFigures(Restored(a).attempts, Restored(b).attempts)
    <2> SUFFICES list(a) = list(b) <=>
                   /\ DOMAIN a.attempts = DOMAIN b.attempts
                   /\ \A i \in DOMAIN a.attempts : usage(a, i) = usage(b, i) /\ cost(a, i) = cost(b, i)
        BY DEF SameFigures, SameFigure
    <2> HIDE DEF usage, cost
    <2>1. DOMAIN list(a) = DOMAIN a.attempts /\ DOMAIN list(b) = DOMAIN b.attempts
        OBVIOUS
    <2>2. ASSUME list(a) = list(b), NEW i \in DOMAIN a.attempts
          PROVE  usage(a, i) = usage(b, i) /\ cost(a, i) = cost(b, i)
        <3>1. list(a)[i] = <<usage(a, i), cost(a, i)>> /\ list(b)[i] = <<usage(b, i), cost(b, i)>>
            BY <2>1, <2>2
        <3> HIDE DEF list
        <3> QED
            BY <2>2, <3>1
    <2>3. ASSUME DOMAIN a.attempts = DOMAIN b.attempts,
                 \A i \in DOMAIN a.attempts : usage(a, i) = usage(b, i) /\ cost(a, i) = cost(b, i)
          PROVE  list(a) = list(b)
        BY <2>3
    <2> HIDE DEF list
    <2> QED
        BY <2>1, <2>2, <2>3
<1> HIDE DEF list
<1> QED
    BY <1>2, <1>3

TypedList(a) == a \in Seq(Range(a)) /\ \A i \in DOMAIN a : IsAttempt(a[i])

LEMMA ListFacts ==
    ASSUME NEW a, TypedList(a)
    PROVE  IsList(a) /\ a = [i \in DOMAIN a |-> a[i]]
    BY DEF TypedList, IsList

LEMMA ListTyped ==
    ASSUME NEW n \in Nat, NEW a, DOMAIN a = 1 .. n, a = [i \in 1 .. n |-> a[i]], \A i \in 1 .. n : IsAttempt(a[i])
    PROVE  TypedList(a) /\ Len(a) = n
    BY BuiltList DEF TypedList

LEMMA FreshAttempt ==
    ASSUME NEW q, NEW m, NEW u, NEW c, IsValue(u), IsValue(c)
    PROVE  IsAttempt(AttemptOf(q, m, u, c))
    BY AttemptParts, AttemptTyped

LEMMA FreshRepetition ==
    ASSUME NEW s, NEW t, NEW i, NEW a, NEW f, NEW n, NEW u, NEW c,
           TypedList(a), n \in {0} \cup DOMAIN a, IsValue(u), IsValue(c)
    PROVE  IsRepetition(RepetitionOf(s, t, i, a, f, n, u, c))
<1> DEFINE r == RepetitionOf(s, t, i, a, f, n, u, c)
<1>1. /\ r.status = s /\ r.replayTruncated = t /\ r.inherited = i /\ r.attempts = a
      /\ r.final = f /\ r.shared = n /\ r.usage = u /\ r.cost = c
    BY RepetitionParts
<1>2. r = RepetitionOf(r.status, r.replayTruncated, r.inherited, r.attempts, r.final, r.shared, r.usage, r.cost)
    BY <1>1
<1> HIDE DEF r
<1>3. IsRepetition(r)
    BY <1>1, <1>2, RepetitionTyped DEF TypedList
<1> QED
    BY <1>3 DEF r

LEMMA WithFiguresTyped ==
    ASSUME NEW a, TypedList(a), NEW n, NEW u, NEW c, IsValue(u), IsValue(c)
    PROVE  LET b == WithFigures(a, n, u, c) IN
           /\ TypedList(b) /\ Len(b) = Len(a) /\ DOMAIN b = DOMAIN a
           /\ \A i \in DOMAIN a :
                /\ b[i].sql = a[i].sql /\ b[i].mark = a[i].mark
                /\ b[i].usage = IF i = n THEN u ELSE a[i].usage
                /\ b[i].cost = IF i = n THEN c ELSE a[i].cost
<1> DEFINE b == WithFigures(a, n, u, c)
           k(i) == AttemptOf(a[i].sql, a[i].mark, u, c)
<1>1. Len(a) \in Nat /\ DOMAIN a = 1 .. Len(a)
    BY ListFacts DEF IsList
<1>2. /\ DOMAIN b = 1 .. Len(a) /\ b = [i \in 1 .. Len(a) |-> b[i]]
      /\ \A i \in 1 .. Len(a) : b[i] = IF i = n THEN k(i) ELSE a[i]
    BY <1>1 DEF WithFigures
<1>3. \A i : IsAttempt(k(i)) /\ k(i).sql = a[i].sql /\ k(i).mark = a[i].mark /\ k(i).usage = u /\ k(i).cost = c
    BY FreshAttempt, AttemptParts
<1> HIDE DEF b, k
<1>4. \A i \in 1 .. Len(a) : IsAttempt(b[i])
    BY <1>1, <1>2, <1>3 DEF TypedList
<1>5. TypedList(b) /\ Len(b) = Len(a)
    BY <1>1, <1>2, <1>4, ListTyped
<1> QED
    BY <1>1, <1>2, <1>3, <1>5 DEF b

-----------------------------------------------------------------------------
\* What a reader puts back.
CostBack(v) == IF v.is = "some" THEN ReadPart(v) ELSE NullValue

LEMMA RestoredIs ==
    ASSUME NEW r, IsRepetition(r)
    PROVE  LET w == Restored(r) IN
           /\ IsRepetition(w) /\ w.shared = 0 /\ SameReading(w, r) /\ w.usage = r.usage /\ w.cost = r.cost
           /\ Len(w.attempts) = Len(r.attempts)
           /\ w.final = IF r.final = "absent" THEN FinalAttemptSql(r.attempts) ELSE r.final
           /\ \A i \in DOMAIN r.attempts :
                /\ w.attempts[i].usage = IF i = r.shared THEN OrNull(r.usage) ELSE r.attempts[i].usage
                /\ w.attempts[i].cost = IF i = r.shared THEN CostBack(r.cost) ELSE r.attempts[i].cost
<1> DEFINE w == Restored(r)
           n == r.shared
           a == r.attempts
           b == WithFigures(a, n, OrNull(r.usage), CostBack(r.cost))
           list == IF n = 0 THEN a ELSE b
           Of(k, f, s) == RepetitionOf(r.status, r.replayTruncated, r.inherited, k, f, s, r.usage, r.cost)
           back == IF n = 0 THEN r
                   ELSE FiguresPut(r, n, OrNull(r.usage), CostBack(r.cost))
           none == 0
           sql == IF r.final = "absent" THEN FinalAttemptSql(r.attempts) ELSE r.final
<1>1. TypedList(a) /\ n \in {0} \cup DOMAIN a /\ IsValue(r.usage) /\ IsValue(r.cost) /\ r = Of(a, r.final, n)
    BY RepetitionTyped DEF TypedList
<1>2. IsValue(OrNull(r.usage)) /\ IsValue(CostBack(r.cost))
    BY <1>1, ValueParts DEF CostBack, IsValue
<1>3. back = Of(list, r.final, n)
    <2>1. CASE n = 0
        BY <1>1, <2>1
    <2>2. CASE n # 0
        <3>1. n \in DOMAIN r.attempts
            BY <1>1, <2>2
        <3>2. FiguresPut(r, n, OrNull(r.usage), CostBack(r.cost)) = Of(b, r.final, n)
            BY <3>1, FiguresSet
        <3> QED
            BY <2>2, <3>2
    <2> QED
        BY <2>1, <2>2
<1>4. back.final = r.final
    BY <1>3, RepetitionParts
<1>5. w = [[back EXCEPT !.shared = none] EXCEPT !.final = sql]
    <2>1. w = [back EXCEPT !.shared = none, !.final = IF back.final = "absent" THEN FinalAttemptSql(r.attempts) ELSE back.final]
        BY DEF Restored, CostBack, FiguresPut
    <2> QED
        BY <1>4, <2>1
<1>6. w = Of(list, sql, none)
    <2> DEFINE SetShared(k, x) == [k EXCEPT !.shared = x]
               SetFinal(k, x) == [k EXCEPT !.final = x]
    <2>1. w = SetFinal(SetShared(back, none), sql)
        BY <1>5
    <2> HIDE DEF back, list, none, sql, w
    <2>2. \A k, f, s, x : SetShared(Of(k, f, s), x) = Of(k, f, x)
        BY RepetitionSet
    <2>3. \A k, f, s, x : SetFinal(Of(k, f, s), x) = Of(k, x, s)
        BY RepetitionSet
    <2> HIDE DEF Of, SetShared, SetFinal
    <2> QED
        BY <1>3, <2>1, <2>2, <2>3
<1>7. /\ TypedList(b) /\ Len(b) = Len(a) /\ DOMAIN b = DOMAIN a
      /\ \A i \in DOMAIN a :
            /\ b[i].sql = a[i].sql /\ b[i].mark = a[i].mark
            /\ b[i].usage = IF i = n THEN OrNull(r.usage) ELSE a[i].usage
            /\ b[i].cost = IF i = n THEN CostBack(r.cost) ELSE a[i].cost
    BY <1>1, <1>2, WithFiguresTyped
<1>8. 0 \notin DOMAIN a
    BY <1>1, ListFacts DEF IsList
<1>9. /\ TypedList(list) /\ Len(list) = Len(a) /\ DOMAIN list = DOMAIN a
      /\ \A i \in DOMAIN a :
            /\ list[i].sql = a[i].sql /\ list[i].mark = a[i].mark
            /\ list[i].usage = IF i = n THEN OrNull(r.usage) ELSE a[i].usage
            /\ list[i].cost = IF i = n THEN CostBack(r.cost) ELSE a[i].cost
    <2> HIDE DEF b
    <2> QED
        BY <1>1, <1>7, <1>8
<1>10. IsRepetition(w)
    <2> HIDE DEF list, sql
    <2> QED
        BY <1>1, <1>6, <1>9, FreshRepetition
<1>11. /\ w.status = r.status /\ w.replayTruncated = r.replayTruncated /\ w.inherited = r.inherited /\ w.attempts = list
       /\ w.final = sql /\ w.shared = 0 /\ w.usage = r.usage /\ w.cost = r.cost
    <2> HIDE DEF list, sql
    <2> QED
        BY <1>6, RepetitionParts
<1> HIDE DEF w, list
<1> QED
    BY <1>9, <1>10, <1>11 DEF SameReading, w

-----------------------------------------------------------------------------
\* A repetition with the parts of its values that are read, and its final SQL left out if its
\* attempts have it.
ShortList(a) == [i \in DOMAIN a |-> AttemptOf(a[i].sql, a[i].mark, ReadPart(a[i].usage), ReadPart(a[i].cost))]
Shortened(r) ==
    RepetitionOf(r.status, r.replayTruncated, r.inherited, ShortList(r.attempts),
                 IF r.final = FinalAttemptSql(ShortList(r.attempts)) THEN "absent" ELSE r.final,
                 r.shared, ReadPart(r.usage), ReadPart(r.cost))

LEMMA ShortListIs ==
    ASSUME NEW a, TypedList(a)
    PROVE  LET b == ShortList(a) IN
           /\ b = [i \in DOMAIN a |-> [a[i] EXCEPT !.usage = ReadPart(@), !.cost = ReadPart(@)]]
           /\ TypedList(b) /\ Len(b) = Len(a) /\ DOMAIN b = DOMAIN a
           /\ FinalAttemptSql(b) = FinalAttemptSql(a)
           /\ \A i \in DOMAIN a :
                /\ b[i].sql = a[i].sql /\ b[i].mark = a[i].mark
                /\ b[i].usage = ReadPart(a[i].usage) /\ b[i].cost = ReadPart(a[i].cost)
<1> DEFINE b == ShortList(a)
           k(i) == AttemptOf(a[i].sql, a[i].mark, ReadPart(a[i].usage), ReadPart(a[i].cost))
<1>1. IsList(a) /\ Len(a) \in Nat /\ DOMAIN a = 1 .. Len(a)
    BY ListFacts DEF IsList
<1>2. /\ DOMAIN b = 1 .. Len(a) /\ b = [i \in 1 .. Len(a) |-> b[i]]
      /\ \A i \in 1 .. Len(a) : b[i] = k(i)
    BY <1>1 DEF ShortList
<1>3. \A i \in DOMAIN a : /\ a[i] = AttemptOf(a[i].sql, a[i].mark, a[i].usage, a[i].cost)
                          /\ IsValue(ReadPart(a[i].usage)) /\ IsValue(ReadPart(a[i].cost))
    BY AttemptTyped, ValueParts DEF TypedList
<1>4. \A i \in DOMAIN a : [a[i] EXCEPT !.usage = ReadPart(@), !.cost = ReadPart(@)] = k(i)
    <2> TAKE i \in DOMAIN a
    <2> DEFINE q == a[i].sql
               m == a[i].mark
               u == a[i].usage
               c == a[i].cost
               k1 == [a[i] EXCEPT !.usage = ReadPart(u)]
    <2>1. [a[i] EXCEPT !.usage = ReadPart(@), !.cost = ReadPart(@)] = [k1 EXCEPT !.cost = ReadPart(k1.cost)]
        OBVIOUS
    <2>2. a[i] = AttemptOf(q, m, u, c)
        BY <1>3
    <2> HIDE DEF q, m, u, c
    <2>3. k1 = AttemptOf(q, m, ReadPart(u), c)
        BY <2>2, AttemptParts
    <2> HIDE DEF k1
    <2>4. k1.cost = c /\ [k1 EXCEPT !.cost = ReadPart(c)] = AttemptOf(q, m, ReadPart(u), ReadPart(c))
        BY <2>3, AttemptParts
    <2> QED
        BY <2>1, <2>4 DEF k1, q, m, u, c
<1>5. \A i \in DOMAIN a : /\ IsAttempt(k(i)) /\ k(i).sql = a[i].sql /\ k(i).mark = a[i].mark
                          /\ k(i).usage = ReadPart(a[i].usage) /\ k(i).cost = ReadPart(a[i].cost)
    BY <1>3, FreshAttempt, AttemptParts
<1>6. b = [i \in DOMAIN a |-> [a[i] EXCEPT !.usage = ReadPart(@), !.cost = ReadPart(@)]]
    BY <1>4 DEF ShortList
<1> HIDE DEF b, k
<1>7. TypedList(b) /\ Len(b) = Len(a)
    BY <1>1, <1>2, <1>5, ListTyped
<1>8. SameSqls(a, b)
    BY <1>1, <1>2, <1>5, <1>7 DEF SameSqls
<1>9. FinalAttemptSql(b) = FinalAttemptSql(a)
    <2>1. \A n : LastSql(a, n, NoSql) = LastSql(b, n, NoSql)
        BY <1>1, <1>8, LastSqlAlike
    <2> QED
        BY <1>7, <2>1 DEF FinalAttemptSql
<1> QED
    BY <1>1, <1>2, <1>5, <1>6, <1>7, <1>9 DEF b

LEMMA CompactedIs ==
    ASSUME NEW r, IsRepetition(r)
    PROVE  Compacted(r) = ShareSingleCallUsage(Shortened(r))
<1> DEFINE a == r.attempts
           list == ShortList(a)
           final == IF r.final = FinalAttemptSql(list) THEN "absent" ELSE r.final
           SetAttempts(k, x) == [k EXCEPT !.attempts = x]
           SetUsage(k, x) == [k EXCEPT !.usage = x]
           SetCost(k, x) == [k EXCEPT !.cost = x]
           SetFinal(k, x) == [k EXCEPT !.final = x]
           r1 == SetAttempts(r, list)
           r2 == SetUsage(r1, ReadPart(r1.usage))
           r3 == SetCost(r2, ReadPart(r2.cost))
           r4 == SetFinal(r3, IF r3.final = FinalAttemptSql(list) THEN "absent" ELSE r3.final)
           Of(k, f, u, c) == RepetitionOf(r.status, r.replayTruncated, r.inherited, k, f, r.shared, u, c)
<1>1. TypedList(a) /\ r = Of(a, r.final, r.usage, r.cost)
    BY RepetitionTyped DEF TypedList
<1>2. list = [i \in DOMAIN a |-> [a[i] EXCEPT !.usage = ReadPart(@), !.cost = ReadPart(@)]]
    BY <1>1, ShortListIs
<1>3. /\ \A k, f, u, c, x : SetAttempts(Of(k, f, u, c), x) = Of(x, f, u, c)
      /\ \A k, f, u, c, x : SetUsage(Of(k, f, u, c), x) = Of(k, f, x, c)
      /\ \A k, f, u, c, x : SetCost(Of(k, f, u, c), x) = Of(k, f, u, x)
      /\ \A k, f, u, c, x : SetFinal(Of(k, f, u, c), x) = Of(k, x, u, c)
    BY RepetitionSet
<1>4. \A k, f, u, c : Of(k, f, u, c).usage = u /\ Of(k, f, u, c).cost = c /\ Of(k, f, u, c).final = f
    BY RepetitionParts
<1>5. Compacted(r) = ShareSingleCallUsage(
          [r EXCEPT !.attempts = list, !.usage = ReadPart(@), !.cost = ReadPart(@),
                    !.final = IF @ = FinalAttemptSql(list) THEN "absent" ELSE @])
    BY <1>2 DEF Compacted
<1>6. [r EXCEPT !.attempts = list, !.usage = ReadPart(@), !.cost = ReadPart(@),
                !.final = IF @ = FinalAttemptSql(list) THEN "absent" ELSE @] = r4
    <2> HIDE DEF list
    <2> QED
        OBVIOUS
<1> HIDE DEF list, Of, SetAttempts, SetUsage, SetCost, SetFinal
<1>7. r1 = Of(list, r.final, r.usage, r.cost)
    BY <1>1, <1>3
<1>8. r2 = Of(list, r.final, ReadPart(r.usage), r.cost)
    BY <1>3, <1>4, <1>7
<1>9. r3 = Of(list, r.final, ReadPart(r.usage), ReadPart(r.cost))
    BY <1>3, <1>4, <1>8
<1>10. r4 = Of(list, final, ReadPart(r.usage), ReadPart(r.cost))
    BY <1>3, <1>4, <1>9
<1>11. Shortened(r) = r4
    BY <1>10 DEF Shortened, Of, list
<1> QED
    BY <1>5, <1>6, <1>11

-----------------------------------------------------------------------------
Figure(v) == ReadPart(OrNull(v))

LEMMA FigureParts ==
    ASSUME NEW v, IsValue(v)
    PROVE  Figure(ReadPart(v)) = Figure(v) /\ Figure(OrNull(v)) = Figure(v) /\ Figure(CostBack(v)) = Figure(v)
<1>1. OrNull(OrNull(v)) = OrNull(v)
    BY DEF OrNull, NullValue, Unset
<1>2. Figure(ReadPart(v)) = Figure(v)
    <2>1. IsValue(OrNull(v)) /\ OrNull(ReadPart(v)) = ReadPart(OrNull(v))
        BY ValueParts
    <2>2. ReadPart(ReadPart(OrNull(v))) = ReadPart(OrNull(v))
        BY <2>1, ValueParts
    <2> QED
        BY <2>1, <2>2 DEF Figure
<1>3. Figure(CostBack(v)) = Figure(v)
    <2>1. CASE v.is = "some"
        BY <1>2, <2>1 DEF CostBack
    <2>2. CASE v.is # "some"
        <3>1. CostBack(v) = OrNull(v)
            BY <2>2, ValueParts DEF CostBack
        <3> QED
            BY <1>1, <3>1 DEF Figure
    <2> QED
        BY <2>1, <2>2
<1> QED
    BY <1>1, <1>2, <1>3 DEF Figure

\* The figures of every call, those kept at the repetition put back.
LEMMA FiguresAre ==
    ASSUME NEW a, NEW b, IsRepetition(a), IsRepetition(b)
    PROVE  LET usage(r, i) == Figure(IF i = r.shared THEN r.usage ELSE r.attempts[i].usage)
               cost(r, i) == Figure(IF i = r.shared THEN r.cost ELSE r.attempts[i].cost)
           IN  Figures(a) = Figures(b) <=>
                  /\ Restored(a).final = Restored(b).final /\ DOMAIN a.attempts = DOMAIN b.attempts
                  /\ \A i \in DOMAIN a.attempts : usage(a, i) = usage(b, i) /\ cost(a, i) = cost(b, i)
<1> DEFINE usage(r, i) == Figure(IF i = r.shared THEN r.usage ELSE r.attempts[i].usage)
           cost(r, i) == Figure(IF i = r.shared THEN r.cost ELSE r.attempts[i].cost)
<1>1. ASSUME NEW r \in {a, b}
      PROVE  /\ DOMAIN Restored(r).attempts = DOMAIN r.attempts
             /\ \A i \in DOMAIN r.attempts : /\ Figure(Restored(r).attempts[i].usage) = usage(r, i)
                                             /\ Figure(Restored(r).attempts[i].cost) = cost(r, i)
    <2>1. IsRepetition(r)
        BY <1>1
    <2>2. IsValue(r.usage) /\ IsValue(r.cost)
        BY <2>1, RepetitionTyped
    <2>3. Figure(OrNull(r.usage)) = Figure(r.usage) /\ Figure(CostBack(r.cost)) = Figure(r.cost)
        BY <2>2, FigureParts
    <2>4. /\ DOMAIN Restored(r).attempts = DOMAIN r.attempts
          /\ \A i \in DOMAIN r.attempts :
                /\ Restored(r).attempts[i].usage = IF i = r.shared THEN OrNull(r.usage) ELSE r.attempts[i].usage
                /\ Restored(r).attempts[i].cost = IF i = r.shared THEN CostBack(r.cost) ELSE r.attempts[i].cost
        BY <2>1, RestoredIs DEF SameReading
    <2> QED
        BY <2>3, <2>4
<1>2. SameFigures(Restored(a).attempts, Restored(b).attempts) <=>
          /\ DOMAIN Restored(a).attempts = DOMAIN Restored(b).attempts
          /\ \A i \in DOMAIN Restored(a).attempts :
                /\ Figure(Restored(a).attempts[i].usage) = Figure(Restored(b).attempts[i].usage)
                /\ Figure(Restored(a).attempts[i].cost) = Figure(Restored(b).attempts[i].cost)
    BY DEF SameFigures, SameFigure, Figure
<1> HIDE DEF usage, cost
<1>3. Figures(a) = Figures(b) <=>
          Restored(a).final = Restored(b).final /\ SameFigures(Restored(a).attempts, Restored(b).attempts)
    BY <1>1, FiguresAlike
<1>4. Figures(a) = Figures(b) <=>
          /\ Restored(a).final = Restored(b).final /\ DOMAIN a.attempts = DOMAIN b.attempts
          /\ \A i \in DOMAIN a.attempts : usage(a, i) = usage(b, i) /\ cost(a, i) = cost(b, i)
    BY <1>1, <1>2, <1>3
<1> QED
    BY <1>4 DEF usage, cost

\* The values and the final SQL are those of a compact report.
IsShort(r) ==
    /\ ReadPart(r.usage) = r.usage /\ ReadPart(r.cost) = r.cost
    /\ \A i \in DOMAIN r.attempts :
          ReadPart(r.attempts[i].usage) = r.attempts[i].usage /\ ReadPart(r.attempts[i].cost) = r.attempts[i].cost
    /\ r.final = FinalAttemptSql(r.attempts) => r.final = "absent"

LEMMA SomeSqlKept ==
    ASSUME NEW a, NEW b, IsRepetition(a), SameReading(a, b), IsRepetition(b),
           b.final = a.final \/ (a.final = FinalAttemptSql(a.attempts) /\ b.final = "absent")
    PROVE  HasSomeSql(a) = HasSomeSql(b)
<1> DEFINE some(r) == \E i \in DOMAIN r.attempts : HasSql(r.attempts[i])
<1>1. some(a) <=> some(b)
    BY DEF SameReading, HasSql
<1>2. FinalAttemptSql(a.attempts) = NoSql \/ some(a)
    <2>1. IsList(a.attempts)
        BY RepetitionTyped, ListFacts DEF TypedList
    <2>2. SameSqls(a.attempts, a.attempts)
        BY DEF SameSqls
    <2>3. \A n, none : LastSql(a.attempts, n, none) = none \/ some(a)
        BY <2>1, <2>2, LastSqlAlike
    <2> QED
        BY <2>3 DEF FinalAttemptSql
<1> QED
    BY <1>1, <1>2 DEF HasSomeSql

LEMMA ShortenedKeeps ==
    ASSUME NEW r, IsRepetition(r)
    PROVE  LET s == Shortened(r) IN
           /\ IsRepetition(s) /\ IsShort(s) /\ Read(s) = Read(r) /\ Figures(s) = Figures(r)
<1> DEFINE s == Shortened(r)
           a == r.attempts
           list == ShortList(a)
           final == IF r.final = FinalAttemptSql(list) THEN "absent" ELSE r.final
<1>1. TypedList(a) /\ r.shared \in {0} \cup DOMAIN a /\ IsValue(r.usage) /\ IsValue(r.cost)
    BY RepetitionTyped DEF TypedList
<1>2. /\ TypedList(list) /\ Len(list) = Len(a) /\ DOMAIN list = DOMAIN a /\ FinalAttemptSql(list) = FinalAttemptSql(a)
      /\ \A i \in DOMAIN a : /\ list[i].sql = a[i].sql /\ list[i].mark = a[i].mark
                             /\ list[i].usage = ReadPart(a[i].usage) /\ list[i].cost = ReadPart(a[i].cost)
    BY <1>1, ShortListIs
<1>3. s = RepetitionOf(r.status, r.replayTruncated, r.inherited, list, final, r.shared, ReadPart(r.usage), ReadPart(r.cost))
    BY DEF Shortened
<1>4. \A v : IsValue(v) =>
          /\ IsValue(ReadPart(v)) /\ ReadPart(ReadPart(v)) = ReadPart(v) /\ OrNull(ReadPart(v)) = ReadPart(OrNull(v))
          /\ IsValue(OrNull(v)) /\ ReadPart(v).is = v.is /\ ReadPart(v).read = v.read /\ Figure(ReadPart(v)) = Figure(v)
    BY ValueParts, FigureParts
<1> HIDE DEF list, s, final
<1>5. /\ s.status = r.status /\ s.replayTruncated = r.replayTruncated /\ s.inherited = r.inherited /\ s.attempts = list
      /\ s.final = final /\ s.shared = r.shared /\ s.usage = ReadPart(r.usage) /\ s.cost = ReadPart(r.cost)
    BY <1>3, RepetitionParts
<1>6. IsRepetition(s)
    BY <1>1, <1>2, <1>3, <1>4, FreshRepetition
<1>7. \A i \in DOMAIN a : IsValue(a[i].usage) /\ IsValue(a[i].cost)
    BY <1>1, AttemptTyped DEF TypedList
<1>8. IsShort(s)
    <2>1. s.final = FinalAttemptSql(s.attempts) => s.final = "absent"
        BY <1>5 DEF final
    <2> QED
        BY <1>1, <1>2, <1>4, <1>5, <1>7, <2>1 DEF IsShort
<1>9. SameReading(r, s)
    BY <1>2, <1>5 DEF SameReading
<1>10. Read(s) = Read(r)
    <2>1. HasSomeSql(r) = HasSomeSql(s)
        BY <1>2, <1>5, <1>6, <1>9, SomeSqlKept DEF final
    <2>2. SameTotals(r, s)
        BY <1>1, <1>4, <1>5 DEF SameTotals
    <2> QED
        BY <1>9, <2>1, <2>2, ReadAlike
<1>11. Figures(s) = Figures(r)
    <2>1. Restored(s).final = Restored(r).final
        <3>1. /\ Restored(s).final = IF s.final = "absent" THEN FinalAttemptSql(s.attempts) ELSE s.final
              /\ Restored(r).final = IF r.final = "absent" THEN FinalAttemptSql(r.attempts) ELSE r.final
            BY <1>6, RestoredIs
        <3> QED
            BY <1>2, <1>5, <3>1 DEF final
    <2> DEFINE usage(k, i) == Figure(IF i = k.shared THEN k.usage ELSE k.attempts[i].usage)
               cost(k, i) == Figure(IF i = k.shared THEN k.cost ELSE k.attempts[i].cost)
    <2>2. \A i \in DOMAIN a : usage(s, i) = usage(r, i) /\ cost(s, i) = cost(r, i)
        BY <1>1, <1>2, <1>4, <1>5, <1>7
    <2>3. Figures(s) = Figures(r) <=>
              /\ Restored(s).final = Restored(r).final /\ DOMAIN s.attempts = DOMAIN r.attempts
              /\ \A i \in DOMAIN s.attempts : usage(s, i) = usage(r, i) /\ cost(s, i) = cost(r, i)
        BY <1>6, FiguresAre
    <2> HIDE DEF usage, cost
    <2> QED
        BY <1>2, <1>5, <2>1, <2>2, <2>3
<1> QED
    BY <1>6, <1>8, <1>10, <1>11 DEF s

\* What is short stays as it is.
LEMMA ShortStays ==
    ASSUME NEW r, IsRepetition(r), IsShort(r)
    PROVE  Shortened(r) = r
<1> DEFINE a == r.attempts
<1>1. TypedList(a) /\ r = RepetitionOf(r.status, r.replayTruncated, r.inherited, a, r.final, r.shared, r.usage, r.cost)
    BY RepetitionTyped DEF TypedList
<1>2. a = [i \in DOMAIN a |-> a[i]]
    BY <1>1, ListFacts
<1>3. \A i \in DOMAIN a : a[i] = AttemptOf(a[i].sql, a[i].mark, ReadPart(a[i].usage), ReadPart(a[i].cost))
    BY <1>1, AttemptTyped DEF TypedList, IsShort
<1>4. ShortList(a) = a
    BY <1>2, <1>3 DEF ShortList
<1> QED
    BY <1>1, <1>4 DEF Shortened, IsShort

\* The only call's figures, left to the repetition, are found there.
LEMMA SharedKeeps ==
    ASSUME NEW r, IsRepetition(r)
    PROVE  LET s == ShareSingleCallUsage(r) IN
           /\ IsRepetition(s) /\ Read(s) = Read(r) /\ Figures(s) = Figures(r)
           /\ IsShort(r) => IsShort(s)
           /\ s = r \/ s.shared # 0
<1> DEFINE s == ShareSingleCallUsage(r)
           a == r.attempts
           called == {i \in DOMAIN a : IsCalled(a[i])}
           one == CHOOSE i \in called : TRUE
           b == WithFigures(a, one, Unset, Unset)
           new == RepetitionOf(r.status, r.replayTruncated, r.inherited, b, r.final, one, r.usage, r.cost)
<1>1. TypedList(a) /\ r.shared \in {0} \cup DOMAIN a /\ IsValue(r.usage) /\ IsValue(r.cost)
    BY RepetitionTyped DEF TypedList
<1>2. IsList(a) /\ 0 \notin DOMAIN a
    BY <1>1, ListFacts DEF IsList
<1>3. CASE r.shared # 0 \/ Cardinality(called) # 1 \/ ~IsShared(r, a[one])
    <2>1. s = r
        BY <1>3 DEF ShareSingleCallUsage
    <2> HIDE DEF s
    <2> QED
        BY <2>1 DEF s
<1>4. CASE ~(r.shared # 0 \/ Cardinality(called) # 1 \/ ~IsShared(r, a[one]))
    <2>1. r.shared = 0 /\ Cardinality(called) = 1 /\ IsShared(r, a[one])
        BY <1>4
    <2>2. called # {}
        <3> HIDE DEF called
        <3> QED
            BY <2>1, FS_EmptySet
    <2>3. one \in DOMAIN a
        BY <2>2
    <2>4. s = new
        <3>1. s = FiguresPut([r EXCEPT !.shared = one], one, Unset, Unset)
            BY <1>4 DEF ShareSingleCallUsage, FiguresPut
        <3> DEFINE q == RepetitionOf(r.status, r.replayTruncated, r.inherited, a, r.final, one, r.usage, r.cost)
        <3>2. [r EXCEPT !.shared = one] = q
            <4>1. r = RepetitionOf(r.status, r.replayTruncated, r.inherited, a, r.final, r.shared, r.usage, r.cost)
                BY RepetitionTyped
            <4> DEFINE SetShared(k, x) == [k EXCEPT !.shared = x]
            <4>2. \A t, c, d, e, f, g, h, k, x : SetShared(RepetitionOf(t, c, d, e, f, g, h, k), x) = RepetitionOf(t, c, d, e, f, x, h, k)
                BY RepetitionSet
            <4> HIDE DEF SetShared, one
            <4>3. SetShared(r, one) = q
                BY <4>1, <4>2
            <4> QED
                BY <4>3 DEF SetShared
        <3> HIDE DEF one
        <3>3. /\ q.status = r.status /\ q.replayTruncated = r.replayTruncated /\ q.inherited = r.inherited /\ q.attempts = a
              /\ q.final = r.final /\ q.shared = one /\ q.usage = r.usage /\ q.cost = r.cost
            BY RepetitionParts
        <3>4. IsRepetition(q)
            BY <1>1, <2>3, FreshRepetition
        <3> HIDE DEF q
        <3>5. FiguresPut(q, one, Unset, Unset) =
                  RepetitionOf(q.status, q.replayTruncated, q.inherited, WithFigures(q.attempts, one, Unset, Unset),
                               q.final, q.shared, q.usage, q.cost)
            BY <2>3, <3>3, <3>4, FiguresSet
        <3>6. FiguresPut(q, one, Unset, Unset) = new
            BY <3>3, <3>5
        <3> QED
            BY <3>1, <3>2, <3>6
    <2>5. IsValue(Unset) /\ ReadPart(Unset) = Unset
        BY DEF IsValue, ReadPart, Unset
    <2> HIDE DEF one, s
    <2>6. /\ TypedList(b) /\ Len(b) = Len(a) /\ DOMAIN b = DOMAIN a
          /\ \A i \in DOMAIN a : /\ b[i].sql = a[i].sql /\ b[i].mark = a[i].mark
                                 /\ b[i].usage = IF i = one THEN Unset ELSE a[i].usage
                                 /\ b[i].cost = IF i = one THEN Unset ELSE a[i].cost
        BY <1>1, <2>5, WithFiguresTyped
    <2> HIDE DEF b
    <2>7. IsRepetition(s)
        BY <1>1, <2>3, <2>4, <2>6, FreshRepetition
    <2>8. /\ s.status = r.status /\ s.replayTruncated = r.replayTruncated /\ s.inherited = r.inherited /\ s.attempts = b
          /\ s.final = r.final /\ s.shared = one /\ s.usage = r.usage /\ s.cost = r.cost
        BY <2>4, RepetitionParts
    <2>9. SameReading(r, s)
        BY <2>6, <2>8 DEF SameReading
    <2>10. Read(s) = Read(r)
        <3>1. HasSomeSql(r) = HasSomeSql(s)
            BY <2>7, <2>8, <2>9, SomeSqlKept
        <3>2. SameTotals(r, s)
            BY <2>8 DEF SameTotals
        <3> QED
            BY <2>9, <3>1, <3>2, ReadAlike
    <2>11. IsList(b) /\ SameSqls(a, b)
        BY <2>6, ListFacts DEF SameSqls
    <2>12. FinalAttemptSql(b) = FinalAttemptSql(a)
        <3>1. \A n : LastSql(a, n, NoSql) = LastSql(b, n, NoSql)
            BY <1>2, <2>11, LastSqlAlike
        <3> QED
            BY <2>6, <3>1 DEF FinalAttemptSql
    <2>13. IsShort(r) => IsShort(s)
        BY <2>5, <2>6, <2>8, <2>12 DEF IsShort
    <2>14. Figures(s) = Figures(r)
        <3>1. Restored(s).final = Restored(r).final
            <4>1. /\ Restored(s).final = IF s.final = "absent" THEN FinalAttemptSql(s.attempts) ELSE s.final
                  /\ Restored(r).final = IF r.final = "absent" THEN FinalAttemptSql(r.attempts) ELSE r.final
                BY <2>7, RestoredIs
            <4> QED
                BY <2>8, <2>12, <4>1
        <3>2. IsValue(a[one].usage) /\ IsValue(a[one].cost)
            BY <1>1, <2>3, AttemptTyped DEF TypedList
        <3>3. Figure(r.usage) = Figure(a[one].usage)
            BY <2>1 DEF IsShared, Figure
        <3>4. Figure(r.cost) = Figure(a[one].cost)
            <4>1. CASE OrNull(a[one].cost).is = "null"
                <5>1. OrNull(r.cost).is = "null"
                    BY <2>1, <4>1 DEF IsShared
                <5>2. OrNull(a[one].cost) = NullValue /\ OrNull(r.cost) = NullValue
                    BY <1>1, <3>2, <4>1, <5>1, ValueParts
                <5> QED
                    BY <5>2 DEF Figure
            <4>2. CASE OrNull(a[one].cost).is # "null"
                <5>1. r.cost.is = "some" /\ a[one].cost.read = r.cost.read
                    BY <2>1, <4>2 DEF IsShared
                <5>2. a[one].cost.is = "some"
                    BY <3>2, <4>2, ValueParts
                <5>3. Figure(r.cost) = Value(r.cost.read, 0)
                    BY <1>1, <5>1, ValueParts DEF Figure
                <5>4. Figure(a[one].cost) = Value(a[one].cost.read, 0)
                    BY <3>2, <5>2, ValueParts DEF Figure
                <5> QED
                    BY <5>1, <5>3, <5>4
            <4> QED
                BY <4>1, <4>2
        <3> DEFINE usage(k, i) == Figure(IF i = k.shared THEN k.usage ELSE k.attempts[i].usage)
                   cost(k, i) == Figure(IF i = k.shared THEN k.cost ELSE k.attempts[i].cost)
        <3>5. \A i \in DOMAIN a : usage(s, i) = usage(r, i) /\ cost(s, i) = cost(r, i)
            BY <1>2, <2>1, <2>6, <2>8, <3>3, <3>4
        <3>6. Figures(s) = Figures(r) <=>
                  /\ Restored(s).final = Restored(r).final /\ DOMAIN s.attempts = DOMAIN r.attempts
                  /\ \A i \in DOMAIN s.attempts : usage(s, i) = usage(r, i) /\ cost(s, i) = cost(r, i)
            BY <2>7, FiguresAre
        <3> HIDE DEF usage, cost
        <3> QED
            BY <2>6, <2>8, <3>1, <3>5, <3>6
    <2> QED
        BY <1>2, <2>3, <2>7, <2>8, <2>10, <2>13, <2>14 DEF s
<1> QED
    BY <1>3, <1>4

\* Compacting changes nothing that a reader finds, and nothing when done again.
LEMMA CompactedKeeps ==
    ASSUME NEW r, IsRepetition(r)
    PROVE  LET c == Compacted(r) IN
           IsRepetition(c) /\ Read(c) = Read(r) /\ Figures(c) = Figures(r) /\ Compacted(c) = c
<1> DEFINE s == Shortened(r)
           c == ShareSingleCallUsage(s)
<1>1. IsRepetition(s) /\ IsShort(s) /\ Read(s) = Read(r) /\ Figures(s) = Figures(r)
    BY ShortenedKeeps
<1>2. Compacted(r) = c
    BY CompactedIs
<1> HIDE DEF s
<1>3. IsRepetition(c) /\ Read(c) = Read(s) /\ Figures(c) = Figures(s) /\ IsShort(c) /\ (c = s \/ c.shared # 0)
    BY <1>1, SharedKeeps
<1>4. ShareSingleCallUsage(c) = c
    <2>1. CASE c = s
        BY <2>1
    <2>2. CASE c.shared # 0
        <3> HIDE DEF c
        <3> QED
            BY <2>2 DEF ShareSingleCallUsage
    <2> QED
        BY <1>3, <2>1, <2>2
<1> HIDE DEF c
<1>5. Compacted(c) = ShareSingleCallUsage(Shortened(c)) /\ Shortened(c) = c
    BY <1>3, CompactedIs, ShortStays
<1> QED
    BY <1>1, <1>2, <1>3, <1>4, <1>5

-----------------------------------------------------------------------------
(* The rescore of a repetition and of its compact form.                      *)

\* What a rescore leaves of a repetition: its SQLs and figures.
Keeps(new, r) ==
    /\ IsRepetition(new) /\ new.usage = r.usage /\ new.cost = r.cost /\ new.shared = r.shared /\ new.final = r.final
    /\ DOMAIN new.attempts = DOMAIN r.attempts
    /\ \A i \in DOMAIN r.attempts : /\ new.attempts[i].sql = r.attempts[i].sql
                                    /\ new.attempts[i].usage = r.attempts[i].usage
                                    /\ new.attempts[i].cost = r.attempts[i].cost

Whole == FALSE
TruncatedAs(r, truncated) == [r EXCEPT !.replayTruncated = truncated]
FinalAs(r, sql) == [r EXCEPT !.final = sql]

LEMMA PartsSet ==
    ASSUME NEW r, IsRepetition(r), NEW s, NEW t, NEW i, NEW f
    PROVE  LET Of(a, b, c, d) == RepetitionOf(a, b, c, r.attempts, d, r.shared, r.usage, r.cost)
               new == Of(s, t, i, f)
           IN  /\ r = Of(r.status, r.replayTruncated, r.inherited, r.final)
               /\ IsRepetition(new) /\ new.status = s /\ new.replayTruncated = t /\ new.inherited = i
               /\ new.attempts = r.attempts /\ new.final = f /\ new.shared = r.shared
               /\ new.usage = r.usage /\ new.cost = r.cost
<1>1. /\ r = RepetitionOf(r.status, r.replayTruncated, r.inherited, r.attempts, r.final, r.shared, r.usage, r.cost)
      /\ TypedList(r.attempts) /\ r.shared \in {0} \cup DOMAIN r.attempts /\ IsValue(r.usage) /\ IsValue(r.cost)
    BY RepetitionTyped DEF TypedList
<1> QED
    BY <1>1, FreshRepetition, RepetitionParts

LEMMA EndingKeeps ==
    ASSUME NEW r, IsRepetition(r), NEW s, NEW i
    PROVE  LET new == Ending(r, s, i) IN
           /\ Keeps(new, r) /\ new.attempts = r.attempts
           /\ new.status = s /\ new.inherited = i /\ new.replayTruncated = Whole
<1> DEFINE new == Ending(r, s, i)
           no == Whole
           Of(a, b, c, d) == RepetitionOf(a, b, c, r.attempts, d, r.shared, r.usage, r.cost)
           SetStatus(k, x) == [k EXCEPT !.status = x]
           SetInherited(k, x) == [k EXCEPT !.inherited = x]
           SetTruncated(k, x) == [k EXCEPT !.replayTruncated = x]
<1>1. new = SetTruncated(SetInherited(SetStatus(r, s), i), no)
    BY DEF Ending, Whole
<1>2. /\ \A a, b, c, d, x : SetStatus(Of(a, b, c, d), x) = Of(x, b, c, d)
      /\ \A a, b, c, d, x : SetTruncated(Of(a, b, c, d), x) = Of(a, x, c, d)
      /\ \A a, b, c, d, x : SetInherited(Of(a, b, c, d), x) = Of(a, b, x, d)
    BY RepetitionSet
<1> HIDE DEF no, new
<1>3. /\ r = Of(r.status, r.replayTruncated, r.inherited, r.final)
      /\ LET k == Of(s, no, i, r.final) IN
         /\ IsRepetition(k) /\ k.status = s /\ k.replayTruncated = no /\ k.inherited = i
         /\ k.attempts = r.attempts /\ k.final = r.final /\ k.shared = r.shared
         /\ k.usage = r.usage /\ k.cost = r.cost
    BY PartsSet
<1> HIDE DEF Of, SetStatus, SetInherited, SetTruncated
<1>4. new = Of(s, no, i, r.final)
    BY <1>1, <1>2, <1>3
<1>5. Keeps(new, r) /\ new.attempts = r.attempts /\ new.status = s /\ new.inherited = i /\ new.replayTruncated = no
    BY <1>3, <1>4 DEF Keeps
<1> QED
    BY <1>5 DEF new, no

LEMMA TruncatedKeeps ==
    ASSUME NEW r, IsRepetition(r), NEW t
    PROVE  LET new == TruncatedAs(r, t) IN
           /\ Keeps(new, r) /\ new.attempts = r.attempts
           /\ new.status = r.status /\ new.inherited = r.inherited /\ new.replayTruncated = t
<1> DEFINE new == TruncatedAs(r, t)
           Of(a, b, c, d) == RepetitionOf(a, b, c, r.attempts, d, r.shared, r.usage, r.cost)
<1>1. \A a, b, c, d, x : TruncatedAs(Of(a, b, c, d), x) = Of(a, x, c, d)
    BY RepetitionSet DEF TruncatedAs
<1>2. /\ r = Of(r.status, r.replayTruncated, r.inherited, r.final)
      /\ LET k == Of(r.status, t, r.inherited, r.final) IN
         /\ IsRepetition(k) /\ k.status = r.status /\ k.replayTruncated = t /\ k.inherited = r.inherited
         /\ k.attempts = r.attempts /\ k.final = r.final /\ k.shared = r.shared
         /\ k.usage = r.usage /\ k.cost = r.cost
    BY PartsSet
<1> HIDE DEF Of, new
<1>3. new = Of(r.status, t, r.inherited, r.final)
    BY <1>1, <1>2 DEF new
<1> QED
    BY <1>2, <1>3 DEF Keeps, new

LEMMA FinalKeeps ==
    ASSUME NEW r, IsRepetition(r), NEW f
    PROVE  LET new == FinalAs(r, f) IN
           /\ IsRepetition(new) /\ SameReading(new, r) /\ new.attempts = r.attempts /\ new.final = f
           /\ new.shared = r.shared /\ new.usage = r.usage /\ new.cost = r.cost
<1> DEFINE new == FinalAs(r, f)
           Of(a, b, c, d) == RepetitionOf(a, b, c, r.attempts, d, r.shared, r.usage, r.cost)
<1>1. \A a, b, c, d, x : FinalAs(Of(a, b, c, d), x) = Of(a, b, c, x)
    BY RepetitionSet DEF FinalAs
<1>2. /\ r = Of(r.status, r.replayTruncated, r.inherited, r.final)
      /\ LET k == Of(r.status, r.replayTruncated, r.inherited, f) IN
         /\ IsRepetition(k) /\ k.status = r.status /\ k.replayTruncated = r.replayTruncated /\ k.inherited = r.inherited
         /\ k.attempts = r.attempts /\ k.final = f /\ k.shared = r.shared
         /\ k.usage = r.usage /\ k.cost = r.cost
    BY PartsSet
<1> HIDE DEF Of, new
<1>3. new = Of(r.status, r.replayTruncated, r.inherited, f)
    BY <1>1, <1>2 DEF new
<1> QED
    BY <1>2, <1>3 DEF SameReading, new

\* The marks change, nothing else of the attempts does.
WithMarks(a, mark) == [i \in DOMAIN a |-> [a[i] EXCEPT !.mark = mark[i]]]

LEMMA MarkSet ==
    ASSUME NEW a, TypedList(a), NEW mark
    PROVE  LET b == WithMarks(a, mark) IN
           /\ TypedList(b) /\ Len(b) = Len(a) /\ DOMAIN b = DOMAIN a
           /\ \A i \in DOMAIN a : /\ b[i].sql = a[i].sql /\ b[i].mark = mark[i]
                                  /\ b[i].usage = a[i].usage /\ b[i].cost = a[i].cost
<1> DEFINE b == WithMarks(a, mark)
           SetMark(k, x) == [k EXCEPT !.mark = x]
           k(i) == AttemptOf(a[i].sql, mark[i], a[i].usage, a[i].cost)
<1>1. Len(a) \in Nat /\ DOMAIN a = 1 .. Len(a)
    BY ListFacts DEF IsList
<1>2. \A i \in DOMAIN a : a[i] = AttemptOf(a[i].sql, a[i].mark, a[i].usage, a[i].cost) /\ IsValue(a[i].usage) /\ IsValue(a[i].cost)
    BY AttemptTyped DEF TypedList
<1>3. \A q, m, u, c, x : SetMark(AttemptOf(q, m, u, c), x) = AttemptOf(q, x, u, c)
    BY AttemptParts
<1>4. b = [i \in 1 .. Len(a) |-> SetMark(a[i], mark[i])]
    BY <1>1 DEF WithMarks
<1> HIDE DEF SetMark, b
<1>5. \A i \in DOMAIN a : SetMark(a[i], mark[i]) = k(i)
    BY <1>2, <1>3
<1>6. \A i \in DOMAIN a : /\ IsAttempt(k(i)) /\ k(i).sql = a[i].sql /\ k(i).mark = mark[i]
                          /\ k(i).usage = a[i].usage /\ k(i).cost = a[i].cost
    BY <1>2, FreshAttempt, AttemptParts
<1> HIDE DEF k
<1>7. DOMAIN b = 1 .. Len(a) /\ b = [i \in 1 .. Len(a) |-> b[i]] /\ \A i \in 1 .. Len(a) : b[i] = k(i)
    BY <1>1, <1>4, <1>5
<1>8. TypedList(b) /\ Len(b) = Len(a)
    BY <1>1, <1>6, <1>7, ListTyped
<1> QED
    BY <1>1, <1>6, <1>7, <1>8 DEF b

LEMMA AttemptsAgain ==
    ASSUME NEW a, TypedList(a), NEW verdicts
    PROVE  LET plain == AsRecorded(a)
               marked == Marked(plain, verdicts)
           IN  /\ TypedList(plain) /\ SameSqls(plain, a)
               /\ TypedList(marked) /\ SameSqls(marked, a)
               /\ \A i \in DOMAIN a :
                     /\ marked[i].mark = IF i \in DOMAIN verdicts THEN "reached" ELSE "not_reached"
                     /\ marked[i].usage = a[i].usage /\ marked[i].cost = a[i].cost
<1> DEFINE none == [i \in DOMAIN a |-> "none"]
           plain == AsRecorded(a)
           mark == [i \in DOMAIN a |-> IF i \in DOMAIN verdicts THEN "reached" ELSE "not_reached"]
           marked == Marked(plain, verdicts)
<1>1. plain = WithMarks(a, none)
    BY DEF AsRecorded, WithMarks
<1> HIDE DEF none
<1>2. /\ TypedList(plain) /\ Len(plain) = Len(a) /\ DOMAIN plain = DOMAIN a
      /\ \A i \in DOMAIN a : plain[i].sql = a[i].sql /\ plain[i].usage = a[i].usage /\ plain[i].cost = a[i].cost
    BY <1>1, MarkSet
<1> HIDE DEF plain
<1>3. marked = WithMarks(plain, mark)
    BY <1>2 DEF Marked, WithMarks
<1>4. \A i \in DOMAIN a : mark[i] = IF i \in DOMAIN verdicts THEN "reached" ELSE "not_reached"
    OBVIOUS
<1> HIDE DEF mark
<1>5. /\ TypedList(marked) /\ Len(marked) = Len(plain) /\ DOMAIN marked = DOMAIN plain
      /\ \A i \in DOMAIN plain : /\ marked[i].sql = plain[i].sql /\ marked[i].mark = mark[i]
                                 /\ marked[i].usage = plain[i].usage /\ marked[i].cost = plain[i].cost
    BY <1>2, <1>3, MarkSet
<1> HIDE DEF marked
<1> QED
    BY <1>2, <1>4, <1>5 DEF SameSqls, plain, marked

LEMMA ReadSqls ==
    ASSUME NEW a, NEW b, IsRepetition(a), IsRepetition(b), SameReading(a, b)
    PROVE  SameSqls(a.attempts, b.attempts)
<1>1. /\ Len(a.attempts) \in Nat /\ DOMAIN a.attempts = 1 .. Len(a.attempts)
      /\ Len(b.attempts) \in Nat /\ DOMAIN b.attempts = 1 .. Len(b.attempts)
    BY RepetitionTyped, ListFacts DEF TypedList, IsList
<1>2. \A m, n \in Nat : 1 .. m = 1 .. n => m = n
    <2> SUFFICES ASSUME NEW m \in Nat, NEW n \in Nat, 1 .. m = 1 .. n
                 PROVE  m = n
        OBVIOUS
    <2>1. m > n => m \in 1 .. n
        OBVIOUS
    <2>2. n > m => n \in 1 .. m
        OBVIOUS
    <2> QED
        BY <2>1, <2>2
<1> QED
    BY <1>1, <1>2 DEF SameReading, SameSqls

LEMMA ReplayAlike ==
    ASSUME NEW a, NEW b, IsList(a), IsList(b), SameSqls(a, b), NEW day
    PROVE  /\ Replay(day, a) = Replay(day, b)
           /\ Len(a) # 0 => Len(Replay(day, a)) \in DOMAIN a
<1> DEFINE ends(k) == {i \in DOMAIN k : Judged(day, k, i) \in Ends}
           n == ReachedCount(day, a)
<1>1. \A i \in DOMAIN a : Widened(day, a, i) = Widened(day, b, i)
    <2>1. DOMAIN a = 1 .. Len(a) /\ Len(a) \in Nat
        BY DEF IsList
    <2>2. \A m \in Nat : \A i \in 1 .. m : \A j \in 1 .. i - 1 : j \in 1 .. m
        OBVIOUS
    <2>3. \A i \in DOMAIN a : \A j \in 1 .. i - 1 : j \in DOMAIN a
        BY <2>1, <2>2
    <2> QED
        BY <2>3 DEF SameSqls, Widened, HasSql
<1>2. \A i \in DOMAIN a : Judged(day, a, i) = Judged(day, b, i)
    BY <1>1 DEF Judged, HasSql, SameSqls
<1>3. ends(a) = ends(b)
    BY <1>2 DEF SameSqls
<1>4. ReachedCount(day, b) = n
    BY <1>3 DEF ReachedCount, SameSqls
<1>5. (n = 0 /\ Len(a) = 0) \/ n \in DOMAIN a
    <2>1. CASE ends(a) = {}
        BY <2>1 DEF ReachedCount, IsList
    <2>2. CASE ends(a) # {}
        <3> DEFINE E == ends(a)
        <3>1. E \in SUBSET Nat /\ E \subseteq DOMAIN a /\ E # {}
            BY <2>2 DEF IsList
        <3>2. n = Min(E)
            BY <2>2 DEF ReachedCount
        <3> HIDE DEF E, n
        <3> QED
            BY <3>1, <3>2, LeastNumber
    <2> QED
        BY <2>1, <2>2
<1>6. n \in Nat /\ \A i \in 1 .. n : i \in DOMAIN a
    BY <1>5 DEF IsList
<1> HIDE DEF n
<1>7. Replay(day, a) = [i \in 1 .. n |-> Judged(day, a, i)] /\ Replay(day, b) = [i \in 1 .. n |-> Judged(day, b, i)]
    BY <1>4 DEF Replay, n
<1>8. Replay(day, a) = Replay(day, b)
    BY <1>2, <1>6, <1>7
<1>9. Len([i \in 1 .. n |-> Judged(day, a, i)]) = n
    BY <1>6
<1> QED
    BY <1>5, <1>7, <1>8, <1>9 DEF IsList

\* A rescore keeps the SQLs and figures, and what it finds depends on the SQLs and the status alone.
LEMMA ReplayedAlike ==
    ASSUME NEW a, NEW b, IsRepetition(a), IsRepetition(b), SameReading(a, b), NEW verdicts
    PROVE  LET na == Replayed(a, AsRecorded(a.attempts), verdicts)
               nb == Replayed(b, AsRecorded(b.attempts), verdicts)
           IN  Keeps(na, a) /\ Keeps(nb, b) /\ SameReading(na, nb)
<1> DEFINE last == Last(verdicts)
           base(r) == [r EXCEPT !.attempts = Marked(AsRecorded(r.attempts), verdicts)]
           new(r) == Replayed(r, AsRecorded(r.attempts), verdicts)
           kept == last = "llm" /\ a.status = "llm_error"
           cut == a.status \in Executed /\ Len(verdicts) < MaxAttempts
           yes == TRUE
           no == FALSE
<1>1. ASSUME NEW r \in {a, b}
      PROVE  /\ Keeps(base(r), r)
             /\ \A i \in DOMAIN r.attempts :
                   base(r).attempts[i].mark = IF i \in DOMAIN verdicts THEN "reached" ELSE "not_reached"
    <2> DEFINE list == Marked(AsRecorded(r.attempts), verdicts)
    <2>1. /\ r = RepetitionOf(r.status, r.replayTruncated, r.inherited, r.attempts, r.final, r.shared, r.usage, r.cost)
          /\ TypedList(r.attempts)
          /\ r.shared \in {0} \cup DOMAIN r.attempts /\ IsValue(r.usage) /\ IsValue(r.cost)
        BY <1>1, RepetitionTyped DEF TypedList
    <2>2. /\ TypedList(list) /\ SameSqls(list, r.attempts)
          /\ \A i \in DOMAIN r.attempts :
                /\ list[i].mark = IF i \in DOMAIN verdicts THEN "reached" ELSE "not_reached"
                /\ list[i].usage = r.attempts[i].usage /\ list[i].cost = r.attempts[i].cost
        BY <2>1, AttemptsAgain
    <2> HIDE DEF list
    <2> DEFINE SetAttempts(k, x) == [k EXCEPT !.attempts = x]
               Of(k) == RepetitionOf(r.status, r.replayTruncated, r.inherited, k, r.final, r.shared, r.usage, r.cost)
    <2>3. \A k, x : SetAttempts(Of(k), x) = Of(x)
        BY RepetitionSet
    <2>4. IsRepetition(Of(list))
        BY <2>1, <2>2, FreshRepetition DEF SameSqls
    <2>5. LET n == Of(list) IN n.attempts = list /\ n.final = r.final /\ n.shared = r.shared /\ n.usage = r.usage /\ n.cost = r.cost
        BY RepetitionParts
    <2>6. base(r) = SetAttempts(r, list)
        BY DEF list
    <2> HIDE DEF SetAttempts, base, Of
    <2>7. base(r) = Of(list)
        BY <2>1, <2>3, <2>6 DEF Of
    <2> QED
        BY <2>2, <2>4, <2>5, <2>7 DEF Keeps, SameSqls
<1>2. ASSUME NEW r \in {a, b}
      PROVE  new(r) = CASE last = "gold" -> Ending(r, "expected_sql_error", no)
                        [] last \in {"match", "mismatch", "infra_elsewhere"} -> Ending(base(r), FinalStatus(last), no)
                        [] last = "clarify" -> Ending(base(r), "clarify", yes)
                        [] last \notin Ends /\ a.status \in CutShort -> Ending(base(r), a.status, yes)
                        [] OTHER -> TruncatedAs(Ending(base(r), FinalStatus(last), kept), cut)
    <2>1. r.status = a.status
        BY <1>2 DEF SameReading
    <2> QED
        BY <2>1 DEF Replayed, GoldError, TruncatedAs
<1> HIDE DEF base, new, last, kept, cut, yes, no
\* Both end alike, from the same kind of start.
<1> DEFINE Starts(s, t) == /\ IsRepetition(s) /\ IsRepetition(t) /\ Keeps(s, a) /\ Keeps(t, b)
                           /\ DOMAIN s.attempts = DOMAIN t.attempts
                           /\ \A i \in DOMAIN s.attempts : /\ s.attempts[i].sql = t.attempts[i].sql
                                                           /\ s.attempts[i].mark = t.attempts[i].mark
           Good(na, nb) == Keeps(na, a) /\ Keeps(nb, b) /\ SameReading(na, nb)
<1>3. Starts(a, b) /\ Starts(base(a), base(b))
    BY <1>1 DEF Keeps, SameReading
<1>4. ASSUME NEW s, NEW t, Starts(s, t), NEW status, NEW inherited
      PROVE  Good(Ending(s, status, inherited), Ending(t, status, inherited))
    <2>1. /\ Keeps(Ending(s, status, inherited), s) /\ Ending(s, status, inherited).attempts = s.attempts
          /\ Ending(s, status, inherited).status = status /\ Ending(s, status, inherited).inherited = inherited
          /\ Ending(s, status, inherited).replayTruncated = Whole
        BY <1>4, EndingKeeps
    <2>2. /\ Keeps(Ending(t, status, inherited), t) /\ Ending(t, status, inherited).attempts = t.attempts
          /\ Ending(t, status, inherited).status = status /\ Ending(t, status, inherited).inherited = inherited
          /\ Ending(t, status, inherited).replayTruncated = Whole
        BY <1>4, EndingKeeps
    <2> QED
        BY <1>4, <2>1, <2>2 DEF Keeps, SameReading
<1>5. ASSUME NEW s, NEW t, Good(s, t), NEW truncated
      PROVE  Good(TruncatedAs(s, truncated), TruncatedAs(t, truncated))
    <2>1. /\ Keeps(TruncatedAs(s, truncated), s) /\ TruncatedAs(s, truncated).attempts = s.attempts
          /\ TruncatedAs(s, truncated).status = s.status /\ TruncatedAs(s, truncated).inherited = s.inherited
          /\ TruncatedAs(s, truncated).replayTruncated = truncated
        BY <1>5, TruncatedKeeps DEF Keeps
    <2>2. /\ Keeps(TruncatedAs(t, truncated), t) /\ TruncatedAs(t, truncated).attempts = t.attempts
          /\ TruncatedAs(t, truncated).status = t.status /\ TruncatedAs(t, truncated).inherited = t.inherited
          /\ TruncatedAs(t, truncated).replayTruncated = truncated
        BY <1>5, TruncatedKeeps DEF Keeps
    <2> QED
        BY <1>5, <2>1, <2>2 DEF Keeps, SameReading
<1> HIDE DEF Starts, Good
<1>6. Good(new(a), new(b))
    <2>1. CASE last = "gold"
        <3>1. new(a) = Ending(a, "expected_sql_error", no) /\ new(b) = Ending(b, "expected_sql_error", no)
            BY <1>2, <2>1 DEF Ends
        <3> QED
            BY <1>3, <1>4, <3>1
    <2>2. CASE last \in {"match", "mismatch", "infra_elsewhere"}
        <3>1. new(a) = Ending(base(a), FinalStatus(last), no) /\ new(b) = Ending(base(b), FinalStatus(last), no)
            BY <1>2, <2>2 DEF Ends
        <3> QED
            BY <1>3, <1>4, <3>1
    <2>3. CASE last = "clarify"
        <3>1. new(a) = Ending(base(a), "clarify", yes) /\ new(b) = Ending(base(b), "clarify", yes)
            BY <1>2, <2>3 DEF Ends
        <3> QED
            BY <1>3, <1>4, <3>1
    <2>4. CASE last \notin Ends /\ a.status \in CutShort
        <3>1. last \notin {"gold", "match", "mismatch", "infra_elsewhere", "infra", "clarify"}
            BY <2>4 DEF Ends
        <3>2. new(a) = Ending(base(a), a.status, yes) /\ new(b) = Ending(base(b), a.status, yes)
            BY <1>2, <2>4, <3>1
        <3> QED
            BY <1>3, <1>4, <3>2
    <2>5. CASE last \notin {"gold", "match", "mismatch", "infra_elsewhere", "clarify"}
               /\ ~(last \notin Ends /\ a.status \in CutShort)
        <3> DEFINE ended(r) == Ending(base(r), FinalStatus(last), kept)
        <3>1. new(a) = TruncatedAs(ended(a), cut) /\ new(b) = TruncatedAs(ended(b), cut)
            BY <1>2, <2>5
        <3>2. Good(ended(a), ended(b))
            BY <1>3, <1>4
        <3> HIDE DEF ended
        <3>3. Good(TruncatedAs(ended(a), cut), TruncatedAs(ended(b), cut))
            BY <1>5, <3>2
        <3> QED
            BY <3>1, <3>3
    <2> QED
        BY <2>1, <2>2, <2>3, <2>4, <2>5
<1> QED
    BY <1>6 DEF Good, new

LEMMA RescoredPair ==
    ASSUME NEW a, NEW b, IsRepetition(a), IsRepetition(b), SameReading(a, b), NEW day
    PROVE  LET na == Rescored(day, a)
               nb == Rescored(day, b)
           IN  Keeps(na, a) /\ Keeps(nb, b) /\ SameReading(na, nb)
<1> DEFINE plain(r) == AsRecorded(r.attempts)
           verdicts == Replay(day, plain(a))
           na == Rescored(day, a)
           nb == Rescored(day, b)
           yes == TRUE
           no == FALSE
<1>1. /\ TypedList(a.attempts) /\ IsList(a.attempts) /\ (a.attempts = <<>> <=> Len(a.attempts) = 0)
      /\ TypedList(b.attempts) /\ IsList(b.attempts) /\ (b.attempts = <<>> <=> Len(b.attempts) = 0)
    BY RepetitionTyped, ListFacts DEF TypedList
<1>2. SameSqls(a.attempts, b.attempts)
    BY ReadSqls
<1>3. Replay(day, plain(b)) = verdicts
    <2>1. /\ TypedList(plain(a)) /\ SameSqls(plain(a), a.attempts)
          /\ TypedList(plain(b)) /\ SameSqls(plain(b), b.attempts)
        BY <1>1, AttemptsAgain
    <2>2. SameSqls(plain(a), plain(b)) /\ IsList(plain(a)) /\ IsList(plain(b))
        BY <1>2, <2>1, ListFacts DEF SameSqls
    <2> QED
        BY <2>2, ReplayAlike
<1>4. NothingToReplay(a) <=> NothingToReplay(b)
    BY <1>1, <1>2 DEF NothingToReplay, SameReading, SameSqls, HasSql
<1>5. IsReplayed(day, a) <=> IsReplayed(day, b)
    BY <1>4 DEF IsReplayed
<1>6. CASE IsReplayed(day, a)
    <2>1. na = Replayed(a, plain(a), verdicts) /\ nb = Replayed(b, plain(b), verdicts)
        BY <1>3, <1>5, <1>6 DEF Rescored
    <2> HIDE DEF verdicts
    <2> QED
        BY <2>1, ReplayedAlike
<1>7. CASE ~IsReplayed(day, a)
    <2>1. PICK s, i : na = Ending(a, s, i) /\ nb = Ending(b, s, i)
        <3>1. a.status = b.status
            BY DEF SameReading
        <3>2. CASE ~day.gold
            BY <1>5, <1>7, <3>2 DEF Rescored, GoldError
        <3>3. CASE day.gold /\ NothingToReplay(a)
            BY <1>4, <1>5, <1>7, <3>1, <3>3 DEF Rescored
        <3>4. CASE day.gold /\ ~NothingToReplay(a)
            BY <1>4, <1>5, <1>7, <3>4 DEF Rescored
        <3> QED
            BY <3>2, <3>3, <3>4
    <2>2. /\ Keeps(Ending(a, s, i), a) /\ Ending(a, s, i).attempts = a.attempts
          /\ Ending(a, s, i).status = s /\ Ending(a, s, i).inherited = i /\ Ending(a, s, i).replayTruncated = Whole
        BY EndingKeeps
    <2>3. /\ Keeps(Ending(b, s, i), b) /\ Ending(b, s, i).attempts = b.attempts
          /\ Ending(b, s, i).status = s /\ Ending(b, s, i).inherited = i /\ Ending(b, s, i).replayTruncated = Whole
        BY EndingKeeps
    <2> HIDE DEF na, nb
    <2>4. Keeps(na, a) /\ Keeps(nb, b) /\ SameReading(na, nb)
        BY <2>1, <2>2, <2>3 DEF SameReading
    <2> QED
        BY <2>4 DEF na, nb
<1> QED
    BY <1>6, <1>7

LEMMA FinalSqlAlike ==
    ASSUME NEW a, NEW b, IsRepetition(a), IsRepetition(b), SameReading(a, b), a.final = b.final, NEW day
    PROVE  FinalSql(day, a) = FinalSql(day, b)
<1> DEFINE plain(r) == AsRecorded(r.attempts)
           verdicts == Replay(day, plain(a))
           n == Len(verdicts)
           last == Last(verdicts)
<1>1. /\ TypedList(a.attempts) /\ IsList(a.attempts) /\ (a.attempts = <<>> <=> Len(a.attempts) = 0)
      /\ TypedList(b.attempts) /\ IsList(b.attempts) /\ (b.attempts = <<>> <=> Len(b.attempts) = 0)
    BY RepetitionTyped, ListFacts DEF TypedList
<1>2. SameSqls(a.attempts, b.attempts)
    BY ReadSqls
<1>3. /\ TypedList(plain(a)) /\ SameSqls(plain(a), a.attempts)
      /\ TypedList(plain(b)) /\ SameSqls(plain(b), b.attempts)
    BY <1>1, AttemptsAgain
<1>4. SameSqls(plain(a), plain(b)) /\ IsList(plain(a)) /\ IsList(plain(b))
    BY <1>2, <1>3, ListFacts DEF SameSqls
<1>5. Replay(day, plain(b)) = verdicts /\ (Len(plain(a)) # 0 => n \in DOMAIN plain(a))
    BY <1>4, ReplayAlike
<1>6. NothingToReplay(a) <=> NothingToReplay(b)
    BY <1>1, <1>2 DEF NothingToReplay, SameReading, SameSqls, HasSql
<1>7. IsReplayed(day, a) <=> IsReplayed(day, b)
    BY <1>6 DEF IsReplayed
<1>8. IsReplayed(day, a) => a.attempts[n].sql = b.attempts[n].sql
    <2>1. IsReplayed(day, a) => Len(a.attempts) # 0
        BY <1>1 DEF IsReplayed, NothingToReplay
    <2> HIDE DEF n
    <2> QED
        BY <1>2, <1>3, <1>5, <2>1 DEF SameSqls
<1>9. LastSql(a.attempts, n, a.final) = LastSql(b.attempts, n, b.final)
    <2>1. \A k, none : LastSql(a.attempts, k, none) = LastSql(b.attempts, k, none)
        BY <1>1, <1>2, LastSqlAlike
    <2> QED
        BY <2>1
<1> DEFINE Of(r) == IF ~IsReplayed(day, r) \/ last = "gold" THEN r.final
                    ELSE CASE last \in {"match", "mismatch", "infra_elsewhere"} -> Safe[r.attempts[n].sql]
                           [] last = "clarify" -> NoSql
                           [] OTHER -> LastSql(r.attempts, n, r.final)
<1>10. FinalSql(day, a) = Of(a) /\ FinalSql(day, b) = Of(b)
    BY <1>5 DEF FinalSql
<1> HIDE DEF n, last
<1>11. CASE ~IsReplayed(day, a)
    <2>1. FinalSql(day, a) = a.final /\ FinalSql(day, b) = b.final
        BY <1>7, <1>11 DEF FinalSql
    <2> QED
        BY <2>1
<1>12. CASE IsReplayed(day, a)
    <2>1. Of(a) = Of(b)
        BY <1>7, <1>8, <1>9, <1>12
    <2> QED
        BY <1>10, <2>1
<1> QED
    BY <1>11, <1>12

\* The report and the baseline, rescored on the same day, still read the same.
LEMMA RescoredInFullAlike ==
    ASSUME NEW a, NEW b, IsRepetition(a), IsRepetition(b), Read(a) = Read(b), Figures(a) = Figures(b), NEW day
    PROVE  LET na == RescoredInFull(day, a)
               nb == RescoredInFull(day, b)
           IN  /\ IsRepetition(na) /\ IsRepetition(nb) /\ Read(na) = Read(nb) /\ Figures(na) = Figures(nb)
<1> DEFINE wa == Restored(a)
           wb == Restored(b)
           ra == Rescored(day, wa)
           rb == Rescored(day, wb)
           sql == FinalSql(day, wa)
           na == FinalAs(ra, sql)
           nb == FinalAs(rb, sql)
<1>1. /\ IsRepetition(wa) /\ wa.shared = 0 /\ SameReading(wa, a) /\ wa.usage = a.usage /\ wa.cost = a.cost
      /\ IsRepetition(wb) /\ wb.shared = 0 /\ SameReading(wb, b) /\ wb.usage = b.usage /\ wb.cost = b.cost
    BY RestoredIs
<1>2. SameReading(a, b) /\ SameTotals(a, b)
    BY ReadAlike
<1>3. wa.final = wb.final /\ SameFigures(wa.attempts, wb.attempts)
    BY <1>1, FiguresAlike DEF SameReading
<1>4. SameReading(wa, wb)
    BY <1>1, <1>2 DEF SameReading
<1>5. RescoredInFull(day, a) = na
    BY DEF RescoredInFull, FinalAs
<1>6. RescoredInFull(day, b) = nb
    <2>1. FinalSql(day, wb) = sql
        <3> HIDE DEF wa, wb
        <3> QED
            BY <1>1, <1>3, <1>4, FinalSqlAlike
    <2>2. RescoredInFull(day, b) = FinalAs(rb, FinalSql(day, wb))
        BY DEF RescoredInFull, FinalAs
    <2> QED
        BY <2>1, <2>2
<1> HIDE DEF wa, wb
<1>7. Keeps(ra, wa) /\ Keeps(rb, wb) /\ SameReading(ra, rb)
    BY <1>1, <1>4, RescoredPair
<1> HIDE DEF ra, rb, sql
<1>8. /\ IsRepetition(na) /\ SameReading(na, ra) /\ na.attempts = ra.attempts /\ na.final = sql
      /\ na.shared = ra.shared /\ na.usage = ra.usage /\ na.cost = ra.cost
    BY <1>7, FinalKeeps DEF Keeps
<1>9. /\ IsRepetition(nb) /\ SameReading(nb, rb) /\ nb.attempts = rb.attempts /\ nb.final = sql
      /\ nb.shared = rb.shared /\ nb.usage = rb.usage /\ nb.cost = rb.cost
    BY <1>7, FinalKeeps DEF Keeps
<1> HIDE DEF na, nb
<1>10. SameReading(na, nb)
    BY <1>7, <1>8, <1>9 DEF SameReading
<1>11. Read(na) = Read(nb)
    <2>1. SameTotals(na, nb)
        BY <1>1, <1>2, <1>7, <1>8, <1>9 DEF SameTotals, Keeps
    <2>2. HasSomeSql(na) = HasSomeSql(nb)
        BY <1>8, <1>9, <1>10, SomeSqlKept
    <2> QED
        BY <1>10, <2>1, <2>2, ReadAlike
<1>12. Figures(na) = Figures(nb)
    <2>1. na.shared = 0 /\ nb.shared = 0
        BY <1>1, <1>7, <1>8, <1>9 DEF Keeps
    <2>2. /\ TypedList(na.attempts) /\ IsList(na.attempts) /\ TypedList(nb.attempts) /\ IsList(nb.attempts)
        BY <1>8, <1>9, RepetitionTyped, ListFacts DEF TypedList
    <2>3. 0 \notin DOMAIN na.attempts
        BY <2>2 DEF IsList
    <2>4. Restored(na).final = Restored(nb).final
        <3>1. /\ Restored(na).final = IF na.final = "absent" THEN FinalAttemptSql(na.attempts) ELSE na.final
              /\ Restored(nb).final = IF nb.final = "absent" THEN FinalAttemptSql(nb.attempts) ELSE nb.final
            BY <1>8, <1>9, RestoredIs
        <3>2. SameSqls(na.attempts, nb.attempts)
            BY <1>8, <1>9, <1>10, ReadSqls
        <3>3. \A n : LastSql(na.attempts, n, NoSql) = LastSql(nb.attempts, n, NoSql)
            BY <2>2, <3>2, LastSqlAlike
        <3>4. FinalAttemptSql(na.attempts) = FinalAttemptSql(nb.attempts)
            BY <3>2, <3>3 DEF FinalAttemptSql, SameSqls
        <3> QED
            BY <1>8, <1>9, <3>1, <3>4
    <2> DEFINE usage(k, i) == Figure(IF i = k.shared THEN k.usage ELSE k.attempts[i].usage)
               cost(k, i) == Figure(IF i = k.shared THEN k.cost ELSE k.attempts[i].cost)
    <2>5. \A i \in DOMAIN na.attempts :
              /\ na.attempts[i].usage = wa.attempts[i].usage /\ na.attempts[i].cost = wa.attempts[i].cost
              /\ nb.attempts[i].usage = wb.attempts[i].usage /\ nb.attempts[i].cost = wb.attempts[i].cost
              /\ i \in DOMAIN wa.attempts
        BY <1>7, <1>8, <1>9, <1>10 DEF Keeps, SameReading
    <2>6. \A i \in DOMAIN na.attempts : usage(na, i) = usage(nb, i) /\ cost(na, i) = cost(nb, i)
        BY <1>3, <2>1, <2>3, <2>5 DEF SameFigures, SameFigure, Figure
    <2>7. Figures(na) = Figures(nb) <=>
              /\ Restored(na).final = Restored(nb).final /\ DOMAIN na.attempts = DOMAIN nb.attempts
              /\ \A i \in DOMAIN na.attempts : usage(na, i) = usage(nb, i) /\ cost(na, i) = cost(nb, i)
        BY <1>8, <1>9, FiguresAre
    <2> HIDE DEF usage, cost
    <2> QED
        BY <1>10, <2>4, <2>6, <2>7 DEF SameReading
<1> QED
    BY <1>5, <1>6, <1>8, <1>9, <1>11, <1>12

\* Both are repetitions, and they read the same; what compacting keeps does the rest.
CompactIInv ==
    /\ IsRepetition(full) /\ IsRepetition(baseline)
    /\ Read(baseline) = Read(full) /\ Figures(baseline) = Figures(full)

LEMMA CompactInductive == CompactIInv /\ [CompactNext]_compactVars => CompactIInv'
<1> SUFFICES ASSUME CompactIInv, [CompactNext]_compactVars
             PROVE  CompactIInv'
    OBVIOUS
<1>1. CASE WriteBaseline
    <2>1. baseline' = Compacted(baseline) /\ full' = full
        BY <1>1 DEF WriteBaseline
    <2>2. IsRepetition(Compacted(baseline)) /\ Read(Compacted(baseline)) = Read(baseline) /\ Figures(Compacted(baseline)) = Figures(baseline)
        BY CompactedKeeps DEF CompactIInv
    <2> QED
        BY <2>1, <2>2 DEF CompactIInv
<1>2. CASE RescoreBoth
    <2>1. PICK day \in Dates : full' = RescoredInFull(day, full) /\ baseline' = RescoredInFull(day, baseline)
        BY <1>2 DEF RescoreBoth
    <2>2. /\ IsRepetition(RescoredInFull(day, full)) /\ IsRepetition(RescoredInFull(day, baseline))
          /\ Read(RescoredInFull(day, full)) = Read(RescoredInFull(day, baseline))
          /\ Figures(RescoredInFull(day, full)) = Figures(RescoredInFull(day, baseline))
        BY RescoredInFullAlike DEF CompactIInv
    <2> QED
        BY <2>1, <2>2 DEF CompactIInv
<1>3. CASE UNCHANGED compactVars
    BY <1>3 DEF compactVars, CompactIInv
<1> QED
    BY <1>1, <1>2, <1>3 DEF CompactNext

\* For every live repetition, every validator, gold and database there may be on any day, and however
\* often it is compacted and rescored: the baseline serves its readers as the whole report would, and
\* compacting it again changes nothing.
THEOREM BaselineReadsLikeReport == CompactSpec => []BaselineReadsAsReport
<1>1. CompactInit => CompactIInv
    BY CompactAssumption DEF CompactInit, CompactIInv
<1>2. CompactIInv => BaselineReadsAsReport
    BY CompactedKeeps DEF CompactIInv, BaselineReadsAsReport
<1> QED
    BY <1>1, <1>2, CompactInductive, PTL DEF CompactSpec

-----------------------------------------------------------------------------
(* The check of a suite.                                                     *)

\* A result is that of its case, under a failure of the database or, as long as there was none,
\* without.
IsResultOf(r, c) ==
    \/ r = VerifyCase(c, <<"none", 0>>)
    \/ glitches > 0 /\ \E glitch \in GlitchesOf(c) : r = VerifyCase(c, glitch)

\* Cases are checked in their order, each once.
ResultsTell ==
    /\ DOMAIN results = DOMAIN job.datasets
    /\ \A d \in DOMAIN results : IsArray(results[d]) /\ Len(results[d]) <= Len(job.datasets[d])
    /\ \A d \in DOMAIN results : \A i \in DOMAIN results[d] : IsResultOf(results[d][i], job.datasets[d][i])

IsChecked == \A d \in DOMAIN results : Len(results[d]) = Len(job.datasets[d])
Fails == \E d \in DOMAIN results : GateFails(d) \/ \E i \in DOMAIN results[d] : results[d][i].problem

\* What the selection is, and on what ground a check has ended.
ExitTells ==
    /\ exit # "loading" => selection = IF job.program = "eval" THEN Dedupe(job.datasets) ELSE Nothing
    /\ exit = "loading" => selection = Nothing
    /\ exit \notin {"loading", "refused"} => ~selection.conflict /\ ~CoverageFails
    /\ exit = "refused" => selection.conflict \/ CoverageFails
    /\ exit \in {"passed", "failed"} => IsChecked /\ (exit = "failed" <=> Fails)

SuiteIInv ==
    /\ \E family \in Jobs : job \in family
    /\ glitches \in Nat
    /\ exit \in {"loading", "running", "refused", "failed", "broken", "passed"}
    /\ ResultsTell
    /\ ExitTells

LEMMA MappedList ==
    ASSUME NEW list, IsArray(list), NEW f, f = [k \in DOMAIN list |-> f[k]]
    PROVE  f = <<>> <=> list = <<>>
<1>1. Len(list) \in Nat /\ DOMAIN list = 1 .. Len(list) /\ (list = <<>> <=> Len(list) = 0)
    BY DEF IsArray
<1>2. f \in Seq({f[k] : k \in DOMAIN list})
    BY <1>1
<1>3. Len(f) = Len(list)
    BY <1>1, <1>2
<1>4. \A S : \A g \in Seq(S) : g = <<>> <=> Len(g) = 0
    OBVIOUS
<1>5. f = <<>> <=> Len(f) = 0
    BY ONLY <1>2, <1>4
<1> QED
    BY ONLY <1>1, <1>3, <1>5

LEMMA JobTypes == ASSUME \E family \in Jobs : job \in family PROVE IsJob(job)
    BY SuiteAssumption

\* What is resolved for a case are lists of its controls; they are stale if written for another gold.
LEMMA Resolved ==
    ASSUME IsJob(job), NEW c
    PROVE  LET found == Resolve(c, job.index) IN
           /\ IsArray(found.negative) /\ IsArray(found.positive)
           /\ \A n \in ToSet(found.negative) : n.truth # "unscored"
           /\ found.stale <=> \E e \in ToSet(job.index) : e.id = c.id /\ e.gold \notin {"", c.gold}
<1> DEFINE direct == {k \in DOMAIN job.index : job.index[k].id = c.id}
           kin == {k \in DOMAIN job.index : job.index[k].intent = c.intent /\ job.index[k].gold = c.gold}
           Least(ks) == CHOOSE k \in ks : \A other \in ks : k <= other
           found == Resolve(c, job.index)
<1>1. DOMAIN job.index \subseteq Nat
    <2>1. job.index \in Seq(ToSet(job.index))
        BY DEF IsJob, IsArray
    <2> QED
        BY <2>1
<1>2. ASSUME NEW ks, ks \in {direct, kin}, ks # {}
      PROVE  Least(ks) \in ks
    <2>1. ks \in SUBSET Nat
        BY <1>1, <1>2
    <2>2. \E m \in ks : \A n \in ks : m <= n
        BY <1>2, <2>1, LeastNumber
    <2> QED
        BY <2>2
<1>3. ASSUME NEW k \in DOMAIN job.index
      PROVE  /\ job.index[k] \in ToSet(job.index)
             /\ IsArray(job.index[k].negative) /\ IsArray(job.index[k].positive)
             /\ \A n \in ToSet(job.index[k].negative) : n.truth # "unscored"
    <2>1. job.index[k] \in ToSet(job.index)
        BY DEF ToSet
    <2> QED
        BY <2>1 DEF IsJob
<1>4. IsArray(<<>>) /\ ToSet(<<>>) = {}
    BY DEF IsArray, ToSet
<1>5. CASE direct # {}
    <2> DEFINE e == job.index[Least(direct)]
    <2>1. Least(direct) \in direct
        BY <1>2, <1>5
    <2>2. found = IF e.gold \notin {"", c.gold} THEN Uncontrolled(TRUE)
                  ELSE [negative |-> e.negative, positive |-> e.positive, stale |-> FALSE]
        BY <1>5 DEF Resolve
    <2>3. \A f \in ToSet(job.index) : f.id = c.id => f = e
        BY <2>1 DEF ToSet, IsJob
    <2>4. e \in ToSet(job.index) /\ e.id = c.id
        BY <2>1, <1>3
    <2>5. \/ /\ e.gold \notin {"", c.gold}
             /\ found.stale = TRUE /\ found.negative = <<>> /\ found.positive = <<>>
          \/ /\ e.gold \in {"", c.gold}
             /\ found.stale = FALSE /\ found.negative = e.negative /\ found.positive = e.positive
        <3>1. CASE e.gold \notin {"", c.gold}
            <4>1. found = Uncontrolled(TRUE)
                BY <2>2, <3>1
            <4>2. found.stale = TRUE /\ found.negative = <<>> /\ found.positive = <<>>
                BY <4>1 DEF Uncontrolled
            <4> HIDE DEF found, e
            <4> QED
                BY <4>2, <3>1
        <3>2. CASE e.gold \in {"", c.gold}
            <4>1. found = [negative |-> e.negative, positive |-> e.positive, stale |-> FALSE]
                BY <2>2, <3>2
            <4>2. found.stale = FALSE /\ found.negative = e.negative /\ found.positive = e.positive
                BY <4>1
            <4> HIDE DEF found, e
            <4> QED
                BY <4>2, <3>2
        <3> QED
            BY <3>1, <3>2
    <2>6. found.stale <=> \E f \in ToSet(job.index) : f.id = c.id /\ f.gold \notin {"", c.gold}
        BY <2>3, <2>4, <2>5
    <2>7. IsArray(e.negative) /\ IsArray(e.positive) /\ \A n \in ToSet(e.negative) : n.truth # "unscored"
        BY <1>3, <2>1
    <2> QED
        BY <2>5, <2>6, <2>7, <1>4
<1>6. CASE direct = {} /\ kin # {}
    <2> DEFINE e == job.index[Least(kin)]
    <2>1. Least(kin) \in kin
        BY <1>2, <1>6
    <2>2. found = [negative |-> e.negative, positive |-> e.positive, stale |-> FALSE]
        BY <1>6 DEF Resolve
    <2>3. \A f \in ToSet(job.index) : f.id # c.id
        BY <1>6 DEF ToSet
    <2>4. found.negative = e.negative /\ found.positive = e.positive /\ found.stale = FALSE
        <3> HIDE DEF found, e
        <3> QED
            BY <2>2
    <2>5. IsArray(e.negative) /\ IsArray(e.positive) /\ \A n \in ToSet(e.negative) : n.truth # "unscored"
        BY <1>3, <2>1
    <2> QED
        BY <2>3, <2>4, <2>5
<1>7. CASE direct = {} /\ kin = {}
    <2>1. found = Uncontrolled(FALSE)
        BY <1>7 DEF Resolve
    <2>2. \A f \in ToSet(job.index) : f.id # c.id
        BY <1>7 DEF ToSet
    <2>3. found.negative = <<>> /\ found.positive = <<>> /\ found.stale = FALSE
        BY <2>1 DEF Uncontrolled
    <2> QED
        BY <2>2, <2>3, <1>4
<1> QED
    BY <1>5, <1>6, <1>7

\* What the check finds of a case; a failure of the database can only be a problem, or show nowhere.
LEMMA BehaviorChecked ==
    ASSUME NEW c, NEW glitch, IsBehavior(c)
    PROVE  LET r == VerifyCase(c, glitch) IN
           /\ r.def = c /\ r.negative = <<>> /\ r.positive = 0
           /\ r.problem <=> ~Holds(c)
BY DEF VerifyCase, Holds

\* The controls of a case, and what a result without a problem says of them.
ControlsTold(r, c) ==
    LET found == Resolve(c, job.index) IN
    IF job.controls
    THEN /\ r.positive = Len(found.positive)
         /\ r.negative = [k \in DOMAIN found.negative |->
                            [heldout |-> found.negative[k].heldout, status |-> found.negative[k].truth]]
    ELSE r.positive = 0 /\ r.negative = <<>>

LEMMA AnswerChecked ==
    ASSUME IsJob(job), NEW c, ~IsBehavior(c), NEW glitch \in GlitchesOf(c) \cup {<<"none", 0>>}
    PROVE  LET r == VerifyCase(c, glitch) IN
           /\ r.def = c
           /\ ~r.problem => Holds(c) /\ ControlsTold(r, c)
           /\ glitch = <<"none", 0>> /\ Holds(c) => ~r.problem
<1> DEFINE variants == Variants[c.gold]
           goldFails == glitch = <<"gold", 0>> \/ \E i \in DOMAIN variants : variants[i].health = "fails"
           found == Resolve(c, job.index)
           checked == job.controls /\ ~goldFails
           negative == [k \in DOMAIN found.negative |->
                          [heldout |-> found.negative[k].heldout,
                           status |-> ControlStatus(found.negative[k], glitch = <<"negative", k>>)]]
           wrong(k) == \/ ~found.positive[k].match \/ glitch = <<"positive", k>>
                       \/ ~Noted(c, found.positive[k].rejection) /\ ~found.positive[k].excused
           unsound == \E i \in DOMAIN variants : variants[i].health # "sound" \/ ~Noted(c, variants[i].rejection)
           stale == FlagIsStale(c, goldFails) /\ job.program = "verify-dataset"
           wrongs == checked /\ \E k \in DOMAIN found.positive : wrong(k)
           undone == checked /\ \E k \in DOMAIN negative : negative[k].status \in {"unscored", "invalid"}
           r == VerifyCase(c, glitch)
<1>1. /\ r.def = c
      /\ r.problem <=> goldFails \/ unsound \/ stale \/ (checked /\ found.stale) \/ wrongs \/ undone
      /\ r.negative = IF checked THEN negative ELSE <<>>
      /\ r.positive = IF checked THEN Len(found.positive) ELSE 0
    BY DEF VerifyCase
<1>2. /\ \A n \in ToSet(found.negative) : n.truth # "unscored"
      /\ found.stale <=> \E e \in ToSet(job.index) : e.id = c.id /\ e.gold \notin {"", c.gold}
    BY Resolved
<1>3. \A k \in DOMAIN found.negative : found.negative[k] \in ToSet(found.negative)
    BY DEF ToSet
<1>4. ASSUME ~r.problem PROVE Holds(c) /\ ControlsTold(r, c)
    <2>1. ~goldFails /\ ~unsound /\ ~stale /\ ~(checked /\ found.stale) /\ ~wrongs /\ ~undone
        BY <1>1, <1>4
    <2>2. checked <=> job.controls
        BY <2>1
    <2>3. \A v \in ToSet(variants) : v.health = "sound" /\ Noted(c, v.rejection)
        BY <2>1 DEF ToSet
    <2>4. ASSUME job.program = "verify-dataset", c.flag = "known"
          PROVE  \E v \in ToSet(variants) : v.rejection \in {"known", "scope"} \/ v.old
        BY <2>1, <2>4 DEF FlagIsStale
    <2>5. ASSUME job.controls
          PROVE  /\ \A e \in ToSet(job.index) : e.id = c.id => e.gold \in {"", c.gold}
                 /\ \A p \in ToSet(found.positive) : p.match /\ (Noted(c, p.rejection) \/ p.excused)
        <3>1. \A e \in ToSet(job.index) : e.id = c.id => e.gold \in {"", c.gold}
            BY <2>1, <2>2, <2>5, <1>2
        <3>2. \A k \in DOMAIN found.positive : ~wrong(k)
            BY <2>1, <2>2, <2>5
        <3> QED
            BY <3>1, <3>2 DEF ToSet
    <2>6. ASSUME job.controls, NEW k \in DOMAIN found.negative
          PROVE  /\ found.negative[k].truth # "invalid"
                 /\ negative[k] = [heldout |-> found.negative[k].heldout, status |-> found.negative[k].truth]
        <3>1. r.negative = negative /\ k \in DOMAIN negative
            BY <1>1, <2>2, <2>6
        <3>2. negative[k].status \notin {"unscored", "invalid"}
            BY <2>1, <2>2, <2>6, <3>1
        <3>3. negative[k].status = found.negative[k].truth
            BY <3>2 DEF ControlStatus
        <3> QED
            BY <3>1, <3>2, <3>3
    <2>7. Holds(c)
        BY <2>3, <2>4, <2>5, <2>6 DEF Holds, ToSet
    <2>8. ControlsTold(r, c)
        <3>1. CASE job.controls
            <4>1. r.negative = negative /\ r.positive = Len(found.positive)
                BY <1>1, <2>2, <3>1
            <4>2. negative = [k \in DOMAIN found.negative |->
                                 [heldout |-> found.negative[k].heldout, status |-> found.negative[k].truth]]
                BY <2>6, <3>1
            <4> QED
                BY <4>1, <4>2, <3>1 DEF ControlsTold
        <3>2. CASE ~job.controls
            BY <1>1, <2>2, <3>2 DEF ControlsTold
        <3> QED
            BY <3>1, <3>2
    <2> QED
        BY <2>7, <2>8
<1>5. ASSUME glitch = <<"none", 0>>, Holds(c) PROVE ~r.problem
    <2>1. /\ \A v \in ToSet(variants) : v.health = "sound" /\ Noted(c, v.rejection)
          /\ job.program = "verify-dataset" /\ c.flag = "known" =>
                 \E v \in ToSet(variants) : v.rejection \in {"known", "scope"} \/ v.old
          /\ job.controls =>
                /\ \A e \in ToSet(job.index) : e.id = c.id => e.gold \in {"", c.gold}
                /\ \A p \in ToSet(found.positive) : p.match /\ (Noted(c, p.rejection) \/ p.excused)
                /\ \A n \in ToSet(found.negative) : n.truth # "invalid"
        BY <1>5 DEF Holds
    <2>2. ~goldFails /\ ~unsound
        BY <1>5, <2>1 DEF ToSet
    <2>3. ~stale
        BY <2>1 DEF FlagIsStale
    <2>4. ~(checked /\ found.stale)
        BY <2>1, <1>2
    <2>5. ~wrongs
        BY <1>5, <2>1 DEF ToSet
    <2>6. ~undone
        <3>1. SUFFICES ASSUME job.controls, NEW k \in DOMAIN found.negative
                       PROVE  negative[k].status \notin {"unscored", "invalid"}
            OBVIOUS
        <3>2. negative[k].status = found.negative[k].truth
            BY <1>5 DEF ControlStatus
        <3> QED
            BY <3>1, <3>2, <2>1, <1>2, <1>3
    <2> QED
        BY <1>1, <2>2, <2>3, <2>4, <2>5, <2>6
<1> QED
    BY <1>1, <1>4, <1>5

\* The places of a tier's controls, and that they can be counted.
LEMMA TierPlaces ==
    ASSUME NEW lists, NEW heldout, NEW i \in DOMAIN lists, NEW k \in DOMAIN lists[i]
    PROVE  <<i, k>> \in OfTier(lists, heldout) <=> lists[i][k].heldout = heldout
BY DEF OfTier

LEMMA TierIsPlaces ==
    ASSUME NEW lists, NEW heldout, NEW p \in OfTier(lists, heldout)
    PROVE  \E i \in DOMAIN lists : \E k \in DOMAIN lists[i] : p = <<i, k>> /\ lists[i][k].heldout = heldout
<1>1. PICK i \in DOMAIN lists : p \in {i} \X DOMAIN lists[i]
    BY DEF OfTier
<1>2. PICK k \in DOMAIN lists[i] : p = <<i, k>>
    BY <1>1
<1>3. lists[p[1]][p[2]].heldout = heldout
    BY DEF OfTier
<1> QED
    BY <1>2, <1>3

LEMMA TierFinite ==
    ASSUME NEW lists, IsFiniteSet(DOMAIN lists), \A i \in DOMAIN lists : IsFiniteSet(DOMAIN lists[i]), NEW heldout
    PROVE  IsFiniteSet(OfTier(lists, heldout))
<1> DEFINE f == [i \in DOMAIN lists |-> {i} \X DOMAIN lists[i]]
           parts == {{i} \X DOMAIN lists[i] : i \in DOMAIN lists}
<1>1. f \in Surjection(DOMAIN lists, parts)
    BY DEF Surjection
<1>2. IsFiniteSet(parts)
    BY <1>1, FS_Surjection
<1>3. \A part \in parts : IsFiniteSet(part)
    <2>1. SUFFICES ASSUME NEW i \in DOMAIN lists PROVE IsFiniteSet({i} \X DOMAIN lists[i])
        OBVIOUS
    <2>2. IsFiniteSet({i})
        BY FS_Singleton
    <2> QED
        BY <2>2, FS_Product
<1>4. IsFiniteSet(UNION parts)
    BY <1>2, <1>3, FS_UNION
<1> QED
    BY <1>4, FS_Subset DEF OfTier

\* The controls that a dataset's cases have; a result without a problem says the same of them.
OwnControls(cases) ==
    [i \in DOMAIN cases |-> IF IsBehavior(cases[i]) THEN <<>> ELSE Resolve(cases[i], job.index).negative]

IsTold(r, c) ==
    IF IsBehavior(c) THEN r.negative = <<>> /\ r.positive = 0 ELSE ControlsTold(r, c)

LEMMA ControlsFinite ==
    ASSUME IsJob(job), NEW cases, IsArray(cases), NEW heldout
    PROVE  /\ IsFiniteSet(OfTier(OwnControls(cases), heldout))
           /\ Cardinality(OfTier(OwnControls(cases), heldout)) \in Nat
<1> DEFINE own == OwnControls(cases)
<1>1. \A list : IsArray(list) => IsFiniteSet(DOMAIN list)
    <2>1. SUFFICES ASSUME NEW list, IsArray(list) PROVE IsFiniteSet(DOMAIN list)
        OBVIOUS
    <2>2. Len(list) \in Nat /\ DOMAIN list = 1 .. Len(list)
        BY <2>1 DEF IsArray
    <2> QED
        BY <2>2, FS_Interval
<1>2. IsFiniteSet(DOMAIN own)
    BY <1>1 DEF OwnControls
<1>3. ASSUME NEW i \in DOMAIN own PROVE IsFiniteSet(DOMAIN own[i])
    <2>1. IsArray(<<>>)
        BY DEF IsArray
    <2>2. IsArray(Resolve(cases[i], job.index).negative)
        BY Resolved
    <2>3. IsArray(own[i])
        BY <1>3, <2>1, <2>2 DEF OwnControls
    <2> QED
        BY <1>1, <2>3
<1>4. IsFiniteSet(OfTier(own, heldout))
    BY <1>2, <1>3, TierFinite
<1> QED
    BY <1>4, FS_CardinalityType

LEMMA GatesTold ==
    ASSUME IsJob(job), job.controls, NEW d \in DOMAIN job.datasets,
           DOMAIN results[d] = DOMAIN job.datasets[d],
           \A i \in DOMAIN results[d] : IsTold(results[d][i], job.datasets[d][i])
    PROVE  KillRateFails(d) <=> \E heldout \in BOOLEAN : ~IsMeasured(job.datasets[d], heldout)
<1> DEFINE cases == job.datasets[d]
           own == OwnControls(cases)
           told == Negatives(d)
<1>1. DOMAIN told = DOMAIN own
    BY DEF Negatives, OwnControls
<1>2. ASSUME NEW i \in DOMAIN own
      PROVE  /\ DOMAIN told[i] = DOMAIN own[i]
             /\ \A k \in DOMAIN own[i] : told[i][k].heldout = own[i][k].heldout /\ told[i][k].status = own[i][k].truth
    <2>1. told[i] = results[d][i].negative
        BY <1>1, <1>2 DEF Negatives
    <2>2. i \in DOMAIN results[d]
        BY DEF OwnControls
    <2>3. CASE IsBehavior(cases[i])
        <3>1. own[i] = <<>> /\ told[i] = <<>>
            BY <1>2, <2>1, <2>2, <2>3 DEF OwnControls, IsTold
        <3> QED
            BY <3>1
    <2>4. CASE ~IsBehavior(cases[i])
        <3>1. own[i] = Resolve(cases[i], job.index).negative
            BY <1>2, <2>4 DEF OwnControls
        <3>2. ControlsTold(results[d][i], cases[i])
            BY <2>2, <2>4 DEF IsTold
        <3>3. told[i] = [k \in DOMAIN own[i] |-> [heldout |-> own[i][k].heldout, status |-> own[i][k].truth]]
            BY <2>1, <3>1, <3>2 DEF ControlsTold
        <3> HIDE DEF own, told
        <3> QED
            BY <3>3
    <2> QED
        BY <2>3, <2>4
<1>3. ASSUME NEW heldout \in BOOLEAN
      PROVE  OfTier(told, heldout) = OfTier(own, heldout)
    <2> HIDE DEF own, told
    <2>1. ASSUME NEW p \in OfTier(told, heldout) PROVE p \in OfTier(own, heldout)
        <3>1. PICK i \in DOMAIN told : \E k \in DOMAIN told[i] : p = <<i, k>> /\ told[i][k].heldout = heldout
            BY <2>1, TierIsPlaces
        <3>2. PICK k \in DOMAIN told[i] : p = <<i, k>> /\ told[i][k].heldout = heldout
            BY <3>1
        <3> QED
            BY <1>1, <1>2, <3>2, TierPlaces
    <2>2. ASSUME NEW p \in OfTier(own, heldout) PROVE p \in OfTier(told, heldout)
        <3>1. PICK i \in DOMAIN own : \E k \in DOMAIN own[i] : p = <<i, k>> /\ own[i][k].heldout = heldout
            BY <2>2, TierIsPlaces
        <3>2. PICK k \in DOMAIN own[i] : p = <<i, k>> /\ own[i][k].heldout = heldout
            BY <3>1
        <3> QED
            BY <1>1, <1>2, <3>2, TierPlaces
    <2> QED
        BY <2>1, <2>2
<1>4. ASSUME NEW heldout \in BOOLEAN
      PROVE  {p \in OfTier(told, heldout) : told[p[1]][p[2]].status = "killed"}
             = {p \in OfTier(own, heldout) : own[p[1]][p[2]].truth = "killed"}
    <2> HIDE DEF own, told
    <2>1. ASSUME NEW p \in OfTier(own, heldout)
          PROVE  told[p[1]][p[2]].status = own[p[1]][p[2]].truth
        <3>1. PICK i \in DOMAIN own : \E k \in DOMAIN own[i] : p = <<i, k>> /\ own[i][k].heldout = heldout
            BY <2>1, TierIsPlaces
        <3>2. PICK k \in DOMAIN own[i] : p = <<i, k>>
            BY <3>1
        <3> QED
            BY <1>2, <3>2
    <2> QED
        BY <1>3, <2>1
<1>5. ASSUME NEW heldout \in BOOLEAN
      PROVE  LET all == OfTier(told, heldout)
                 killed == {p \in all : told[p[1]][p[2]].status = "killed"}
             IN (IF all = {} THEN Floor(heldout) > 0 ELSE Cardinality(killed) * FloorDen < Floor(heldout) * Cardinality(all))
                <=> ~IsMeasured(cases, heldout)
    <2> DEFINE all == OfTier(own, heldout)
               killed == {p \in all : own[p[1]][p[2]].truth = "killed"}
    <2>1. IsArray(cases)
        BY DEF IsJob
    <2>2. IsFiniteSet(all) /\ Cardinality(all) \in Nat
        BY <2>1, ControlsFinite
    <2>3. IsFiniteSet(killed) /\ Cardinality(killed) \in Nat
        BY <2>2, FS_Subset, FS_CardinalityType
    <2>4. Floor(heldout) \in Nat /\ FloorDen \in Nat
        BY SuiteAssumption DEF Floor
    <2>5. IsMeasured(cases, heldout)
          <=> IF all = {} THEN Floor(heldout) = 0 ELSE Cardinality(killed) * FloorDen >= Floor(heldout) * Cardinality(all)
        BY DEF IsMeasured, OwnControls
    <2>6. /\ OfTier(told, heldout) = all
          /\ {p \in OfTier(told, heldout) : told[p[1]][p[2]].status = "killed"} = killed
        BY <1>3, <1>4
    <2> DEFINE n == Cardinality(killed) * FloorDen
               m == Floor(heldout) * Cardinality(all)
    <2> HIDE DEF all, killed, told, own
    <2>7. n \in Nat /\ m \in Nat
        BY <2>2, <2>3, <2>4
    <2> HIDE DEF n, m
    <2>8. ~(n >= m) <=> n < m
        BY <2>7
    <2>9. (IF all = {} THEN Floor(heldout) > 0 ELSE n < m) <=> ~IsMeasured(cases, heldout)
        <3>1. CASE all = {}
            BY <2>4, <2>5, <3>1
        <3>2. CASE all # {}
            BY <2>5, <2>8, <3>2 DEF n, m
        <3> QED
            BY <3>1, <3>2
    <2> QED
        BY <2>6, <2>9 DEF n, m
<1> QED
    BY <1>5 DEF KillRateFails

\* A dataset has controls if one of its cases has one.
LEMMA ControlsAreFound ==
    ASSUME IsJob(job), NEW d \in DOMAIN job.datasets,
           DOMAIN results[d] = DOMAIN job.datasets[d],
           \A i \in DOMAIN results[d] : IsTold(results[d][i], job.datasets[d][i])
    PROVE  HasControls(d) <=> job.controls /\ ~HasNone(job.datasets[d])
<1> DEFINE cases == job.datasets[d]
           Found(c) == Resolve(c, job.index)
<1>1. ASSUME NEW i \in DOMAIN cases
      PROVE  (results[d][i].negative # <<>> \/ results[d][i].positive > 0)
             <=> /\ job.controls /\ ~IsBehavior(cases[i])
                 /\ Found(cases[i]).negative # <<>> \/ Found(cases[i]).positive # <<>>
    <2> DEFINE r == results[d][i]
               found == Found(cases[i])
    <2>1. IsTold(r, cases[i])
        OBVIOUS
    <2>2. CASE IsBehavior(cases[i])
        BY <2>1, <2>2 DEF IsTold
    <2>3. CASE ~IsBehavior(cases[i]) /\ ~job.controls
        BY <2>1, <2>3 DEF IsTold, ControlsTold
    <2>4. CASE ~IsBehavior(cases[i]) /\ job.controls
        <3>1. /\ r.positive = Len(found.positive)
              /\ r.negative = [k \in DOMAIN found.negative |->
                                 [heldout |-> found.negative[k].heldout, status |-> found.negative[k].truth]]
            BY <2>1, <2>4 DEF IsTold, ControlsTold
        <3>2. IsArray(found.negative) /\ IsArray(found.positive)
            BY Resolved
        <3>3. found.positive # <<>> <=> Len(found.positive) > 0
            BY <3>2 DEF IsArray
        <3>4. r.negative = [k \in DOMAIN found.negative |-> r.negative[k]]
            BY <3>1
        <3>5. r.negative = <<>> <=> found.negative = <<>>
            <4> HIDE DEF r, found
            <4> QED
                BY <3>2, <3>4, MappedList
        <3> QED
            BY <2>4, <3>1, <3>3, <3>5
    <2> QED
        BY <2>2, <2>3, <2>4
<1>2. HasNone(cases) <=> \A i \in DOMAIN cases : ~IsBehavior(cases[i]) =>
                             Found(cases[i]).negative = <<>> /\ Found(cases[i]).positive = <<>>
    BY DEF HasNone, AnswersOf, ToSet
<1> QED
    BY <1>1, <1>2 DEF HasControls

\* What a suite that deserves to pass is: its cases hold, agree, are covered, and every dataset's
\* controls are killed often enough.
Definitions(datasets) == UNION {ToSet(cases) : cases \in ToSet(datasets)}
DefsAgree(cases) ==
    \A c, d \in cases :
        (c.id = d.id => c = d) /\ (QuestionKey(c) = QuestionKey(d) => c.intent = d.intent /\ c.flag = d.flag)
GateHolds(cases) ==
    \/ HasNone(cases) /\ (job.program = "verify-dataset" \/ AnswersOf(cases) = {})
    \/ \A heldout \in BOOLEAN : IsMeasured(cases, heldout)

LEMMA DefinitionPlaces ==
    ASSUME NEW datasets, NEW c
    PROVE  c \in Definitions(datasets) <=> \E d \in DOMAIN datasets : \E i \in DOMAIN datasets[d] : c = datasets[d][i]
BY DEF Definitions, ToSet

LEMMA CoverageTold ==
    CoverageFails <=>
        /\ job.controls
        /\ LET answers == {c \in Definitions(job.datasets) : ~IsBehavior(c)} IN
           ~(/\ job.policy = "strict" => \A c \in answers : HasNegative(c)
             /\ answers # {} => \E c \in answers : HasNegative(c))
<1> DEFINE answers == {c \in Definitions(job.datasets) : ~IsBehavior(c)}
           of == [d \in DOMAIN job.datasets |-> AnswersOf(job.datasets[d])]
<1>1. \A d \in DOMAIN job.datasets : of[d] \subseteq answers
    BY DefinitionPlaces DEF AnswersOf, ToSet
<1>2. ASSUME NEW c \in answers PROVE \E d \in DOMAIN job.datasets : c \in of[d]
    <2>1. PICK d \in DOMAIN job.datasets : \E i \in DOMAIN job.datasets[d] : c = job.datasets[d][i]
        BY DefinitionPlaces
    <2>2. c \in of[d]
        BY <2>1 DEF AnswersOf, ToSet
    <2> QED
        BY <2>2
<1>3. DOMAIN of = DOMAIN job.datasets
    OBVIOUS
<1>4. CoverageFails <=>
        /\ job.controls
        /\ \/ job.policy = "strict" /\ \E d \in DOMAIN of : \E c \in of[d] : ~HasNegative(c)
           \/ (\E d \in DOMAIN of : of[d] # {}) /\ ~\E d \in DOMAIN of : \E c \in of[d] : HasNegative(c)
    BY DEF CoverageFails
<1> HIDE DEF answers, of
<1>5. (\E d \in DOMAIN of : \E c \in of[d] : ~HasNegative(c)) <=> \E c \in answers : ~HasNegative(c)
    BY <1>1, <1>2, <1>3
<1>6. (\E d \in DOMAIN of : \E c \in of[d] : HasNegative(c)) <=> \E c \in answers : HasNegative(c)
    BY <1>1, <1>2, <1>3
<1>7. (\E d \in DOMAIN of : of[d] # {}) <=> answers # {}
    BY <1>1, <1>2, <1>3
<1>8. CoverageFails <=> /\ job.controls
                        /\ ~(/\ job.policy = "strict" => \A c \in answers : HasNegative(c)
                             /\ answers # {} => \E c \in answers : HasNegative(c))
    BY <1>4, <1>5, <1>6, <1>7
<1> QED
    BY <1>8 DEF answers

LEMMA Deserving ==
    ASSUME IsJob(job)
    PROVE  Deserves <=> /\ \A c \in Definitions(job.datasets) : Holds(c)
                        /\ job.program = "eval" => DefsAgree(Definitions(job.datasets))
                        /\ ~CoverageFails
                        /\ job.controls => \A d \in DOMAIN job.datasets : GateHolds(job.datasets[d])
<1> DEFINE all == Definitions(job.datasets)
           answers == {c \in all : ~IsBehavior(c)}
           covered == /\ job.policy = "strict" => \A c \in answers : HasNegative(c)
                      /\ answers # {} => \E c \in answers : HasNegative(c)
           gates == \A cases \in ToSet(job.datasets) : GateHolds(cases)
<1>1. Deserves <=> /\ \A c \in all : Holds(c)
                   /\ job.program = "eval" => DefsAgree(all)
                   /\ job.controls => covered /\ gates
    BY DEF Deserves, Definitions, DefsAgree, GateHolds
<1>2. gates <=> \A d \in DOMAIN job.datasets : GateHolds(job.datasets[d])
    BY DEF ToSet
<1>3. CoverageFails <=> job.controls /\ ~covered
    BY CoverageTold
<1> QED
    BY <1>1, <1>2, <1>3

\* A check without a problem passes exactly the suites that deserve it, among those that are not refused.
LEMMA CheckedCases ==
    ASSUME IsJob(job), ResultsTell, NEW d \in DOMAIN results, NEW i \in DOMAIN results[d],
           Len(results[d]) = Len(job.datasets[d])
    PROVE  /\ i \in DOMAIN job.datasets[d]
           /\ results[d][i].def = job.datasets[d][i]
           /\ ~results[d][i].problem => Holds(job.datasets[d][i]) /\ IsTold(results[d][i], job.datasets[d][i])
           /\ glitches = 0 /\ Holds(job.datasets[d][i]) => ~results[d][i].problem
<1> DEFINE c == job.datasets[d][i]
           r == results[d][i]
<1>1. DOMAIN results[d] = 1 .. Len(results[d]) /\ DOMAIN job.datasets[d] = 1 .. Len(job.datasets[d])
    BY DEF ResultsTell, IsArray, IsJob
<1>2. IsResultOf(r, c)
    BY DEF ResultsTell
<1>3. PICK glitch \in GlitchesOf(c) \cup {<<"none", 0>>} : r = VerifyCase(c, glitch) /\ (glitches = 0 => glitch = <<"none", 0>>)
    BY <1>2 DEF IsResultOf
<1> HIDE DEF c, r
<1>4. /\ r.def = c
      /\ ~r.problem => Holds(c) /\ IsTold(r, c)
      /\ glitches = 0 /\ Holds(c) => ~r.problem
    <2>1. CASE IsBehavior(c)
        BY <1>3, <2>1, BehaviorChecked DEF IsTold
    <2>2. CASE ~IsBehavior(c)
        BY <1>3, <2>2, AnswerChecked DEF IsTold
    <2> QED
        BY <2>1, <2>2
<1> QED
    BY <1>1, <1>4 DEF c, r

LEMMA PassedDeserves ==
    ASSUME IsJob(job), ResultsTell, IsChecked, ~Fails, ~CoverageFails,
           job.program = "eval" => DefsAgree(Definitions(job.datasets))
    PROVE  Deserves
<1>1. ASSUME NEW d \in DOMAIN job.datasets
      PROVE  /\ DOMAIN results[d] = DOMAIN job.datasets[d]
             /\ \A i \in DOMAIN results[d] : /\ results[d][i].def = job.datasets[d][i]
                                             /\ Holds(job.datasets[d][i]) /\ IsTold(results[d][i], job.datasets[d][i])
    <2>1. d \in DOMAIN results /\ Len(results[d]) = Len(job.datasets[d]) /\ \A i \in DOMAIN results[d] : ~results[d][i].problem
        BY DEF ResultsTell, IsChecked, Fails
    <2>2. DOMAIN results[d] = DOMAIN job.datasets[d]
        BY <2>1 DEF ResultsTell, IsArray, IsJob
    <2> QED
        BY <2>1, <2>2, CheckedCases
<1>2. \A c \in Definitions(job.datasets) : Holds(c)
    BY <1>1, DefinitionPlaces
<1>3. ASSUME job.controls, NEW d \in DOMAIN job.datasets PROVE GateHolds(job.datasets[d])
    <2> DEFINE cases == job.datasets[d]
    <2>1. KillRateFails(d) <=> \E heldout \in BOOLEAN : ~IsMeasured(cases, heldout)
        BY <1>1, <1>3, GatesTold
    <2>2. HasControls(d) <=> ~HasNone(cases)
        BY <1>1, <1>3, ControlsAreFound
    <2>3. AnswersOf(cases) # {} <=> {i \in DOMAIN results[d] : ~IsBehavior(results[d][i].def)} # {}
        BY <1>1 DEF AnswersOf, ToSet
    <2>4. d \in DOMAIN results /\ ~GateFails(d)
        BY DEF Fails, ResultsTell
    <2>5. CASE job.program = "verify-dataset"
        <3>1. ~(HasControls(d) /\ KillRateFails(d))
            BY <2>4, <2>5 DEF GateFails
        <3> QED
            BY <2>1, <2>2, <2>5, <3>1 DEF GateHolds
    <2>6. CASE job.program # "verify-dataset"
        <3>1. ~((HasControls(d) \/ AnswersOf(cases) # {}) /\ KillRateFails(d))
            BY <1>3, <2>3, <2>4, <2>6 DEF GateFails
        <3> QED
            BY <2>1, <2>2, <3>1 DEF GateHolds
    <2> QED
        BY <2>5, <2>6
<1> QED
    BY <1>2, <1>3, Deserving

LEMMA FailedOnlyByGlitch ==
    ASSUME IsJob(job), ResultsTell, IsChecked, glitches = 0, Deserves
    PROVE  ~Fails
<1>1. /\ \A c \in Definitions(job.datasets) : Holds(c)
      /\ ~CoverageFails
      /\ job.controls => \A d \in DOMAIN job.datasets : GateHolds(job.datasets[d])
    BY Deserving
<1>2. ASSUME NEW d \in DOMAIN results
      PROVE  /\ d \in DOMAIN job.datasets /\ DOMAIN results[d] = DOMAIN job.datasets[d]
             /\ \A i \in DOMAIN results[d] : /\ ~results[d][i].problem
                                             /\ results[d][i].def = job.datasets[d][i]
                                             /\ IsTold(results[d][i], job.datasets[d][i])
    <2>1. d \in DOMAIN job.datasets /\ Len(results[d]) = Len(job.datasets[d])
        BY DEF ResultsTell, IsChecked
    <2>2. DOMAIN results[d] = DOMAIN job.datasets[d]
        BY <2>1 DEF ResultsTell, IsArray, IsJob
    <2>3. \A i \in DOMAIN results[d] : Holds(job.datasets[d][i])
        BY <1>1, <2>1, <2>2, DefinitionPlaces
    <2> QED
        BY <2>1, <2>2, <2>3, CheckedCases
<1>3. ASSUME NEW d \in DOMAIN results PROVE ~GateFails(d)
    <2> DEFINE cases == job.datasets[d]
               answers == {i \in DOMAIN results[d] : ~IsBehavior(results[d][i].def)}
    <2>1. job.controls => (KillRateFails(d) <=> \E heldout \in BOOLEAN : ~IsMeasured(cases, heldout))
        BY <1>2, GatesTold
    <2>2. HasControls(d) <=> job.controls /\ ~HasNone(cases)
        BY <1>2, ControlsAreFound
    <2>3. AnswersOf(cases) # {} <=> answers # {}
        BY <1>2 DEF AnswersOf, ToSet
    <2>4. job.controls => GateHolds(cases)
        BY <1>1, <1>2
    <2>5. ASSUME job.controls, job.policy = "strict", NEW i \in answers PROVE results[d][i].negative # <<>>
        <3> DEFINE c == cases[i]
                   found == Resolve(c, job.index)
        <3>1. ~IsBehavior(c) /\ c \in Definitions(job.datasets)
            BY <1>2, DefinitionPlaces
        <3>2. HasNegative(c)
            BY <1>1, <2>5, <3>1, CoverageTold
        <3>3. found.negative # <<>>
            BY <3>2 DEF HasNegative
        <3>4. IsArray(found.negative)
            BY Resolved
        <3>5. results[d][i].negative = [k \in DOMAIN found.negative |->
                                          [heldout |-> found.negative[k].heldout, status |-> found.negative[k].truth]]
            BY <1>2, <2>5, <3>1 DEF IsTold, ControlsTold
        <3>6. results[d][i].negative = [k \in DOMAIN found.negative |-> results[d][i].negative[k]]
            BY <3>5
        <3> HIDE DEF found
        <3> QED
            BY <3>3, <3>4, <3>6, MappedList
    <2>6. CASE job.program = "verify-dataset"
        BY <2>1, <2>2, <2>4, <2>6 DEF GateFails, GateHolds
    <2>7. CASE job.program # "verify-dataset"
        <3>1. ~(job.controls /\ (HasControls(d) \/ answers # {}) /\ KillRateFails(d))
            BY <2>1, <2>2, <2>3, <2>4, <2>7 DEF GateHolds
        <3> QED
            BY <2>5, <2>7, <3>1 DEF GateFails
    <2> QED
        BY <2>6, <2>7
<1> QED
    BY <1>2, <1>3 DEF Fails

-----------------------------------------------------------------------------
(* The selection of a suite.                                                 *)

\* What is selected when the cases in taken have been added: their ids and definitions agree, or there
\* is a conflict; without one, every question among them has one entry, in the datasets that have it, and
\* every id among them selects its own question.
DefsOf(taken) == {x.def : x \in taken}
PlacesOf(taken) == {x.inside : x \in taken}
EntryLists(defs, places) == Seq([def : defs, inside : SUBSET places])
KeptTells(chosen, taken) ==
    /\ chosen.kept \in EntryLists(DefsOf(taken), PlacesOf(taken))
    /\ \A e \in DOMAIN chosen.kept :
           chosen.kept[e].inside = {x.inside : x \in {y \in taken : QuestionKey(y.def) = QuestionKey(chosen.kept[e].def)}}
    /\ \A e, f \in DOMAIN chosen.kept : QuestionKey(chosen.kept[e].def) = QuestionKey(chosen.kept[f].def) => e = f
    /\ \A c \in DefsOf(taken) : \E e \in DOMAIN chosen.kept : QuestionKey(chosen.kept[e].def) = QuestionKey(c)
NamesTell(chosen, taken) ==
    /\ DOMAIN chosen.names = {c.id : c \in DefsOf(taken)}
    /\ \A id \in DOMAIN chosen.names :
        /\ chosen.names[id].def \in DefsOf(taken) /\ chosen.names[id].def.id = id
        /\ chosen.names[id].entry \in DOMAIN chosen.kept
        /\ QuestionKey(chosen.kept[chosen.names[id].entry].def) = QuestionKey(chosen.names[id].def)
SelectionTells(chosen, taken) ==
    /\ chosen.conflict \in BOOLEAN
    /\ chosen.conflict <=> ~DefsAgree(DefsOf(taken))
    /\ ~chosen.conflict => KeptTells(chosen, taken) /\ NamesTell(chosen, taken)

LEMMA AgreeWithOneMore ==
    ASSUME NEW cases, NEW c
    PROVE  DefsAgree(cases \cup {c}) <=>
               /\ DefsAgree(cases)
               /\ \A d \in cases : (d.id = c.id => d = c) /\ (QuestionKey(d) = QuestionKey(c) => d.intent = c.intent /\ d.flag = c.flag)
BY DEF DefsAgree

LEMMA EntryTypes ==
    ASSUME NEW defs, NEW places, NEW list \in EntryLists(defs, places)
    PROVE  /\ Len(list) \in Nat /\ DOMAIN list = 1 .. Len(list)
           /\ \A e \in DOMAIN list : list[e].def \in defs /\ list[e].inside \in SUBSET places
<1> DEFINE S == [def : defs, inside : SUBSET places]
<1>1. list \in Seq(S)
    BY DEF EntryLists
<1>2. \A x \in S : x.def \in defs /\ x.inside \in SUBSET places
    OBVIOUS
<1> HIDE DEF S
<1>3. Len(list) \in Nat /\ DOMAIN list = 1 .. Len(list) /\ \A e \in DOMAIN list : list[e] \in S
    BY <1>1
<1> QED
    BY <1>2, <1>3

LEMMA MoreEntries ==
    ASSUME NEW defs, NEW places, NEW list \in EntryLists(defs, places), NEW defs2, defs \subseteq defs2,
           NEW places2, places \subseteq places2
    PROVE  list \in EntryLists(defs2, places2)
<1>1. [def : defs, inside : SUBSET places] \subseteq [def : defs2, inside : SUBSET places2]
    OBVIOUS
<1> DEFINE S == [def : defs, inside : SUBSET places]
           T == [def : defs2, inside : SUBSET places2]
<1> HIDE DEF S, T
<1>2. \A s \in Seq(S) : S \subseteq T => s \in Seq(T)
    OBVIOUS
<1> QED
    BY <1>1, <1>2 DEF S, T, EntryLists

IsJoined(joined, list, e, d) ==
    /\ DOMAIN joined = DOMAIN list
    /\ \A f \in DOMAIN list : /\ joined[f].def = list[f].def
                              /\ joined[f].inside = IF f = e THEN list[f].inside \cup {d} ELSE list[f].inside

LEMMA EntryJoined ==
    ASSUME NEW defs, NEW places, NEW list \in EntryLists(defs, places), NEW e \in DOMAIN list, NEW d \in places
    PROVE  Joined(list, e, d) \in EntryLists(defs, places) /\ IsJoined(Joined(list, e, d), list, e, d)
<1> DEFINE S == [def : defs, inside : SUBSET places]
           one == [list[e] EXCEPT !.inside = @ \cup {d}]
           joined == Joined(list, e, d)
<1>1. list \in Seq(S) /\ list[e] \in S
    <2>1. list \in Seq(S)
        BY DEF EntryLists
    <2> HIDE DEF S
    <2> QED
        BY <2>1
<1>2. one \in S /\ one.def = list[e].def /\ one.inside = list[e].inside \cup {d}
    <2> DEFINE x == list[e]
    <2>1. x \in S
        BY <1>1
    <2> HIDE DEF x
    <2>2. LET y == [x EXCEPT !.inside = @ \cup {d}] IN y \in S /\ y.def = x.def /\ y.inside = x.inside \cup {d}
        BY <2>1
    <2> QED
        BY <2>2 DEF x
<1>3. joined = [list EXCEPT ![e] = one]
    BY DEF Joined
<1> HIDE DEF one, S, joined
<1>4. joined \in Seq(S) /\ DOMAIN joined = DOMAIN list /\ joined[e] = one
      /\ \A f \in DOMAIN list : f # e => joined[f] = list[f]
    BY <1>1, <1>2, <1>3
<1>5. \A f \in DOMAIN list : /\ joined[f].def = list[f].def
                             /\ joined[f].inside = IF f = e THEN list[f].inside \cup {d} ELSE list[f].inside
    BY <1>2, <1>4
<1> QED
    BY <1>4, <1>5 DEF S, joined, EntryLists, IsJoined

LEMMA EntryAdded ==
    ASSUME NEW defs, NEW places, NEW list \in EntryLists(defs, places), NEW c \in defs, NEW d \in places
    PROVE  LET added == Append(list, [def |-> c, inside |-> {d}]) IN
           /\ added \in EntryLists(defs, places) /\ DOMAIN added = DOMAIN list \cup {Len(list) + 1}
           /\ Len(list) + 1 \notin DOMAIN list
           /\ \A e \in DOMAIN list : added[e] = list[e]
           /\ added[Len(list) + 1].def = c /\ added[Len(list) + 1].inside = {d}
<1> DEFINE S == [def : defs, inside : SUBSET places]
           new == [def |-> c, inside |-> {d}]
<1>1. list \in Seq(S) /\ new \in S /\ new.def = c /\ new.inside = {d}
    BY DEF EntryLists
<1> HIDE DEF S, new
<1>2. /\ Append(list, new) \in Seq(S) /\ DOMAIN Append(list, new) = DOMAIN list \cup {Len(list) + 1}
      /\ Len(list) + 1 \notin DOMAIN list
      /\ \A e \in DOMAIN list : Append(list, new)[e] = list[e]
      /\ Append(list, new)[Len(list) + 1] = new
    BY <1>1
<1> QED
    BY <1>1, <1>2 DEF S, new, EntryLists

LEMMA AddTells ==
    ASSUME NEW chosen, NEW taken, SelectionTells(chosen, taken), NEW one
    PROVE  SelectionTells(Add(chosen, one), taken \cup {one})
<1> DEFINE c == one.def
           isNamed == c.id \in DOMAIN chosen.names
           alike == {e \in DOMAIN chosen.kept : QuestionKey(chosen.kept[e].def) = QuestionKey(c)}
           entry == IF isNamed THEN chosen.names[c.id].entry
                    ELSE IF alike = {} THEN Len(chosen.kept) + 1 ELSE CHOOSE e \in alike : TRUE
           conflict == IF isNamed THEN chosen.names[c.id].def # c
                       ELSE alike # {} /\ DuplicateDiffers(chosen.kept[entry].def, c)
           more == taken \cup {one}
           new == [def |-> c, inside |-> {one.inside}]
           after == Add(chosen, one)
<1>1. /\ after.kept = IF conflict THEN chosen.kept
                      ELSE IF entry = Len(chosen.kept) + 1 THEN Append(chosen.kept, new)
                      ELSE Joined(chosen.kept, entry, one.inside)
      /\ after.names = [id \in DOMAIN chosen.names \cup {c.id} |->
                           IF id \in DOMAIN chosen.names THEN chosen.names[id] ELSE [def |-> c, entry |-> entry]]
      /\ after.conflict = (chosen.conflict \/ conflict)
    BY DEF Add
<1>2. DefsOf(more) = DefsOf(taken) \cup {c}
    BY DEF DefsOf
<1>3. after.conflict \in BOOLEAN
    BY <1>1
<1> HIDE DEF after
<1>4. ASSUME chosen.conflict PROVE SelectionTells(after, more)
    <2>1. ~DefsAgree(DefsOf(more))
        <3>1. ~DefsAgree(DefsOf(taken))
            BY <1>4 DEF SelectionTells
        <3>2. \A defs, x : DefsAgree(defs \cup {x}) => DefsAgree(defs)
            BY DEF DefsAgree
        <3> QED
            BY ONLY <1>2, <3>1, <3>2
    <2>2. after.conflict = TRUE
        BY <1>1, <1>4
    <2> QED
        BY <2>1, <2>2 DEF SelectionTells
<1>5. ASSUME ~chosen.conflict PROVE SelectionTells(after, more)
    <2>1. DefsAgree(DefsOf(taken)) /\ KeptTells(chosen, taken) /\ NamesTell(chosen, taken)
        BY <1>5 DEF SelectionTells
    <2>2. /\ entry \in DOMAIN chosen.kept \/ (entry = Len(chosen.kept) + 1 /\ alike = {} /\ ~isNamed)
          /\ ~isNamed /\ alike # {} => entry \in alike
          /\ isNamed => entry \in DOMAIN chosen.kept
        BY <2>1 DEF NamesTell
    <2>3. /\ Len(chosen.kept) \in Nat /\ DOMAIN chosen.kept = 1 .. Len(chosen.kept)
          /\ \A e \in DOMAIN chosen.kept : chosen.kept[e].def \in DefsOf(taken)
        <3>1. chosen.kept \in EntryLists(DefsOf(taken), PlacesOf(taken))
            BY <2>1 DEF KeptTells
        <3> QED
            BY <3>1, EntryTypes
    <2> HIDE DEF entry, alike
    <2>4. conflict <=> ~DefsAgree(DefsOf(more))
        <3> DEFINE defs == DefsOf(taken)
                   Clash(d) == ~(/\ d.id = c.id => d = c
                                 /\ QuestionKey(d) = QuestionKey(c) => d.intent = c.intent /\ d.flag = c.flag)
        <3>1. ~DefsAgree(DefsOf(more)) <=> \E d \in defs : Clash(d)
            <4>1. DefsAgree(defs \cup {c}) <=> DefsAgree(defs) /\ \A d \in defs : ~Clash(d)
                BY AgreeWithOneMore
            <4> HIDE DEF Clash, more
            <4> QED
                BY <1>2, <2>1, <4>1
        <3>2. CASE isNamed
            <4> DEFINE d == chosen.names[c.id].def
            <4>1. d \in defs /\ d.id = c.id
                BY <2>1, <3>2 DEF NamesTell
            <4>2. conflict <=> d # c
                BY <3>2
            <4> HIDE DEF d, conflict, defs, more
            <4>3. CASE d = c
                <5>1. \A f \in defs : ~Clash(f)
                    BY <2>1, <4>1, <4>3 DEF DefsAgree, defs
                <5> QED
                    BY <3>1, <4>2, <4>3, <5>1
            <4>4. CASE d # c
                BY <3>1, <4>1, <4>2, <4>4
            <4> QED
                BY <4>3, <4>4
        <3>3. CASE ~isNamed
            <4>1. \A d \in defs : d.id # c.id
                BY <2>1, <3>3 DEF NamesTell
            <4>2. CASE alike = {}
                <5>1. \A d \in defs : QuestionKey(d) # QuestionKey(c)
                    BY <2>1, <4>2 DEF KeptTells, alike
                <5>2. ~conflict
                    BY <3>3, <4>2
                <5> QED
                    BY <3>1, <4>1, <5>1, <5>2
            <4>3. CASE alike # {}
                <5> DEFINE k == chosen.kept[entry].def
                <5>1. k \in defs /\ QuestionKey(k) = QuestionKey(c)
                    BY <2>2, <2>3, <3>3, <4>3 DEF alike
                <5>2. conflict <=> k.intent # c.intent \/ k.flag # c.flag
                    BY <3>3, <4>3 DEF DuplicateDiffers
                <5>3. ASSUME ~conflict, NEW d \in defs, QuestionKey(d) = QuestionKey(c)
                      PROVE  d.intent = c.intent /\ d.flag = c.flag
                    <6>1. d.intent = k.intent /\ d.flag = k.flag
                        BY <2>1, <5>1, <5>3 DEF DefsAgree
                    <6> QED
                        BY <5>2, <5>3, <6>1
                <5> HIDE DEF k, conflict, defs, more
                <5>4. CASE conflict
                    BY <3>1, <5>1, <5>2, <5>4
                <5>5. CASE ~conflict
                    BY <3>1, <4>1, <5>3, <5>5
                <5> QED
                    BY <5>4, <5>5
            <4> QED
                BY <4>2, <4>3
        <3> QED
            BY <3>2, <3>3
    <2>5. ASSUME ~conflict PROVE KeptTells(after, more) /\ NamesTell(after, more)
        <3>1. entry \in DOMAIN chosen.kept => QuestionKey(chosen.kept[entry].def) = QuestionKey(c)
            <4>1. CASE isNamed
                BY <2>1, <2>5, <4>1 DEF NamesTell, entry
            <4>2. CASE ~isNamed /\ alike # {}
                BY <2>2, <4>2 DEF alike
            <4>3. CASE ~isNamed /\ alike = {}
                BY <2>3, <4>3 DEF entry
            <4> QED
                BY <4>1, <4>2, <4>3
        <3>2. entry \notin DOMAIN chosen.kept => alike = {} /\ entry = Len(chosen.kept) + 1
            BY <2>2
        <3> DEFINE Q(e) == QuestionKey(after.kept[e].def)
                   Inside(q, xs) == {x.inside : x \in {y \in xs : QuestionKey(y.def) = q}}
        <3>3. /\ after.kept \in EntryLists(DefsOf(more), PlacesOf(more))
              /\ DOMAIN after.kept = DOMAIN chosen.kept \cup {entry}
              /\ \A e \in DOMAIN chosen.kept : after.kept[e].def = chosen.kept[e].def
              /\ \A e \in DOMAIN chosen.kept : e # entry => after.kept[e].inside = chosen.kept[e].inside
              /\ QuestionKey(after.kept[entry].def) = QuestionKey(c)
              /\ after.kept[entry].inside = IF entry \in DOMAIN chosen.kept THEN chosen.kept[entry].inside \cup {one.inside}
                                            ELSE {one.inside}
            <4> DEFINE defs == DefsOf(more)
                       places == PlacesOf(more)
                       kept == chosen.kept
            <4>1. chosen.kept \in EntryLists(DefsOf(taken), PlacesOf(taken)) /\ DefsOf(taken) \subseteq defs /\ PlacesOf(taken) \subseteq places
                BY <2>1 DEF KeptTells, DefsOf, PlacesOf
            <4>2. kept \in EntryLists(defs, places)
                BY <4>1, MoreEntries
            <4>3. c \in defs /\ one.inside \in places
                BY DEF DefsOf, PlacesOf
            <4> HIDE DEF conflict, defs, places, kept
            <4>4. CASE entry \in DOMAIN kept
                <5>1. after.kept = Joined(kept, entry, one.inside)
                    BY <1>1, <2>3, <2>5, <4>4 DEF kept
                <5>2. /\ after.kept \in EntryLists(defs, places) /\ DOMAIN after.kept = DOMAIN kept
                      /\ \A f \in DOMAIN kept :
                          /\ after.kept[f].def = kept[f].def
                          /\ after.kept[f].inside = IF f = entry THEN kept[f].inside \cup {one.inside} ELSE kept[f].inside
                    <6> DEFINE place == one.inside
                    <6>1. place \in places
                        BY <4>3
                    <6> HIDE DEF place
                    <6>2. /\ Joined(kept, entry, place) \in EntryLists(defs, places)
                          /\ IsJoined(Joined(kept, entry, place), kept, entry, place)
                        BY ONLY <4>2, <4>4, <6>1, EntryJoined
                    <6> QED
                        BY <5>1, <6>2 DEF place, IsJoined
                <5> QED
                    BY <3>1, <4>4, <5>2 DEF defs, places, kept
            <4>5. CASE entry \notin DOMAIN kept
                <5>1. entry = Len(kept) + 1
                    BY <3>2, <4>5 DEF kept
                <5>2. after.kept = Append(kept, [def |-> c, inside |-> {one.inside}])
                    BY <1>1, <2>5, <5>1 DEF kept
                <5>3. /\ after.kept \in EntryLists(defs, places) /\ DOMAIN after.kept = DOMAIN kept \cup {entry}
                      /\ \A e \in DOMAIN kept : after.kept[e] = kept[e]
                      /\ after.kept[entry].def = c /\ after.kept[entry].inside = {one.inside}
                    BY <4>2, <4>3, <5>1, <5>2, EntryAdded
                <5> QED
                    BY <4>5, <5>3 DEF defs, places, kept
            <4> QED
                BY <4>4, <4>5
        <3>4. \A e \in DOMAIN after.kept : e = entry \/ e \in DOMAIN chosen.kept
            BY <3>3
        <3>5. \A e \in DOMAIN chosen.kept : Q(e) = QuestionKey(c) => e = entry
            <4>1. TAKE e \in DOMAIN chosen.kept
            <4>2. HAVE Q(e) = QuestionKey(c)
            <4>3. QuestionKey(chosen.kept[e].def) = QuestionKey(c)
                BY <3>3, <4>2
            <4>4. e \in alike
                BY <4>3 DEF alike
            <4> QED
                BY <2>1, <3>1, <3>2, <4>3, <4>4 DEF KeptTells
        <3>6. \A e, f \in DOMAIN after.kept : Q(e) = Q(f) => e = f
            <4>1. TAKE e, f \in DOMAIN after.kept
            <4>2. HAVE Q(e) = Q(f)
            <4>3. CASE e = entry \/ f = entry
                BY <3>3, <3>4, <3>5, <4>2, <4>3
            <4>4. CASE e # entry /\ f # entry
                BY <2>1, <3>3, <3>4, <4>2, <4>4 DEF KeptTells
            <4> QED
                BY <4>3, <4>4
        <3>7. \A d \in DefsOf(more) : \E e \in DOMAIN after.kept : Q(e) = QuestionKey(d)
            <4>1. TAKE d \in DefsOf(more)
            <4>2. CASE d = c
                BY <3>3, <4>2
            <4>3. CASE d \in DefsOf(taken)
                <5>1. PICK e \in DOMAIN chosen.kept : QuestionKey(chosen.kept[e].def) = QuestionKey(d)
                    BY <2>1, <4>3 DEF KeptTells
                <5> QED
                    BY <3>3, <5>1
            <4> QED
                BY <1>2, <4>2, <4>3
        <3>8. ASSUME NEW e \in DOMAIN after.kept PROVE after.kept[e].inside = Inside(Q(e), more)
            <4>1. \A q : Inside(q, more) = IF q = QuestionKey(c) THEN Inside(q, taken) \cup {one.inside} ELSE Inside(q, taken)
                OBVIOUS
            <4>2. ASSUME e \in DOMAIN chosen.kept PROVE chosen.kept[e].inside = Inside(Q(e), taken)
                <5>1. chosen.kept[e].inside = Inside(QuestionKey(chosen.kept[e].def), taken)
                    BY <2>1, <4>2 DEF KeptTells
                <5> HIDE DEF Inside
                <5> QED
                    BY <3>3, <4>2, <5>1
            <4>3. e \notin DOMAIN chosen.kept => Inside(QuestionKey(c), taken) = {}
                <5>1. HAVE e \notin DOMAIN chosen.kept
                <5>2. alike = {}
                    BY <3>2, <3>4, <5>1
                <5>3. \A y \in taken : QuestionKey(y.def) # QuestionKey(c)
                    BY <2>1, <5>2 DEF KeptTells, alike, DefsOf
                <5> QED
                    BY <5>3
            <4> HIDE DEF Inside
            <4>4. CASE e = entry
                BY <3>3, <4>1, <4>2, <4>3, <4>4
            <4>5. CASE e # entry
                <5>1. e \in DOMAIN chosen.kept /\ after.kept[e].inside = chosen.kept[e].inside /\ Q(e) # QuestionKey(c)
                    BY <3>3, <3>4, <3>5, <4>5
                <5> QED
                    BY <4>1, <4>2, <5>1
            <4> QED
                BY <4>4, <4>5
        <3>10. KeptTells(after, more)
            BY <3>3, <3>6, <3>7, <3>8 DEF KeptTells
        <3>11. DOMAIN after.names = {d.id : d \in DefsOf(more)}
            <4>1. DOMAIN after.names = DOMAIN chosen.names \cup {c.id}
                BY <1>1
            <4>2. DOMAIN chosen.names = {d.id : d \in DefsOf(taken)}
                BY <2>1 DEF NamesTell
            <4> QED
                BY ONLY <1>2, <4>1, <4>2
        <3>12. ASSUME NEW id \in DOMAIN after.names
               PROVE  /\ after.names[id].def \in DefsOf(more) /\ after.names[id].def.id = id
                      /\ after.names[id].entry \in DOMAIN after.kept
                      /\ QuestionKey(after.kept[after.names[id].entry].def) = QuestionKey(after.names[id].def)
            <4>1. CASE id \in DOMAIN chosen.names
                <5>1. after.names[id] = chosen.names[id]
                    BY <1>1, <4>1
                <5>2. /\ chosen.names[id].def \in DefsOf(taken) /\ chosen.names[id].def.id = id
                      /\ chosen.names[id].entry \in DOMAIN chosen.kept
                      /\ QuestionKey(chosen.kept[chosen.names[id].entry].def) = QuestionKey(chosen.names[id].def)
                    BY <2>1, <4>1 DEF NamesTell
                <5> QED
                    BY <1>2, <3>3, <5>1, <5>2
            <4>2. CASE id \notin DOMAIN chosen.names
                <5>1. id = c.id /\ after.names[id] = [def |-> c, entry |-> entry]
                    BY <1>1, <4>2
                <5>2. after.names[id].def = c /\ after.names[id].entry = entry
                    BY <5>1
                <5> QED
                    BY <1>2, <3>3, <5>1, <5>2
            <4> QED
                BY <4>1, <4>2
        <3> QED
            BY <3>10, <3>11, <3>12 DEF NamesTell
    <2> HIDE DEF conflict
    <2>6. after.conflict <=> conflict
        BY <1>1, <1>5
    <2> QED
        BY <1>3, <2>4, <2>5, <2>6 DEF SelectionTells
<1> QED
    BY <1>4, <1>5 DEF after

\* A list of lists in one has the elements of all.
IsFlattening(f, lists, n) == f = [i \in 1 .. n |-> IF i = 1 THEN lists[i] ELSE f[i - 1] \o lists[i]]

LEMMA FlatteningExists ==
    ASSUME NEW lists, NEW n \in Nat
    PROVE  \E f : IsFlattening(f, lists, n)
<1> DEFINE Has(m) == \E f : IsFlattening(f, lists, m)
           Lacking == {m \in Nat : ~Has(m)}
<1>1. SUFFICES ASSUME Lacking # {} PROVE FALSE
    OBVIOUS
<1>2. PICK m \in Lacking : \A k \in Lacking : m <= k
    BY <1>1, LeastNumber
<1>3. Has(0)
    <2>1. IsFlattening([i \in 1 .. 0 |-> <<>>], lists, 0)
        BY DEF IsFlattening
    <2> QED
        BY <2>1
<1>4. m # 0 /\ m - 1 \in Nat /\ Has(m - 1)
    BY <1>2, <1>3
<1>5. PICK f : IsFlattening(f, lists, m - 1)
    BY <1>4
<1> DEFINE h == [i \in 1 .. m |-> IF i = m THEN IF m = 1 THEN lists[m] ELSE f[m - 1] \o lists[m] ELSE f[i]]
<1>6. ASSUME NEW i \in 1 .. m
      PROVE  h[i] = IF i = 1 THEN lists[i] ELSE h[i - 1] \o lists[i]
    <2>1. CASE i = m
        <3>1. h[i] = (IF m = 1 THEN lists[m] ELSE f[m - 1] \o lists[m]) /\ (m # 1 => h[m - 1] = f[m - 1])
            BY <1>4, <2>1
        <3> QED
            BY <3>1, <2>1, <1>4
    <2>2. CASE i # m
        <3>1. i \in 1 .. m - 1 /\ h[i] = f[i]
            BY <2>2, <1>4
        <3>2. f[i] = IF i = 1 THEN lists[i] ELSE f[i - 1] \o lists[i]
            BY <1>5, <3>1 DEF IsFlattening
        <3>3. i # 1 => h[i - 1] = f[i - 1]
            BY <3>1
        <3> QED
            BY <3>1, <3>2, <3>3
    <2> QED
        BY <2>1, <2>2
<1>7. h = [i \in 1 .. m |-> h[i]]
    OBVIOUS
<1>8. IsFlattening(h, lists, m)
    <2> HIDE DEF h
    <2>1. [i \in 1 .. m |-> h[i]] = [i \in 1 .. m |-> IF i = 1 THEN lists[i] ELSE h[i - 1] \o lists[i]]
        BY <1>6
    <2> QED
        BY <1>7, <2>1 DEF IsFlattening
<1> QED
    BY <1>2, <1>8

LEMMA FlatHasAll ==
    ASSUME NEW S, NEW lists \in Seq(Seq(S))
    PROVE  /\ FlattenSeq(lists) \in Seq(S)
           /\ ToSet(FlattenSeq(lists)) = UNION {ToSet(lists[d]) : d \in DOMAIN lists}
<1> DEFINE n == Len(lists)
           flat == CHOOSE f : IsFlattening(f, lists, n)
           Upto(k) == UNION {ToSet(lists[d]) : d \in 1 .. k}
           Flat(i) == flat[i] \in Seq(S) /\ ToSet(flat[i]) = Upto(i)
           Lacking == {i \in 1 .. n : ~Flat(i)}
<1>1. FlattenSeq(lists) = IF n = 0 THEN lists ELSE flat[n]
    BY DEF FlattenSeq, IsFlattening
<1>2. n \in Nat /\ DOMAIN lists = 1 .. n /\ \A d \in 1 .. n : lists[d] \in Seq(S)
    OBVIOUS
<1>3. IsFlattening(flat, lists, n)
    BY <1>2, FlatteningExists
<1> HIDE DEF n, flat
<1>4. \A i \in 1 .. n : flat[i] = IF i = 1 THEN lists[i] ELSE flat[i - 1] \o lists[i]
    BY <1>3 DEF IsFlattening
<1>5. \A s, t \in Seq(S) : s \o t \in Seq(S) /\ ToSet(s \o t) = ToSet(s) \cup ToSet(t)
    <2> TAKE s, t \in Seq(S)
    <2>1. s \o t \in Seq(S) /\ Len(s \o t) = Len(s) + Len(t)
          /\ \A i \in 1 .. Len(s) + Len(t) : (s \o t)[i] = IF i <= Len(s) THEN s[i] ELSE t[i - Len(s)]
        OBVIOUS
    <2>2. ASSUME NEW x \in ToSet(s) PROVE x \in ToSet(s \o t)
        <3>1. PICK i \in 1 .. Len(s) : x = s[i]
            BY DEF ToSet
        <3>2. i \in 1 .. Len(s) + Len(t) /\ i <= Len(s)
            OBVIOUS
        <3>3. (s \o t)[i] = x
            BY <2>1, <3>1, <3>2
        <3>4. DOMAIN (s \o t) = 1 .. Len(s) + Len(t)
            BY <2>1
        <3> QED
            BY <3>2, <3>3, <3>4 DEF ToSet
    <2>3. ASSUME NEW x \in ToSet(t) PROVE x \in ToSet(s \o t)
        <3>1. PICK i \in 1 .. Len(t) : x = t[i]
            BY DEF ToSet
        <3>2. Len(s) + i \in 1 .. Len(s) + Len(t) /\ ~(Len(s) + i <= Len(s)) /\ (Len(s) + i) - Len(s) = i
            OBVIOUS
        <3>3. (s \o t)[Len(s) + i] = x
            BY <2>1, <3>1, <3>2
        <3> QED
            BY <2>1, <3>2, <3>3 DEF ToSet
    <2>4. ASSUME NEW x \in ToSet(s \o t) PROVE x \in ToSet(s) \cup ToSet(t)
        <3>1. PICK i \in 1 .. Len(s) + Len(t) : x = (s \o t)[i]
            BY <2>1 DEF ToSet
        <3>2. CASE i <= Len(s)
            BY <2>1, <3>1, <3>2 DEF ToSet
        <3>3. CASE ~(i <= Len(s))
            <4>1. i - Len(s) \in 1 .. Len(t) /\ x = t[i - Len(s)]
                BY <2>1, <3>1, <3>3
            <4> QED
                BY <4>1 DEF ToSet
        <3> QED
            BY <3>2, <3>3
    <2> QED
        BY <2>1, <2>2, <2>3, <2>4
<1>6. \A i \in 1 .. n : Upto(i) = Upto(i - 1) \cup ToSet(lists[i])
    <2> TAKE i \in 1 .. n
    <2>1. i \in 1 .. i /\ (\A j \in 1 .. i - 1 : j \in 1 .. i) /\ \A j \in 1 .. i : j \in 1 .. i - 1 \/ j = i
        BY <1>2
    <2>2. \A x : (\E j \in 1 .. i : x \in ToSet(lists[j])) <=> (\E j \in 1 .. i - 1 : x \in ToSet(lists[j])) \/ x \in ToSet(lists[i])
        BY <2>1
    <2> QED
        BY <2>2
<1>7. Upto(0) = {}
    <2>1. \A d : d \notin 1 .. 0
        OBVIOUS
    <2> QED
        BY <2>1
<1>8. Upto(n) = UNION {ToSet(lists[d]) : d \in DOMAIN lists}
    BY <1>2
<1> HIDE DEF Upto
<1>9. ASSUME Lacking # {} PROVE FALSE
    <2>1. PICK i \in Lacking : \A j \in Lacking : i <= j
        <3>1. Lacking \in SUBSET Nat
            BY <1>2
        <3> HIDE DEF Lacking
        <3> QED
            BY <1>9, <3>1, LeastNumber
    <2>2. i \in 1 .. n /\ ~Flat(i) /\ lists[i] \in Seq(S)
        BY <1>2, <2>1
    <2>3. CASE i = 1
        <3>1. flat[1] = lists[1] /\ 1 - 1 = 0
            BY <1>4, <2>2, <2>3
        <3>2. Upto(1) = Upto(1 - 1) \cup ToSet(lists[1])
            BY <1>6, <2>2, <2>3
        <3>3. Upto(1) = ToSet(lists[1])
            BY <1>7, <3>1, <3>2
        <3> QED
            BY <2>2, <2>3, <3>1, <3>3
    <2>4. CASE i # 1
        <3>1. i - 1 \in 1 .. n /\ ~(i <= i - 1)
            BY <1>2, <2>2, <2>4
        <3>2. Flat(i - 1)
            BY <2>1, <3>1
        <3>3. flat[i] = flat[i - 1] \o lists[i] /\ Upto(i) = Upto(i - 1) \cup ToSet(lists[i])
            BY <1>4, <1>6, <2>2, <2>4
        <3> QED
            BY <1>5, <2>2, <3>2, <3>3
    <2> QED
        BY <2>3, <2>4
<1>10. CASE n = 0
    <2>1. lists = <<>> /\ FlattenSeq(lists) = lists
        BY <1>1, <1>2, <1>10 DEF n
    <2>2. FlattenSeq(lists) = <<>>
        BY <2>1
    <2>3. <<>> \in Seq(S) /\ ToSet(<<>>) = {}
        BY DEF ToSet
    <2>4. Upto(n) = {}
        BY <1>7, <1>10
    <2> QED
        BY <1>8, <2>2, <2>3, <2>4
<1>11. CASE n # 0
    <2>1. Flat(n)
        BY <1>2, <1>9, <1>11
    <2> QED
        BY <1>1, <1>8, <1>11, <2>1
<1> QED
    BY <1>10, <1>11

\* The cases of a suite, each with its dataset.
LEMMA AllCasesPlaces ==
    ASSUME NEW datasets, IsArray(datasets), \A d \in DOMAIN datasets : IsArray(datasets[d])
    PROVE  /\ IsArray(AllCases(datasets))
           /\ \A x : x \in ToSet(AllCases(datasets)) <=>
                         \E d \in DOMAIN datasets : \E i \in DOMAIN datasets[d] : x = [inside |-> d, def |-> datasets[d][i]]
<1> DEFINE Placed(d, i) == [inside |-> d, def |-> datasets[d][i]]
           S == UNION {{Placed(d, i) : i \in DOMAIN datasets[d]} : d \in DOMAIN datasets}
           lists == [d \in DOMAIN datasets |-> [i \in DOMAIN datasets[d] |-> Placed(d, i)]]
<1>1. ASSUME NEW d \in DOMAIN datasets
      PROVE  lists[d] \in Seq(S) /\ ToSet(lists[d]) = {Placed(d, i) : i \in DOMAIN datasets[d]}
    <2>1. DOMAIN datasets[d] = 1 .. Len(datasets[d]) /\ Len(datasets[d]) \in Nat
        BY DEF IsArray
    <2>2. lists[d] = [i \in DOMAIN datasets[d] |-> Placed(d, i)]
        OBVIOUS
    <2>3. \A i \in DOMAIN datasets[d] : Placed(d, i) \in S
        OBVIOUS
    <2> HIDE DEF lists, S, Placed
    <2>4. lists[d] \in Seq(S)
        BY <2>1, <2>2, <2>3
    <2>5. ToSet(lists[d]) = {Placed(d, i) : i \in DOMAIN datasets[d]}
        BY <2>2 DEF ToSet
    <2> QED
        BY <2>4, <2>5
<1>2. DOMAIN datasets = 1 .. Len(datasets) /\ Len(datasets) \in Nat
    BY DEF IsArray
<1>3. DOMAIN lists = DOMAIN datasets /\ lists = [d \in DOMAIN datasets |-> lists[d]]
    OBVIOUS
<1>4. AllCases(datasets) = FlattenSeq(lists)
    BY DEF AllCases
<1>5. S = UNION {ToSet(lists[d]) : d \in DOMAIN lists}
    <2>1. \A d \in DOMAIN datasets : ToSet(lists[d]) = {Placed(d, i) : i \in DOMAIN datasets[d]}
        BY <1>1
    <2> DEFINE of(d) == {Placed(d, i) : i \in DOMAIN datasets[d]}
    <2>2. S = UNION {of(d) : d \in DOMAIN datasets}
        OBVIOUS
    <2>3. \A d \in DOMAIN datasets : ToSet(lists[d]) = of(d)
        BY <2>1
    <2> HIDE DEF S, lists, of
    <2> QED
        BY ONLY <1>3, <2>2, <2>3
<1>6. lists \in Seq(Seq(S))
    <2> HIDE DEF lists, S
    <2> QED
        BY <1>1, <1>2, <1>3
<1>7. AllCases(datasets) \in Seq(S) /\ ToSet(AllCases(datasets)) = S
    <2> HIDE DEF lists, S
    <2> QED
        BY <1>4, <1>5, <1>6, FlatHasAll
<1>8. \A x : x \in S <=> \E d \in DOMAIN datasets : \E i \in DOMAIN datasets[d] : x = Placed(d, i)
    OBVIOUS
<1> QED
    BY <1>7, <1>8 DEF IsArray

IsChoosing(f, all, n) == f = [i \in 0 .. n |-> IF i = 0 THEN Nothing ELSE Add(f[i - 1], all[i])]

LEMMA ChoosingExists ==
    ASSUME NEW all, NEW n \in Nat
    PROVE  \E f : IsChoosing(f, all, n)
<1> DEFINE Has(m) == \E f : IsChoosing(f, all, m)
           Lacking == {m \in Nat : ~Has(m)}
<1>1. SUFFICES ASSUME Lacking # {} PROVE FALSE
    OBVIOUS
<1>2. PICK m \in Lacking : \A k \in Lacking : m <= k
    BY <1>1, LeastNumber
<1>3. Has(0)
    <2>1. IsChoosing([i \in 0 .. 0 |-> Nothing], all, 0)
        BY DEF IsChoosing
    <2> QED
        BY <2>1
<1>4. m # 0 /\ m - 1 \in Nat /\ Has(m - 1)
    BY <1>2, <1>3
<1>5. PICK f : IsChoosing(f, all, m - 1)
    BY <1>4
<1> DEFINE h == [i \in 0 .. m |-> IF i = m THEN Add(f[m - 1], all[m]) ELSE f[i]]
<1>6. ASSUME NEW i \in 0 .. m
      PROVE  h[i] = IF i = 0 THEN Nothing ELSE Add(h[i - 1], all[i])
    <2>1. CASE i = m
        <3>1. h[i] = Add(f[m - 1], all[m]) /\ h[m - 1] = f[m - 1]
            BY <1>4, <2>1
        <3> QED
            BY <3>1, <2>1, <1>4
    <2>2. CASE i # m
        <3>1. i \in 0 .. m - 1 /\ h[i] = f[i]
            BY <2>2, <1>4
        <3>2. f[i] = IF i = 0 THEN Nothing ELSE Add(f[i - 1], all[i])
            BY <1>5, <3>1 DEF IsChoosing
        <3>3. i # 0 => h[i - 1] = f[i - 1]
            BY <3>1
        <3> QED
            BY <3>1, <3>2, <3>3
    <2> QED
        BY <2>1, <2>2
<1>7. h = [i \in 0 .. m |-> h[i]]
    OBVIOUS
<1>8. IsChoosing(h, all, m)
    <2> HIDE DEF h
    <2>1. [i \in 0 .. m |-> h[i]] = [i \in 0 .. m |-> IF i = 0 THEN Nothing ELSE Add(h[i - 1], all[i])]
        BY <1>6
    <2> QED
        BY <1>7, <2>1 DEF IsChoosing
<1> QED
    BY <1>2, <1>8

\* What is selected of a suite.
LEMMA DedupeTells ==
    ASSUME NEW datasets, IsArray(AllCases(datasets))
    PROVE  SelectionTells(Dedupe(datasets), ToSet(AllCases(datasets)))
<1> DEFINE all == AllCases(datasets)
           n == Len(all)
           chosen == CHOOSE f : IsChoosing(f, all, n)
           Seen(k) == {all[i] : i \in 1 .. k}
           Lacking == {i \in 0 .. n : ~SelectionTells(chosen[i], Seen(i))}
<1>1. Dedupe(datasets) = chosen[n]
    BY DEF Dedupe, IsChoosing
<1>2. n \in Nat /\ DOMAIN all = 1 .. n
    BY DEF IsArray
<1>3. IsChoosing(chosen, all, n)
    BY <1>2, ChoosingExists
<1> HIDE DEF n, chosen, all
<1>4. \A i \in 0 .. n : chosen[i] = IF i = 0 THEN Nothing ELSE Add(chosen[i - 1], all[i])
    BY <1>3 DEF IsChoosing
<1>5. SelectionTells(Nothing, {})
    <2>1. Nothing.kept = <<>> /\ Nothing.conflict = FALSE /\ DOMAIN Nothing.names = {}
        BY DEF Nothing
    <2>2. DefsOf({}) = {}
        BY DEF DefsOf
    <2>3. DefsAgree(DefsOf({}))
        BY <2>2 DEF DefsAgree
    <2>4. KeptTells(Nothing, {})
        <3>1. <<>> \in EntryLists(DefsOf({}), PlacesOf({})) /\ DOMAIN <<>> = {}
            BY DEF EntryLists
        <3> QED
            BY <2>1, <2>2, <3>1 DEF KeptTells
    <2>5. NamesTell(Nothing, {})
        BY <2>1, <2>2 DEF NamesTell
    <2> QED
        BY <2>1, <2>3, <2>4, <2>5 DEF SelectionTells
<1>6. Seen(0) = {}
    OBVIOUS
<1>7. \A i \in 1 .. n : Seen(i) = Seen(i - 1) \cup {all[i]}
    <2> TAKE i \in 1 .. n
    <2>1. i \in 1 .. i /\ (\A j \in 1 .. i - 1 : j \in 1 .. i) /\ \A j \in 1 .. i : j \in 1 .. i - 1 \/ j = i
        BY <1>2
    <2> QED
        BY <2>1
<1>8. Seen(n) = ToSet(all)
    BY <1>2 DEF ToSet
<1> HIDE DEF Seen
<1>9. ASSUME Lacking # {} PROVE FALSE
    <2>1. PICK i \in Lacking : \A j \in Lacking : i <= j
        <3>1. Lacking \in SUBSET Nat
            BY <1>2
        <3> HIDE DEF Lacking
        <3> QED
            BY <1>9, <3>1, LeastNumber
    <2>2. i \in 0 .. n /\ ~SelectionTells(chosen[i], Seen(i))
        BY <2>1
    <2>3. CASE i = 0
        BY <1>4, <1>5, <1>6, <2>2, <2>3
    <2>4. CASE i # 0
        <3>1. i - 1 \in 0 .. n /\ i \in 1 .. n /\ ~(i <= i - 1)
            BY <1>2, <2>2, <2>4
        <3>2. SelectionTells(chosen[i - 1], Seen(i - 1))
            BY <2>1, <3>1
        <3>3. SelectionTells(Add(chosen[i - 1], all[i]), Seen(i - 1) \cup {all[i]})
            BY <3>2, AddTells
        <3> QED
            BY <1>4, <1>7, <2>2, <2>4, <3>1, <3>3
    <2> QED
        BY <2>3, <2>4
<1>10. SelectionTells(chosen[n], Seen(n))
    BY <1>2, <1>9
<1> QED
    BY <1>1, <1>8, <1>10 DEF all

\* The datasets with a case of a question, and what a selection measures and names by them.
InsideOf(datasets, key) ==
    {d \in DOMAIN datasets : \E i \in DOMAIN datasets[d] : QuestionKey(datasets[d][i]) = key}
Measure(c, inside) == [key |-> QuestionKey(c), intent |-> c.intent, flag |-> c.flag, inside |-> inside]
MeasuredOf(datasets, order) ==
    {Measure(c, {order[d] : d \in InsideOf(datasets, QuestionKey(c))}) : c \in Definitions(datasets)}
NamesOf(datasets) == {<<c.id, QuestionKey(c)>> : c \in Definitions(datasets)}

LEMMA SeenTells ==
    ASSUME NEW datasets, IsArray(datasets), \A d \in DOMAIN datasets : IsArray(datasets[d])
    PROVE  LET taken == ToSet(AllCases(datasets)) IN
           /\ DefsOf(taken) = Definitions(datasets)
           /\ \A key : {x.inside : x \in {y \in taken : QuestionKey(y.def) = key}} = InsideOf(datasets, key)
<1> DEFINE taken == ToSet(AllCases(datasets))
           Placed(d, i) == [inside |-> d, def |-> datasets[d][i]]
<1>1. \A x : x \in taken <=> \E d \in DOMAIN datasets : \E i \in DOMAIN datasets[d] : x = Placed(d, i)
    BY AllCasesPlaces
<1>2. \A d, i : Placed(d, i).inside = d /\ Placed(d, i).def = datasets[d][i]
    OBVIOUS
<1> HIDE DEF taken, Placed
<1>3. DefsOf(taken) = Definitions(datasets)
    <2>1. ASSUME NEW c \in DefsOf(taken) PROVE c \in Definitions(datasets)
        BY <1>1, <1>2, <2>1, DefinitionPlaces DEF DefsOf
    <2>2. ASSUME NEW c \in Definitions(datasets) PROVE c \in DefsOf(taken)
        <3>1. PICK d \in DOMAIN datasets : \E i \in DOMAIN datasets[d] : c = datasets[d][i]
            BY <2>2, DefinitionPlaces
        <3>2. PICK i \in DOMAIN datasets[d] : c = datasets[d][i]
            BY <3>1
        <3>3. Placed(d, i) \in taken /\ Placed(d, i).def = c
            BY <1>1, <1>2, <3>2
        <3> QED
            BY <3>3 DEF DefsOf
    <2> QED
        BY <2>1, <2>2
<1>4. ASSUME NEW key
      PROVE  {x.inside : x \in {y \in taken : QuestionKey(y.def) = key}} = InsideOf(datasets, key)
    <2> DEFINE left == {x.inside : x \in {y \in taken : QuestionKey(y.def) = key}}
    <2>1. ASSUME NEW d \in left PROVE d \in InsideOf(datasets, key)
        <3>1. PICK x \in taken : QuestionKey(x.def) = key /\ d = x.inside
            OBVIOUS
        <3>2. PICK e \in DOMAIN datasets : \E i \in DOMAIN datasets[e] : x = Placed(e, i)
            BY <1>1
        <3>3. PICK i \in DOMAIN datasets[e] : x = Placed(e, i)
            BY <3>2
        <3>4. d = e /\ QuestionKey(datasets[e][i]) = key
            BY <1>2, <3>1, <3>3
        <3> QED
            BY <3>4 DEF InsideOf
    <2>2. ASSUME NEW d \in InsideOf(datasets, key) PROVE d \in left
        <3>1. PICK i \in DOMAIN datasets[d] : QuestionKey(datasets[d][i]) = key
            BY DEF InsideOf
        <3>2. d \in DOMAIN datasets
            BY DEF InsideOf
        <3>3. Placed(d, i) \in taken /\ Placed(d, i).inside = d /\ QuestionKey(Placed(d, i).def) = key
            BY <1>1, <1>2, <3>1, <3>2
        <3> QED
            BY <3>3
    <2> QED
        BY <2>1, <2>2
<1> QED
    BY <1>3, <1>4 DEF taken

\* What a selection measures and names depends on the datasets as sets of cases alone.
LEMMA SelectionMeasures ==
    ASSUME NEW datasets, IsArray(datasets), \A d \in DOMAIN datasets : IsArray(datasets[d]), NEW order
    PROVE  LET chosen == Dedupe(datasets) IN
           /\ chosen.conflict \in BOOLEAN
           /\ chosen.conflict <=> ~DefsAgree(Definitions(datasets))
           /\ ~chosen.conflict =>
                 /\ {Measure(e.def, {order[d] : d \in e.inside}) : e \in ToSet(chosen.kept)} = MeasuredOf(datasets, order)
                 /\ {<<id, QuestionKey(chosen.kept[chosen.names[id].entry].def)>> : id \in DOMAIN chosen.names} = NamesOf(datasets)
<1> DEFINE chosen == Dedupe(datasets)
           taken == ToSet(AllCases(datasets))
           defs == Definitions(datasets)
           measured == {Measure(e.def, {order[d] : d \in e.inside}) : e \in ToSet(chosen.kept)}
           Named(id) == <<id, QuestionKey(chosen.kept[chosen.names[id].entry].def)>>
           names == {Named(id) : id \in DOMAIN chosen.names}
           In(key) == {order[d] : d \in InsideOf(datasets, key)}
<1>1. SelectionTells(chosen, taken)
    BY AllCasesPlaces, DedupeTells
<1>2. /\ DefsOf(taken) = defs
      /\ \A key : {x.inside : x \in {y \in taken : QuestionKey(y.def) = key}} = InsideOf(datasets, key)
    BY SeenTells
<1>3. /\ chosen.conflict \in BOOLEAN
      /\ chosen.conflict <=> ~DefsAgree(defs)
      /\ ~chosen.conflict => KeptTells(chosen, taken) /\ NamesTell(chosen, taken)
    BY <1>1, <1>2 DEF SelectionTells
<1> HIDE DEF chosen, taken, defs
<1>4. ASSUME ~chosen.conflict PROVE measured = MeasuredOf(datasets, order)
    <2>1. DefsAgree(defs) /\ KeptTells(chosen, taken)
        BY <1>3, <1>4
    <2>2. ASSUME NEW e \in DOMAIN chosen.kept
          PROVE  /\ chosen.kept[e].def \in defs
                 /\ chosen.kept[e].inside = InsideOf(datasets, QuestionKey(chosen.kept[e].def))
        <3>1. chosen.kept \in EntryLists(DefsOf(taken), PlacesOf(taken))
            BY <2>1 DEF KeptTells
        <3>2. chosen.kept[e].def \in defs
            BY <1>2, <3>1, EntryTypes
        <3>3. chosen.kept[e].inside = {x.inside : x \in {y \in taken : QuestionKey(y.def) = QuestionKey(chosen.kept[e].def)}}
            BY <2>1 DEF KeptTells
        <3> QED
            BY <1>2, <3>2, <3>3
    <2>3. ASSUME NEW m \in measured PROVE m \in MeasuredOf(datasets, order)
        <3>1. PICK e \in DOMAIN chosen.kept : m = Measure(chosen.kept[e].def, {order[d] : d \in chosen.kept[e].inside})
            BY DEF ToSet
        <3> DEFINE c == chosen.kept[e].def
        <3>2. c \in defs /\ m = Measure(c, {order[d] : d \in InsideOf(datasets, QuestionKey(c))})
            BY <2>2, <3>1
        <3> QED
            BY <3>2 DEF MeasuredOf, defs
    <2>4. ASSUME NEW m \in MeasuredOf(datasets, order) PROVE m \in measured
        <3>1. PICK c \in defs : m = Measure(c, In(QuestionKey(c)))
            BY DEF MeasuredOf, defs
        <3>2. PICK e \in DOMAIN chosen.kept : QuestionKey(chosen.kept[e].def) = QuestionKey(c)
            BY <1>2, <2>1 DEF KeptTells
        <3> DEFINE k == chosen.kept[e]
        <3>3. k.def \in defs /\ k.inside = InsideOf(datasets, QuestionKey(c)) /\ QuestionKey(k.def) = QuestionKey(c)
            BY <2>2, <3>2
        <3>4. k.def.intent = c.intent /\ k.def.flag = c.flag
            BY <2>1, <3>3 DEF DefsAgree
        <3>5. m = Measure(k.def, {order[d] : d \in k.inside})
            BY <3>1, <3>3, <3>4 DEF Measure
        <3>6. k \in ToSet(chosen.kept)
            BY DEF ToSet
        <3> HIDE DEF k
        <3> QED
            BY <3>5, <3>6
    <2> QED
        BY <2>3, <2>4
<1>5. ASSUME ~chosen.conflict PROVE names = NamesOf(datasets)
    <2>1. NamesTell(chosen, taken)
        BY <1>3, <1>5
    <2>2. ASSUME NEW id \in DOMAIN chosen.names
          PROVE  \E c \in defs : c.id = id /\ Named(id) = <<c.id, QuestionKey(c)>>
        <3>1. /\ chosen.names[id].def \in defs /\ chosen.names[id].def.id = id
              /\ QuestionKey(chosen.kept[chosen.names[id].entry].def) = QuestionKey(chosen.names[id].def)
            BY <1>2, <2>1 DEF NamesTell
        <3> QED
            BY <3>1
    <2>3. ASSUME NEW c \in defs PROVE c.id \in DOMAIN chosen.names /\ Named(c.id) = <<c.id, QuestionKey(c)>>
        <3>1. c.id \in DOMAIN chosen.names
            BY <1>2, <2>1 DEF NamesTell
        <3>2. PICK d \in defs : d.id = c.id /\ Named(c.id) = <<d.id, QuestionKey(d)>>
            BY <2>2, <3>1
        <3>3. d = c
            BY <1>3, <1>5, <3>2 DEF DefsAgree
        <3> QED
            BY <3>1, <3>2, <3>3
    <2> HIDE DEF Named
    <2>4. ASSUME NEW x \in names PROVE x \in NamesOf(datasets)
        BY <2>2 DEF NamesOf, defs
    <2>5. ASSUME NEW x \in NamesOf(datasets) PROVE x \in names
        <3>1. PICK c \in defs : x = <<c.id, QuestionKey(c)>>
            BY DEF NamesOf, defs
        <3> QED
            BY <2>3, <3>1
    <2> QED
        BY <2>4, <2>5
<1> QED
    BY <1>3, <1>4, <1>5 DEF chosen, defs

\* In another order the datasets are the same sets of cases.
LEMMA OtherOrder ==
    ASSUME NEW datasets, IsArray(datasets), \A d \in DOMAIN datasets : IsArray(datasets[d]),
           NEW p \in [DOMAIN datasets -> DOMAIN datasets], IsInjective(p)
    PROVE  LET other == [d \in DOMAIN datasets |-> datasets[p[d]]]
               same == [d \in DOMAIN p |-> d]
           IN  /\ IsArray(other) /\ \A d \in DOMAIN other : IsArray(other[d])
               /\ Definitions(other) = Definitions(datasets)
               /\ MeasuredOf(other, p) = MeasuredOf(datasets, same)
<1> DEFINE other == [d \in DOMAIN datasets |-> datasets[p[d]]]
           same == [d \in DOMAIN p |-> d]
           S == DOMAIN datasets
<1>1. Len(datasets) \in Nat /\ S = 1 .. Len(datasets)
    BY DEF IsArray
<1>2. IsFiniteSet(S)
    BY <1>1, FS_Interval
<1>3. \A d \in S : \E e \in S : p[e] = d
    <2>1. p \in Injection(S, S)
        BY DEF Injection
    <2>2. p \in Surjection(S, S)
        BY <1>2, <2>1, FS_Injection
    <2> QED
        BY <2>2 DEF Surjection
<1>4. DOMAIN other = S /\ \A d \in S : p[d] \in S /\ other[d] = datasets[p[d]]
    OBVIOUS
<1>5. IsArray(other)
    <2>1. \A d \in S : other[d] \in ToSet(other)
        BY <1>4 DEF ToSet
    <2>2. other = [d \in S |-> other[d]]
        OBVIOUS
    <2> HIDE DEF other, S
    <2> QED
        BY <1>1, <2>1, <2>2 DEF IsArray
<1> HIDE DEF other, S
<1>6. \A c : c \in Definitions(other) <=> c \in Definitions(datasets)
    <2> TAKE c
    <2>1. ASSUME c \in Definitions(other) PROVE c \in Definitions(datasets)
        <3>1. PICK d \in S : \E i \in DOMAIN other[d] : c = other[d][i]
            BY <1>4, <2>1, DefinitionPlaces
        <3> QED
            BY <1>4, <3>1, DefinitionPlaces DEF S
    <2>2. ASSUME c \in Definitions(datasets) PROVE c \in Definitions(other)
        <3>1. PICK d \in S : \E i \in DOMAIN datasets[d] : c = datasets[d][i]
            BY <2>2, DefinitionPlaces DEF S
        <3>2. PICK e \in S : p[e] = d
            BY <1>3
        <3> QED
            BY <1>4, <3>1, <3>2, DefinitionPlaces
    <2> QED
        BY <2>1, <2>2
<1>7. Definitions(other) = Definitions(datasets)
    BY <1>6
<1>8. ASSUME NEW key
      PROVE  {p[d] : d \in InsideOf(other, key)} = {same[d] : d \in InsideOf(datasets, key)}
    <2>1. \A d \in S : same[d] = d
        BY DEF S
    <2>2. \A d : d \in InsideOf(other, key) <=> d \in S /\ p[d] \in InsideOf(datasets, key)
        BY <1>4 DEF InsideOf, S
    <2>3. InsideOf(datasets, key) \subseteq S
        BY DEF InsideOf, S
    <2> HIDE DEF same
    <2> QED
        BY <1>3, <2>1, <2>2, <2>3
<1>9. MeasuredOf(other, p) = MeasuredOf(datasets, same)
    <2> HIDE DEF same
    <2> QED
        BY <1>7, <1>8 DEF MeasuredOf
<1>10. \A d \in DOMAIN other : IsArray(other[d])
    BY <1>4 DEF S
<1> QED
    BY <1>5, <1>7, <1>9, <1>10 DEF other

\* What eval has selected, whatever the order.
LEMMA OrderFree ==
    ASSUME IsJob(job), exit # "loading" => selection = IF job.program = "eval" THEN Dedupe(job.datasets) ELSE Nothing
    PROVE  SelectionIsOrderFree
<1> DEFINE datasets == job.datasets
           orders == {p \in [DOMAIN datasets -> DOMAIN datasets] : IsInjective(p)}
           measured(chosen, order) == {Measure(e.def, {order[d] : d \in e.inside}) : e \in ToSet(chosen.kept)}
           names(chosen) == {<<id, QuestionKey(chosen.kept[chosen.names[id].entry].def)>> : id \in DOMAIN chosen.names}
           Permuted(p) == [d \in DOMAIN datasets |-> datasets[p[d]]]
           same(p) == [d \in DOMAIN p |-> d]
<1>1. SUFFICES ASSUME exit # "loading", job.program = "eval", NEW p \in orders
               PROVE  /\ Dedupe(Permuted(p)).conflict = selection.conflict
                      /\ ~Dedupe(Permuted(p)).conflict =>
                            /\ measured(Dedupe(Permuted(p)), p) = measured(selection, same(p))
                            /\ names(Dedupe(Permuted(p))) = names(selection)
                            /\ names(Dedupe(Permuted(p))) = NamesOf(datasets)
    BY DEF SelectionIsOrderFree, Measure, NamesOf, Definitions
<1>2. selection = Dedupe(datasets)
    BY <1>1
<1>3. IsArray(datasets) /\ \A d \in DOMAIN datasets : IsArray(datasets[d])
    BY DEF IsJob
<1>4. /\ IsArray(Permuted(p)) /\ \A d \in DOMAIN Permuted(p) : IsArray(Permuted(p)[d])
      /\ Definitions(Permuted(p)) = Definitions(datasets)
      /\ MeasuredOf(Permuted(p), p) = MeasuredOf(datasets, same(p))
    BY <1>3, OtherOrder
<1> HIDE DEF Other, same, datasets
<1>5. /\ selection.conflict \in BOOLEAN /\ (selection.conflict <=> ~DefsAgree(Definitions(datasets)))
      /\ ~selection.conflict => measured(selection, same(p)) = MeasuredOf(datasets, same(p)) /\ names(selection) = NamesOf(datasets)
    BY <1>2, <1>3, SelectionMeasures
<1>6. /\ Dedupe(Permuted(p)).conflict \in BOOLEAN /\ (Dedupe(Permuted(p)).conflict <=> ~DefsAgree(Definitions(Permuted(p))))
      /\ ~Dedupe(Permuted(p)).conflict => /\ measured(Dedupe(Permuted(p)), p) = MeasuredOf(Permuted(p), p)
                                       /\ names(Dedupe(Permuted(p))) = NamesOf(Permuted(p))
    BY <1>4, SelectionMeasures
<1>7. NamesOf(Permuted(p)) = NamesOf(datasets)
    BY <1>4 DEF NamesOf
<1> HIDE DEF measured, names
<1> QED
    BY <1>4, <1>5, <1>6, <1>7

\* What is found of a case, and of the suite, is a function of the job and the results.
LEMMA FindingStays ==
    ASSUME job' = job
    PROVE  /\ \A c, glitch : VerifyCase(c, glitch)' = VerifyCase(c, glitch)
           /\ \A c : GlitchesOf(c)' = GlitchesOf(c)
           /\ CoverageFails' <=> CoverageFails
<1>1. \A c, glitch : VerifyCase(c, glitch)' = VerifyCase(c, glitch)
    BY DEF VerifyCase
<1>2. \A c : GlitchesOf(c)' = GlitchesOf(c)
    BY DEF GlitchesOf
<1>3. CoverageFails' <=> CoverageFails
    BY DEF CoverageFails, HasNegative
<1> QED
    BY <1>1, <1>2, <1>3

LEMMA FailingStays ==
    ASSUME job' = job, results' = results
    PROVE  (IsChecked' <=> IsChecked) /\ (Fails' <=> Fails)
<1>1. IsChecked' <=> IsChecked
    BY DEF IsChecked
<1>2. \A d : KillRateFails(d)' <=> KillRateFails(d)
    BY DEF KillRateFails, Negatives, Floor
<1>3. \A d : HasControls(d)' <=> HasControls(d)
    BY DEF HasControls
<1>4. \A d : GateFails(d)' <=> GateFails(d)
    BY <1>2, <1>3 DEF GateFails
<1>5. Fails' <=> Fails
    BY <1>4 DEF Fails
<1> QED
    BY <1>1, <1>5

LEMMA ResultStays ==
    ASSUME job' = job, glitches \in Nat, glitches' \in Nat, glitches' >= glitches, NEW r, NEW c, IsResultOf(r, c)
    PROVE  IsResultOf(r, c)'
<1>1. glitches > 0 => glitches' > 0
    OBVIOUS
<1> QED
    BY <1>1, FindingStays DEF IsResultOf

LEMMA ResultsStay ==
    ASSUME job' = job, results' = results, glitches \in Nat, glitches' \in Nat, glitches' >= glitches, ResultsTell
    PROVE  ResultsTell'
<1>1. \A r, c : IsResultOf(r, c) => IsResultOf(r, c)'
    BY ResultStays
<1> QED
    BY <1>1 DEF ResultsTell

LEMMA ResultNames == ASSUME NEW r, NEW c, IsResultOf(r, c) PROVE r.def = c
<1>1. \A glitch : VerifyCase(c, glitch).def = c
    <2> TAKE glitch
    <2>1. CASE IsBehavior(c)
        BY <2>1 DEF VerifyCase
    <2>2. CASE ~IsBehavior(c)
        BY <2>2 DEF VerifyCase
    <2> QED
        BY <2>1, <2>2
<1> QED
    BY <1>1 DEF IsResultOf

LEMMA AppendedList ==
    ASSUME NEW s, IsArray(s), NEW x
    PROVE  /\ IsArray(Append(s, x)) /\ Len(s) \in Nat /\ Len(Append(s, x)) = Len(s) + 1
           /\ DOMAIN Append(s, x) = DOMAIN s \cup {Len(s) + 1} /\ Len(s) + 1 \notin DOMAIN s
           /\ Append(s, x)[Len(s) + 1] = x /\ \A i \in DOMAIN s : Append(s, x)[i] = s[i]
<1> DEFINE S == ToSet(s)
           T == S \cup {x}
           t == Append(s, x)
<1>1. s \in Seq(S) /\ s \in Seq(T)
    <2> HIDE DEF S
    <2>1. s \in Seq(S)
        BY DEF IsArray, S
    <2> QED
        BY <2>1
<1> HIDE DEF S, T
<1>2. /\ Len(s) \in Nat /\ Len(t) = Len(s) + 1 /\ DOMAIN s = 1 .. Len(s) /\ DOMAIN t = 1 .. Len(s) + 1
      /\ t[Len(s) + 1] = x /\ \A i \in DOMAIN s : t[i] = s[i]
    BY <1>1
<1>3. 1 .. Len(s) + 1 = 1 .. Len(s) \cup {Len(s) + 1} /\ Len(s) + 1 \notin 1 .. Len(s)
    BY <1>2
<1> HIDE DEF t
<1>4. IsArray(t)
    <2>1. t = [i \in 1 .. Len(t) |-> t[i]]
        <3>1. t \in Seq(T)
            BY <1>1 DEF t, T
        <3> QED
            BY <3>1
    <2>2. \A i \in 1 .. Len(t) : t[i] \in ToSet(t)
        BY <1>2 DEF ToSet
    <2>3. Len(t) \in Nat
        BY <1>2
    <2> HIDE DEF t
    <2> QED
        BY <2>1, <2>2, <2>3 DEF IsArray
<1> QED
    BY <1>2, <1>3, <1>4 DEF t

\* A case more is checked.
LEMMA VerifyTells ==
    ASSUME SuiteIInv, NEW d \in DOMAIN results, NEW i \in DOMAIN job.datasets[d], NEW glitch, Verify(d, i, glitch),
           glitches' \in Nat, glitches' >= glitches,
           glitch = <<"none", 0>> \/ (glitches' > 0 /\ glitch \in GlitchesOf(job.datasets[d][i]))
    PROVE  SuiteIInv'
<1>1. PICK c : c = job.datasets[d][i]
    OBVIOUS
<1>2. PICK result : result = IF Earlier(c) # {} THEN CHOOSE r \in Earlier(c) : TRUE ELSE VerifyCase(c, glitch)
    OBVIOUS
<1>3. /\ exit = "running" /\ IsNext(d, i)
      /\ results' = [results EXCEPT ![d] = Append(@, result)]
      /\ job' = job /\ selection' = selection /\ exit' = exit
    BY <1>1, <1>2 DEF Verify
<1>4. ResultsTell /\ glitches \in Nat /\ ExitTells
    BY DEF SuiteIInv
<1>5. \A r, x : IsResultOf(r, x) => IsResultOf(r, x)'
    BY <1>3, <1>4, ResultStays
<1>6. IsResultOf(result, c)'
    <2>1. CASE Earlier(c) # {}
        <3>1. result \in Earlier(c)
            BY <1>2, <2>1
        <3>2. result.def = c /\ \E e \in DOMAIN results : result \in ToSet(results[e])
            BY <3>1 DEF Earlier
        <3>3. PICK e \in DOMAIN results : \E k \in DOMAIN results[e] : result = results[e][k]
            BY <3>2 DEF ToSet
        <3>4. PICK k \in DOMAIN results[e] : result = results[e][k]
            BY <3>3
        <3>5. IsResultOf(result, job.datasets[e][k])
            BY <1>4, <3>4 DEF ResultsTell
        <3>6. job.datasets[e][k] = c
            BY <3>2, <3>5, ResultNames
        <3>7. IsResultOf(result, c)
            BY <3>5, <3>6
        <3> QED
            BY <1>5, <3>7
    <2>2. CASE Earlier(c) = {}
        <3>1. result = VerifyCase(c, glitch)
            BY <1>2, <2>2
        <3>2. VerifyCase(c, <<"none", 0>>)' = VerifyCase(c, <<"none", 0>>)
              /\ VerifyCase(c, glitch)' = VerifyCase(c, glitch) /\ GlitchesOf(c)' = GlitchesOf(c)
            BY <1>3, FindingStays
        <3>3. CASE glitch = <<"none", 0>>
            BY <3>1, <3>2, <3>3 DEF IsResultOf
        <3>4. CASE glitches' > 0 /\ glitch \in GlitchesOf(c)
            BY <3>1, <3>2, <3>4 DEF IsResultOf
        <3> QED
            BY <1>1, <3>3, <3>4
    <2> QED
        BY <2>1, <2>2
<1>7. ResultsTell'
    <2>1. /\ DOMAIN results = DOMAIN job.datasets
          /\ \A e \in DOMAIN results : IsArray(results[e]) /\ Len(results[e]) <= Len(job.datasets[e])
          /\ \A e \in DOMAIN results : \A k \in DOMAIN results[e] : IsResultOf(results[e][k], job.datasets[e][k])
        BY <1>4 DEF ResultsTell
    <2>2. DOMAIN results' = DOMAIN results /\ results'[d] = Append(results[d], result)
          /\ \A e \in DOMAIN results : e # d => results'[e] = results[e]
        BY <1>3
    <2>3. Len(results[d]) = i - 1 /\ i <= Len(job.datasets[d])
        BY <1>3 DEF IsNext
    <2>4. i \in Nat \ {0}
        <3>1. IsArray(job.datasets[d])
            BY <2>1, JobTypes DEF SuiteIInv, IsJob
        <3> QED
            BY <3>1 DEF IsArray
    <2>5. /\ IsArray(results'[d]) /\ Len(results'[d]) = i
          /\ DOMAIN results'[d] = DOMAIN results[d] \cup {i} /\ i \notin DOMAIN results[d]
          /\ results'[d][i] = result /\ \A k \in DOMAIN results[d] : results'[d][k] = results[d][k]
        <3>1. Len(results[d]) + 1 = i
            BY <2>3, <2>4
        <3> QED
            BY <2>1, <2>2, <3>1, AppendedList
    <2>6. ASSUME NEW e \in DOMAIN results'
          PROVE  IsArray(results'[e]) /\ Len(results'[e]) <= Len(job.datasets[e])
        BY <2>1, <2>2, <2>3, <2>4, <2>5
    <2>7. ASSUME NEW e \in DOMAIN results', NEW k \in DOMAIN results'[e]
          PROVE  \E r, x : IsResultOf(r, x)' /\ r = results'[e][k] /\ x = job.datasets[e][k]
        <3>1. CASE e = d /\ k = i
            BY <1>1, <1>6, <2>5, <3>1
        <3>2. CASE ~(e = d /\ k = i)
            <4>1. e \in DOMAIN results /\ k \in DOMAIN results[e] /\ results'[e][k] = results[e][k]
                BY <2>2, <2>5, <2>7, <3>2
            <4> QED
                BY <1>5, <2>1, <4>1
        <3> QED
            BY <3>1, <3>2
    <2>8. \A e \in DOMAIN results' : \A k \in DOMAIN results'[e] : IsResultOf(results[e][k], job.datasets[e][k])'
        BY <1>3, <2>7
    <2> QED
        BY <1>3, <2>1, <2>2, <2>6, <2>8 DEF ResultsTell
<1>8. ExitTells'
    BY <1>3, <1>4, FindingStays DEF ExitTells
<1> QED
    BY <1>3, <1>7, <1>8 DEF SuiteIInv

LEMMA SuiteInitially == SuiteInit => SuiteIInv
<1> SUFFICES ASSUME SuiteInit PROVE SuiteIInv
    OBVIOUS
<1>1. IsJob(job)
    BY JobTypes DEF SuiteInit
<1>2. IsArray(<<>>) /\ Len(<<>>) = 0 /\ DOMAIN <<>> = {}
    BY DEF IsArray
<1>3. \A d \in DOMAIN job.datasets : Len(job.datasets[d]) \in Nat
    BY <1>1 DEF IsJob, IsArray
<1>4. ResultsTell
    BY <1>2, <1>3 DEF SuiteInit, ResultsTell
<1>5. ExitTells
    BY DEF SuiteInit, ExitTells
<1> QED
    BY <1>4, <1>5 DEF SuiteInit, SuiteIInv

LEMMA SuiteSteps == SuiteIInv /\ [SuiteNext]_suiteVars => SuiteIInv'
<1> SUFFICES ASSUME SuiteIInv, [SuiteNext]_suiteVars PROVE SuiteIInv'
    OBVIOUS
<1>1. ResultsTell /\ ExitTells /\ glitches \in Nat /\ \E family \in Jobs : job \in family
    BY DEF SuiteIInv
<1>2. CASE Load
    <2>1. /\ exit = "loading" /\ job' = job /\ results' = results /\ glitches' = glitches
          /\ selection' = (IF job.program = "eval" THEN Dedupe(job.datasets) ELSE selection)
          /\ exit' = IF selection'.conflict \/ CoverageFails THEN "refused" ELSE "running"
        BY <1>2 DEF Load
    <2>2. ResultsTell'
        BY <1>1, <2>1, ResultsStay
    <2>3. ExitTells'
        <3>1. selection' = (IF job.program = "eval" THEN Dedupe(job.datasets) ELSE Nothing)
            BY <1>1, <2>1 DEF ExitTells
        <3>2. CoverageFails' <=> CoverageFails
            BY <2>1, FindingStays
        <3> QED
            BY <2>1, <3>1, <3>2 DEF ExitTells
    <2> QED
        BY <1>1, <2>1, <2>2, <2>3 DEF SuiteIInv
<1>3. CASE CheckCase
    <2>1. PICK d \in DOMAIN results : \E i \in DOMAIN job.datasets[d] : Verify(d, i, <<"none", 0>>) /\ glitches' = glitches
        BY <1>3 DEF CheckCase
    <2>2. PICK i \in DOMAIN job.datasets[d] : Verify(d, i, <<"none", 0>>) /\ glitches' = glitches
        BY <2>1
    <2>3. glitches' \in Nat /\ glitches' >= glitches
        BY <1>1, <2>2
    <2> QED
        BY <2>2, <2>3, VerifyTells
<1>4. CASE CheckUnderGlitch
    <2>1. glitches' = glitches + 1
        BY <1>4 DEF CheckUnderGlitch
    <2>2. PICK d \in DOMAIN results :
              \E i \in DOMAIN job.datasets[d] : \E glitch \in GlitchesOf(job.datasets[d][i]) : Verify(d, i, glitch)
        BY <1>4 DEF CheckUnderGlitch
    <2>3. PICK i \in DOMAIN job.datasets[d] : \E glitch \in GlitchesOf(job.datasets[d][i]) : Verify(d, i, glitch)
        BY <2>2
    <2>4. PICK glitch \in GlitchesOf(job.datasets[d][i]) : Verify(d, i, glitch)
        BY <2>3
    <2>5. glitches' \in Nat /\ glitches' >= glitches /\ glitches' > 0
        BY <1>1, <2>1
    <2> QED
        BY <2>4, <2>5, VerifyTells
<1>5. CASE Breaks
    <2>1. /\ exit = "running" /\ exit' = "broken" /\ glitches' = glitches + 1
          /\ job' = job /\ selection' = selection /\ results' = results
        BY <1>5 DEF Breaks
    <2>2. glitches' \in Nat /\ glitches' >= glitches
        BY <1>1, <2>1
    <2>3. ResultsTell'
        BY <1>1, <2>1, <2>2, ResultsStay
    <2>4. ExitTells'
        BY <1>1, <2>1, FindingStays DEF ExitTells
    <2> QED
        BY <1>1, <2>1, <2>2, <2>3, <2>4 DEF SuiteIInv
<1>6. CASE Finish
    <2>1. /\ exit = "running" /\ exit' = (IF Fails THEN "failed" ELSE "passed") /\ IsChecked
          /\ job' = job /\ selection' = selection /\ results' = results /\ glitches' = glitches
        BY <1>6 DEF Finish, Fails, IsChecked
    <2>2. ResultsTell'
        BY <1>1, <2>1, ResultsStay
    <2>3. ExitTells'
        BY <1>1, <2>1, FindingStays, FailingStays DEF ExitTells
    <2> QED
        BY <1>1, <2>1, <2>2, <2>3 DEF SuiteIInv
<1>7. CASE UNCHANGED suiteVars
    <2>1. /\ exit' = exit /\ job' = job /\ selection' = selection /\ results' = results /\ glitches' = glitches
        BY <1>7 DEF suiteVars
    <2>2. ResultsTell'
        BY <1>1, <2>1, ResultsStay
    <2>3. ExitTells'
        BY <1>1, <2>1, FindingStays, FailingStays DEF ExitTells
    <2> QED
        BY <1>1, <2>1, <2>2, <2>3 DEF SuiteIInv
<1> QED
    BY <1>2, <1>3, <1>4, <1>5, <1>6, <1>7 DEF SuiteNext

LEMMA ConflictTold ==
    ASSUME IsJob(job)
    PROVE  Dedupe(job.datasets).conflict <=> ~DefsAgree(Definitions(job.datasets))
BY SelectionMeasures DEF IsJob

LEMMA PassTold == SuiteIInv => PassIsDeserved
<1> SUFFICES ASSUME SuiteIInv PROVE PassIsDeserved
    OBVIOUS
<1>1. IsJob(job) /\ ResultsTell /\ ExitTells /\ glitches \in Nat
    BY JobTypes DEF SuiteIInv
<1>2. exit # "loading" => IF job.program = "eval" THEN selection.conflict <=> ~DefsAgree(Definitions(job.datasets))
                          ELSE selection.conflict = FALSE
    BY <1>1, ConflictTold DEF ExitTells, Nothing
<1>3. ASSUME exit = "passed" PROVE Deserves
    <2>1. IsChecked /\ ~Fails /\ ~CoverageFails /\ ~selection.conflict
        BY <1>1, <1>3 DEF ExitTells
    <2> QED
        BY <1>1, <1>2, <1>3, <2>1, PassedDeserves
<1>4. ASSUME exit = "refused" PROVE ~Deserves
    <2>1. selection.conflict \/ CoverageFails
        BY <1>1, <1>4 DEF ExitTells
    <2> QED
        BY <1>1, <1>2, <1>4, <2>1, Deserving
<1>5. ASSUME exit = "failed", Deserves PROVE glitches > 0
    <2>1. IsChecked /\ Fails
        BY <1>1, <1>5 DEF ExitTells
    <2>2. glitches # 0
        BY <1>1, <1>5, <2>1, FailedOnlyByGlitch
    <2> QED
        BY <1>1, <2>2
<1> QED
    BY <1>3, <1>4, <1>5 DEF PassIsDeserved

THEOREM SuiteInvariance == SuiteSpec => []SuiteIInv
BY SuiteInitially, SuiteSteps, PTL DEF SuiteSpec

THEOREM PassesAreDeserved == SuiteSpec => []PassIsDeserved
BY SuiteInvariance, PassTold, PTL

THEOREM SelectionsAreOrderFree == SuiteSpec => []SelectionIsOrderFree
<1>1. SuiteIInv => SelectionIsOrderFree
    BY JobTypes, OrderFree DEF SuiteIInv, ExitTells
<1> QED
    BY <1>1, SuiteInvariance, PTL
=============================================================================
