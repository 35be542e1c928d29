---------------------------- MODULE FifoHeapProofs ----------------------------
(***************************************************************************)
(* The heap of the FIFO scheduler is in order, every step in it knows its  *)
(* position, no operation loses or duplicates a step, and the walk over    *)
(* the runnable steps is complete, for any number of steps and any         *)
(* dependency counts.                                                      *)
(*                                                                         *)
(* HeapOrdered speaks of the heap between operations only; what keeps it   *)
(* is that during an operation all is in order but for the gap, that what  *)
(* is above the gap does not go after what is below it (so the gap may     *)
(* be filled from either side), and how the step in hand compares to the   *)
(* side it does not move to.                                               *)
(***************************************************************************)
EXTENDS FifoHeap, FiniteSetTheorems, WellFoundedInduction, TLAPS

\* Position i holds a step (the gap does not, while it is being filled).
Filled(i) == i \in Slots /\ (pc = "idle" \/ i # gap)

\* Position i and its parent are in order.
InOrder(i) == count[pending[Parent(i)]] <= count[pending[i]]

Ordered == \A i \in Slots \ {0} : Filled(i) /\ Filled(Parent(i)) => InOrder(i)

\* Across the gap, from its parent to its children
Across ==
    pc # "idle" /\ gap # 0 =>
        \A i \in Slots \ {0} : Parent(i) = gap => count[pending[Parent(gap)]] <= count[pending[i]]

\* In ResolveDep the step in hand may stay above what is below the gap.
AboveChildren ==
    pc = "up" => \A i \in Slots \ {0} : Parent(i) = gap => count[cur] <= count[pending[i]]

\* In RemovePendingStep it may stay below what is above.
BelowParent ==
    pc = "sink" /\ gap # 0 => count[pending[Parent(gap)]] <= count[cur]

\* The step in hand is nowhere else, and the last position is not the one removed.
InHand ==
    /\ pc \in {"up", "sink"} => \A i \in Slots : i # gap => pending[i] # cur
    /\ pc = "lift" => gap < size - 1

HInv ==
    /\ HeapTypeOK
    /\ Located
    /\ Ordered
    /\ Across
    /\ AboveChildren
    /\ BelowParent
    /\ InHand

-----------------------------------------------------------------------------
\* The arithmetic of positions: a parent comes before its child, and a position has
\* two children.
LEMMA ParentFacts ==
    ASSUME NEW i \in Nat, i # 0
    PROVE  /\ Parent(i) \in Nat
           /\ Parent(i) < i
           /\ i = 2 * Parent(i) + 1 \/ i = 2 * Parent(i) + 2
  BY DEF Parent

\* The converse, for the loop that goes down.
LEMMA ChildFacts ==
    ASSUME NEW i \in Nat
    PROVE  /\ Left(i) \in Nat /\ Right(i) \in Nat
           /\ Left(i) > i /\ Right(i) = Left(i) + 1
           /\ Parent(Left(i)) = i /\ Parent(Right(i)) = i
           /\ \A j \in Nat \ {0} : Parent(j) = i => j = Left(i) \/ j = Right(i)
  BY DEF Parent, Left, Right

\* Positions are natural numbers, so that the lemmas above apply to them.
LEMMA SlotFacts ==
    ASSUME HeapTypeOK
    PROVE  /\ \A i \in Slots : i \in Nat /\ i < size
           /\ \A i \in Nat : i < size => i \in Slots
           /\ \A i \in Slots \ {0} : Parent(i) \in Slots /\ Parent(i) < i
  <1>1. \A i \in Slots : i \in Nat /\ i < size
    BY DEF Slots, HeapTypeOK
  <1>2. \A i \in Nat : i < size => i \in Slots
    BY DEF Slots, HeapTypeOK
  <1>3. ASSUME NEW i \in Slots \ {0}
        PROVE  Parent(i) \in Slots /\ Parent(i) < i
    <2>1. i \in Nat /\ i # 0 /\ i < size
      BY <1>1
    <2>2. Parent(i) \in Nat /\ Parent(i) < i
      BY <2>1, ParentFacts
    <2>3. QED
      BY <1>2, <2>1, <2>2 DEF HeapTypeOK
  <1>4. QED
    BY <1>1, <1>2, <1>3

LEMMA HInitInv == HeapInit => HInv
  <1> SUFFICES ASSUME HeapInit PROVE HInv
    OBVIOUS
  <1>1. HeapTypeOK
    BY DEF HeapInit, HeapTypeOK
  <1>2. Located
    BY DEF HeapInit, Located
  <1>3. Ordered
    <2> SUFFICES ASSUME NEW i \in Slots \ {0} PROVE InOrder(i)
      BY DEF Ordered
    <2>1. Parent(i) \in Slots
      BY <1>1, SlotFacts
    <2>2. ~Less(pending[Parent(i)], pending[i])
      BY DEF HeapInit
    <2>3. count[pending[Parent(i)]] \in Nat /\ count[pending[i]] \in Nat
      BY <1>1, <2>1 DEF HeapTypeOK
    <2>4. QED
      BY <2>2, <2>3 DEF InOrder, Less
  <1>4. Across /\ AboveChildren /\ BelowParent /\ InHand
    BY DEF HeapInit, Across, AboveChildren, BelowParent, InHand
  <1>5. QED
    BY <1>1, <1>2, <1>3, <1>4 DEF HInv

\* An operation on s starts at the position that s remembers.
LEMMA FoundWhereItIs ==
    ASSUME HInv, pc = "idle", NEW s \in Steps, Contains(s)
    PROVE  loc[s] \in Slots /\ pending[loc[s]] = s
  BY DEF HInv, Located, Contains

LEMMA ResolveDepInv ==
    ASSUME HInv, NEW s \in Steps, ResolveDep(s)
    PROVE  HInv'
  <1> USE DEF ResolveDep
  <1>0. HeapTypeOK /\ HeapTypeOK' /\ Slots' = Slots
    BY FoundWhereItIs DEF HInv, HeapTypeOK, Slots
  <1>1. loc[s] \in Slots /\ pending[loc[s]] = s /\ gap' = loc[s]
    BY FoundWhereItIs
  <1>2. \A t \in Steps : /\ count[t] \in Nat /\ count'[t] \in Nat
                         /\ count'[t] <= count[t]
                         /\ t # s => count'[t] = count[t]
    BY <1>0 DEF HeapTypeOK
  <1>3. \A i \in Slots : pending[i] \in Steps /\ (i # gap' => pending[i] # s)
    BY <1>0, <1>1 DEF HInv, HeapTypeOK, Located
  <1>4. \A i \in Slots \ {0} : InOrder(i) /\ Parent(i) \in Slots /\ Parent(i) < i
    BY <1>0, SlotFacts DEF HInv, Ordered, Filled
  <1>5. Located'
    BY <1>0 DEF HInv, Located
  <1>6. Ordered'
    BY <1>0, <1>2, <1>3, <1>4 DEF Ordered, Filled, InOrder
  <1>7. Across'
    <2> SUFFICES ASSUME NEW i \in Slots \ {0}, Parent(i) = gap', gap' # 0
                 PROVE  count'[pending[Parent(gap')]] <= count'[pending[i]]
      BY <1>0 DEF Across
    <2>1. InOrder(i) /\ InOrder(gap') /\ i # gap' /\ Parent(gap') # gap' /\ Parent(gap') \in Slots
      BY <1>0, <1>1, <1>4, SlotFacts
    <2>2. count[pending[Parent(gap')]] <= count[pending[i]]
      BY <1>1, <1>2, <1>3, <2>1 DEF InOrder
    <2>3. QED
      BY <1>1, <1>2, <1>3, <2>1, <2>2
  <1>8. AboveChildren'
    <2> SUFFICES ASSUME NEW i \in Slots \ {0}, Parent(i) = gap'
                 PROVE  count'[s] <= count'[pending[i]]
      BY <1>0 DEF AboveChildren
    <2>1. InOrder(i) /\ i # gap'
      BY <1>0, <1>1, <1>4, SlotFacts
    <2>2. QED
      BY <1>1, <1>2, <1>3, <2>1 DEF InOrder
  <1>9. BelowParent' /\ InHand'
    BY <1>0, <1>3 DEF BelowParent, InHand
  <1>10. QED
    BY <1>0, <1>5, <1>6, <1>7, <1>8, <1>9 DEF HInv

\* The turn that ResolveDep and RemovePendingStep share: the parent moves down into the
\* gap, and the gap up.
LEMMA ParentMovesDown ==
    ASSUME HInv, pc # "idle", gap # 0,
           pending' = [pending EXCEPT ![gap] = pending[Parent(gap)]],
           loc' = [loc EXCEPT ![pending[Parent(gap)]] = gap],
           gap' = Parent(gap),
           UNCHANGED <<size, count, pc, cur>>
    PROVE  HeapTypeOK' /\ Located' /\ Ordered' /\ Across' /\ gap' < gap
  <1>0. HeapTypeOK /\ Located /\ Ordered /\ Across /\ Slots' = Slots
    BY DEF HInv, Slots
  <1>1. gap \in Slots /\ gap' \in Slots /\ gap' < gap /\ gap \in Nat /\ gap' \in Nat
    BY <1>0, SlotFacts DEF HeapTypeOK
  <1>2. \A i \in Slots \ {0} : Parent(i) \in Slots /\ Parent(i) # i
    BY <1>0, SlotFacts
  <1>3. /\ \A i \in Slots : pending[i] \in Steps
        /\ \A t \in Steps : count[t] \in Nat
    BY <1>0 DEF HeapTypeOK
  <1>4. /\ pending'[gap] = pending[gap']
        /\ \A i \in Slots : i # gap => pending'[i] = pending[i]
    BY <1>0, <1>1 DEF HeapTypeOK
  <1>5. HeapTypeOK'
    BY <1>0, <1>1, <1>3 DEF HeapTypeOK
  <1>6. Located'
    <2> SUFFICES ASSUME NEW i \in Slots, i # gap' PROVE loc'[pending'[i]] = i
      BY <1>0 DEF Located
    <2>1. loc[pending[gap']] = gap' /\ loc' = [loc EXCEPT ![pending[gap']] = gap]
      BY <1>0, <1>1 DEF Located
    <2>2. CASE i = gap
      BY <1>0, <1>1, <1>3, <1>4, <2>1, <2>2 DEF HeapTypeOK
    <2>3. CASE i # gap
      <3>1. loc[pending[i]] = i /\ pending[i] # pending[gap']
        BY <1>0, <2>1, <2>3 DEF Located
      <3>2. QED
        BY <1>0, <1>3, <1>4, <2>1, <2>3, <3>1 DEF HeapTypeOK
    <2>4. QED
      BY <2>2, <2>3
  <1>7. Ordered'
    <2> SUFFICES ASSUME NEW i \in Slots \ {0}, i # gap', Parent(i) # gap'
                 PROVE  count[pending'[Parent(i)]] <= count[pending'[i]]
      BY <1>0 DEF Ordered, Filled, InOrder
    <2>1. i # gap
      OBVIOUS
    <2>2. CASE Parent(i) = gap
      BY <1>0, <1>4, <2>1, <2>2 DEF Across
    <2>3. CASE Parent(i) # gap
      BY <1>0, <1>2, <1>4, <2>1, <2>3 DEF Ordered, Filled, InOrder
    <2>4. QED
      BY <2>2, <2>3
  <1>8. Across'
    <2> SUFFICES ASSUME NEW i \in Slots \ {0}, Parent(i) = gap', gap' # 0
                 PROVE  count[pending'[Parent(gap')]] <= count[pending'[i]]
      BY <1>0 DEF Across
    <2>1. Parent(gap') \in Slots /\ Parent(gap') # gap' /\ Parent(gap') < gap'
      BY <1>0, <1>1, SlotFacts
    <2>2. Parent(gap') \in Nat /\ Parent(gap') # gap
      BY <1>1, <2>1 DEF Slots
    <2>3. count[pending[Parent(gap')]] <= count[pending[gap']]
      BY <1>0, <1>1, <2>1, <2>2 DEF Ordered, Filled, InOrder
    <2>4. CASE i = gap
      BY <1>4, <2>1, <2>2, <2>3, <2>4
    <2>5. CASE i # gap
      <3>1. count[pending[gap']] <= count[pending[i]]
        BY <1>0, <1>1, <2>5 DEF Ordered, Filled, InOrder
      <3>2. QED
        BY <1>1, <1>3, <1>4, <2>1, <2>2, <2>3, <2>5, <3>1
    <2>6. QED
      BY <2>4, <2>5
  <1>9. QED
    BY <1>1, <1>5, <1>6, <1>7, <1>8

LEMMA BubbleUpInv ==
    ASSUME HInv, BubbleUp
    PROVE  HInv'
  <1>0. HeapTypeOK /\ Slots' = Slots /\ gap # 0
    BY DEF HInv, BubbleUp, StaysBelow, Slots
  <1>1. HeapTypeOK' /\ Located' /\ Ordered' /\ Across' /\ gap' < gap
    BY <1>0, ParentMovesDown DEF BubbleUp
  <1>2. gap \in Slots /\ gap' = Parent(gap) /\ gap' \in Slots /\ cur \in Steps
    BY <1>0, SlotFacts DEF HeapTypeOK, BubbleUp
  <1>3. /\ pending'[gap] = pending[gap']
        /\ \A i \in Slots : i # gap => pending'[i] = pending[i]
    BY <1>0, <1>2 DEF HeapTypeOK, BubbleUp
  <1>4. count[cur] <= count[pending[gap']]
    BY <1>0, <1>2 DEF HeapTypeOK, BubbleUp, StaysBelow, Less
  <1>5. AboveChildren'
    <2> SUFFICES ASSUME NEW i \in Slots \ {0}, Parent(i) = gap'
                 PROVE  count[cur] <= count[pending'[i]]
      BY <1>0 DEF AboveChildren, BubbleUp
    <2>1. CASE i = gap
      BY <1>3, <1>4, <2>1
    <2>2. CASE i # gap
      <3>1. gap' # gap
        BY <1>0, <1>1, <1>2, SlotFacts
      <3>2. count[pending[gap']] <= count[pending[i]]
        BY <1>2, <2>2, <3>1 DEF HInv, Ordered, Filled, InOrder
      <3>3. QED
        BY <1>0, <1>2, <1>3, <1>4, <2>2, <3>2 DEF HeapTypeOK
    <2>3. QED
      BY <2>1, <2>2
  <1>6. InHand'
    <2> SUFFICES ASSUME NEW i \in Slots, i # gap' PROVE pending'[i] # cur
      BY <1>0 DEF InHand, BubbleUp
    <2>1. gap' # gap
      BY <1>0, <1>1, <1>2, SlotFacts
    <2>2. QED
      BY <1>2, <1>3, <2>1 DEF HInv, InHand, BubbleUp
  <1>7. BelowParent'
    BY DEF BelowParent, BubbleUp
  <1>8. QED
    BY <1>1, <1>5, <1>6, <1>7 DEF HInv

LEMMA LiftInv ==
    ASSUME HInv, Lift
    PROVE  HInv'
  <1>1. HeapTypeOK' /\ Located' /\ Ordered' /\ Across' /\ gap' < gap
    BY ParentMovesDown DEF Lift
  <1>2. AboveChildren' /\ BelowParent'
    BY DEF AboveChildren, BelowParent, Lift
  <1>3. InHand'
    <2>1. size \in Nat /\ gap \in Nat /\ gap' \in Nat
      BY <1>1, SlotFacts DEF HInv, HeapTypeOK, Lift
    <2>2. QED
      BY <1>1, <2>1 DEF HInv, InHand, Lift
  <1>4. QED
    BY <1>1, <1>2, <1>3 DEF HInv

\* The step in hand fits at the gap.
LEMMA PlaceInv ==
    ASSUME HInv, Place, pc \in {"up", "sink"},
           gap # 0 => count[pending[Parent(gap)]] <= count[cur],
           \A i \in Slots \ {0} : Parent(i) = gap => count[cur] <= count[pending[i]]
    PROVE  HInv'
  <1>0. HeapTypeOK /\ Located /\ Ordered /\ InHand /\ Slots' = Slots
    BY DEF HInv, Place, Slots
  <1>1. gap \in Slots /\ cur \in Steps /\ pc' = "idle"
    BY <1>0 DEF HeapTypeOK, Place
  <1>2. /\ pending'[gap] = cur
        /\ \A i \in Slots : i # gap => pending'[i] = pending[i] /\ pending[i] # cur
        /\ count' = count
    BY <1>0, <1>1 DEF HeapTypeOK, InHand, Place
  <1>3. \A i \in Slots \ {0} : Parent(i) \in Slots /\ Parent(i) # i
    BY <1>0, SlotFacts
  <1>4. HeapTypeOK'
    BY <1>0, <1>1, SlotFacts DEF HeapTypeOK, Place
  <1>5. Located'
    BY <1>0, <1>1, <1>2 DEF Located, HeapTypeOK, Place
  <1>6. Ordered'
    <2> SUFFICES ASSUME NEW i \in Slots \ {0}
                 PROVE  count[pending'[Parent(i)]] <= count[pending'[i]]
      BY <1>0, <1>2 DEF Ordered, InOrder
    <2>1. CASE i = gap
      BY <1>2, <1>3, <2>1
    <2>2. CASE Parent(i) = gap
      BY <1>2, <1>3, <2>2
    <2>3. CASE i # gap /\ Parent(i) # gap
      BY <1>0, <1>2, <1>3, <2>3 DEF Ordered, Filled, InOrder
    <2>4. QED
      BY <2>1, <2>2, <2>3
  <1>7. Across' /\ AboveChildren' /\ BelowParent' /\ InHand'
    BY <1>1 DEF Across, AboveChildren, BelowParent, InHand
  <1>8. QED
    BY <1>4, <1>5, <1>6, <1>7 DEF HInv

LEMMA ResolveEndsInv ==
    ASSUME HInv, ResolveEnds
    PROVE  HInv'
  <1>1. gap # 0 => count[pending[Parent(gap)]] <= count[cur]
    <2> SUFFICES ASSUME gap # 0 PROVE count[pending[Parent(gap)]] <= count[cur]
      OBVIOUS
    <2>1. HeapTypeOK /\ gap \in Slots /\ Parent(gap) \in Slots /\ cur \in Steps
      BY SlotFacts DEF HInv, HeapTypeOK, ResolveEnds
    <2>2. count[pending[Parent(gap)]] \in Nat /\ count[cur] \in Nat
      BY <2>1 DEF HeapTypeOK
    <2>3. QED
      BY <2>2 DEF ResolveEnds, StaysBelow, Less
  <1>2. QED
    BY <1>1, PlaceInv DEF HInv, AboveChildren, ResolveEnds

LEMMA RemoveLastInv ==
    ASSUME HInv, NEW s \in Steps, RemoveLast(s)
    PROVE  HInv'
  <1>0. HeapTypeOK /\ Located /\ Ordered /\ size \in Nat /\ pc = "idle"
    BY DEF HInv, HeapTypeOK, RemoveLast
  <1>1. loc[s] \in Slots
    BY <1>0, FoundWhereItIs DEF RemoveLast
  <1>2. size' \in Nat /\ Slots' = 0..(size - 2) /\ Slots' \subseteq Slots
    BY <1>0, <1>1 DEF RemoveLast, Slots
  <1>3. \A i \in Slots' : pending'[i] = pending[i]
    BY <1>2 DEF RemoveLast, Shrunk
  <1>4. HeapTypeOK'
    BY <1>0, <1>2, <1>3 DEF RemoveLast, Shrunk, HeapTypeOK
  <1>5. Located'
    BY <1>0, <1>2, <1>3 DEF Located, RemoveLast
  <1>6. Ordered'
    BY <1>0, <1>2, <1>3 DEF Ordered, Filled, InOrder, RemoveLast
  <1>7. Across' /\ AboveChildren' /\ BelowParent' /\ InHand'
    BY <1>0 DEF Across, AboveChildren, BelowParent, InHand, RemoveLast
  <1>8. QED
    BY <1>4, <1>5, <1>6, <1>7 DEF HInv

LEMMA RemoveBeginsInv ==
    ASSUME HInv, NEW s \in Steps, RemoveBegins(s)
    PROVE  HInv'
  <1> USE DEF RemoveBegins
  <1>0. HeapTypeOK /\ Located /\ Ordered /\ Slots' = Slots
    BY DEF HInv, Slots
  <1>1. gap' \in Slots /\ gap' # size - 1
    BY FoundWhereItIs
  <1>2. HeapTypeOK' /\ Located'
    BY <1>0, <1>1 DEF HeapTypeOK, Located
  <1>3. Ordered'
    BY <1>0 DEF Ordered, Filled, InOrder
  <1>4. Across'
    <2> SUFFICES ASSUME NEW i \in Slots \ {0}, Parent(i) = gap', gap' # 0
                 PROVE  count[pending[Parent(gap')]] <= count[pending[i]]
      BY <1>0 DEF Across
    <2>1. /\ i # gap' /\ Parent(gap') \in Slots
          /\ count[pending[Parent(gap')]] <= count[pending[gap']]
          /\ count[pending[gap']] <= count[pending[i]]
      BY <1>0, <1>1, SlotFacts DEF Ordered, Filled, InOrder
    <2>2. /\ count[pending[Parent(gap')]] \in Nat
          /\ count[pending[gap']] \in Nat
          /\ count[pending[i]] \in Nat
      BY <1>0, <1>1, <2>1 DEF HeapTypeOK
    <2>3. QED
      BY <2>1, <2>2
  <1>5. AboveChildren' /\ BelowParent'
    BY DEF AboveChildren, BelowParent
  <1>6. InHand'
    <2>1. gap' \in 0..(size - 1) /\ size \in Nat /\ size' = size /\ pc' = "lift"
      BY <1>0, <1>1 DEF HeapTypeOK, Slots
    <2>2. gap' < size' - 1
      BY <1>1, <2>1
    <2>3. QED
      BY <2>1, <2>2 DEF InHand
  <1>7. QED
    BY <1>2, <1>3, <1>4, <1>5, <1>6 DEF HInv

LEMMA TakeLastInv ==
    ASSUME HInv, TakeLast
    PROVE  HInv'
  <1> USE DEF TakeLast
  <1>0. /\ HeapTypeOK /\ Located /\ Ordered /\ InHand
        /\ size \in Nat /\ size > 1 /\ size - 1 \in Slots /\ size - 1 # gap
    BY DEF HInv, HeapTypeOK, InHand, Slots
  <1>1. /\ size' \in Nat /\ Slots' = 0..(size - 2) /\ Slots' \subseteq Slots
        /\ size - 1 \notin Slots' /\ 0 \in Slots'
    BY <1>0 DEF Slots
  <1>2. \A i \in Slots' : pending'[i] = pending[i] /\ pending[i] \in Steps
    BY <1>0, <1>1 DEF Shrunk, HeapTypeOK
  <1>3. cur' \in Steps /\ loc[cur'] = size - 1
    BY <1>0 DEF HeapTypeOK, Located
  <1>4. \A i \in Slots' : i # gap => pending[i] # cur' /\ loc[pending[i]] = i
    BY <1>0, <1>1, <1>3 DEF Located
  <1>5. HeapTypeOK'
    BY <1>0, <1>1, <1>2, <1>3 DEF Shrunk, HeapTypeOK
  <1>6. Located'
    BY <1>0, <1>2, <1>3, <1>4 DEF Located, HeapTypeOK
  <1>7. Ordered'
    BY <1>0, <1>1, <1>2 DEF Ordered, Filled, InOrder
  <1>8. InHand'
    BY <1>2, <1>4 DEF InHand
  <1>9. Across' /\ AboveChildren' /\ BelowParent'
    BY DEF Across, AboveChildren, BelowParent
  <1>10. QED
    BY <1>5, <1>6, <1>7, <1>8, <1>9 DEF HInv

\* The child that moves up in RemovePendingStep goes before the step in hand and does
\* not go after its sibling.
LEMMA PreferredFacts ==
    ASSUME HInv, Sink
    PROVE  LET c == Preferred(gap)
           IN /\ c \in Slots /\ c # gap /\ c # 0 /\ Parent(c) = gap
              /\ count[pending[c]] < count[cur]
              /\ \A i \in Slots \ {0} : Parent(i) = gap => count[pending[c]] <= count[pending[i]]
  <1> DEFINE c == Preferred(gap)
  <1>0. HeapTypeOK /\ gap \in Slots /\ gap \in Nat /\ size \in Nat /\ cur \in Steps
    BY SlotFacts DEF HInv, HeapTypeOK, Sink
  <1>1. /\ Left(gap) \in Nat /\ Right(gap) \in Nat
        /\ Left(gap) > gap /\ Right(gap) = Left(gap) + 1
        /\ Parent(Left(gap)) = gap /\ Parent(Right(gap)) = gap
        /\ \A j \in Nat \ {0} : Parent(j) = gap => j = Left(gap) \/ j = Right(gap)
    BY <1>0, ChildFacts
  <1>2. /\ \A t \in Steps : count[t] \in Nat
        /\ \A i \in Slots : pending[i] \in Steps
    BY <1>0 DEF HeapTypeOK
  <1>3. PICK d \in Children(gap) : Less(cur, pending[d])
    BY DEF Sink, Sunk
  <1>4. d \in Slots /\ (d = Left(gap) \/ d = Right(gap)) /\ count[pending[d]] < count[cur]
    BY <1>0, <1>2, <1>3 DEF Children, Less
  <1>5. Left(gap) \in Slots
    BY <1>0, <1>1, <1>4, SlotFacts DEF Slots
  <1>6. CASE Right(gap) \in Slots /\ Less(pending[Left(gap)], pending[Right(gap)])
    <2>1. c = Right(gap) /\ count[pending[Right(gap)]] < count[pending[Left(gap)]]
      BY <1>2, <1>5, <1>6 DEF Preferred, Less
    <2>2. \A i \in Slots \ {0} : Parent(i) = gap => count[pending[c]] <= count[pending[i]]
      BY <1>0, <1>1, <1>2, <1>5, <1>6, <2>1, SlotFacts
    <2>3. count[pending[c]] < count[cur]
      <3>1. /\ count[pending[Left(gap)]] \in Nat /\ count[pending[Right(gap)]] \in Nat
            /\ count[cur] \in Nat
        BY <1>0, <1>2, <1>5, <1>6
      <3>2. CASE d = Left(gap)
        BY <1>4, <2>1, <3>1, <3>2
      <3>3. CASE d = Right(gap)
        BY <1>4, <2>1, <3>3
      <3>4. QED
        BY <1>4, <3>2, <3>3
    <2>4. QED
      BY <1>0, <1>1, <1>6, <2>1, <2>2, <2>3
  <1>7. CASE ~(Right(gap) \in Slots /\ Less(pending[Left(gap)], pending[Right(gap)]))
    <2>1. c = Left(gap)
      BY <1>7 DEF Preferred
    <2>2. Right(gap) \in Slots => count[pending[c]] <= count[pending[Right(gap)]]
      BY <1>2, <1>5, <1>7, <2>1 DEF Less
    <2>3. \A i \in Slots \ {0} : Parent(i) = gap => count[pending[c]] <= count[pending[i]]
      BY <1>0, <1>1, <1>2, <1>5, <2>1, <2>2, SlotFacts
    <2>4. count[pending[c]] < count[cur]
      <3>1. CASE d = Left(gap)
        BY <1>4, <2>1, <3>1
      <3>2. CASE d = Right(gap)
        <4>1. /\ count[pending[c]] \in Nat /\ count[pending[d]] \in Nat /\ count[cur] \in Nat
              /\ count[pending[c]] <= count[pending[d]]
          BY <1>0, <1>2, <1>4, <1>5, <2>1, <2>2, <3>2
        <4>2. QED
          BY <1>4, <4>1
      <3>3. QED
        BY <1>4, <3>1, <3>2
    <2>5. c \in Slots /\ c # gap /\ c # 0 /\ Parent(c) = gap
      BY <1>0, <1>1, <1>5, <2>1
    <2>6. QED
      BY <2>3, <2>4, <2>5
  <1>8. QED
    BY <1>6, <1>7

LEMMA SinkInv ==
    ASSUME HInv, Sink
    PROVE  HInv'
  <1> DEFINE c == Preferred(gap)
  <1>0. /\ HeapTypeOK /\ Located /\ Ordered /\ Across /\ BelowParent /\ InHand
        /\ gap \in Slots /\ cur \in Steps /\ pc = "sink" /\ Slots' = Slots
    BY DEF HInv, HeapTypeOK, Sink, Slots
  <1>1. /\ c \in Slots /\ c # gap /\ c # 0 /\ Parent(c) = gap
        /\ count[pending[c]] < count[cur]
        /\ \A i \in Slots \ {0} : Parent(i) = gap => count[pending[c]] <= count[pending[i]]
    BY PreferredFacts
  <1>2. /\ pending' = [pending EXCEPT ![gap] = pending[c]]
        /\ loc' = [loc EXCEPT ![pending[c]] = gap, ![cur] = c]
        /\ gap' = c /\ size' = size /\ count' = count /\ pc' = pc /\ cur' = cur
    BY DEF Sink
  <1> HIDE DEF c
  <1>3. /\ \A i \in Slots : pending[i] \in Steps
        /\ \A t \in Steps : count[t] \in Nat
        /\ pending[c] # cur /\ loc[pending[c]] = c
    BY <1>0, <1>1 DEF HeapTypeOK, InHand, Located
  <1>4. /\ pending'[gap] = pending[c]
        /\ \A i \in Slots : i # gap => pending'[i] = pending[i] /\ pending[i] # cur
    BY <1>0, <1>2 DEF HeapTypeOK, InHand
  <1>5. \A i \in Slots \ {0} : Parent(i) \in Slots /\ Parent(i) # i
    BY <1>0, SlotFacts
  <1>6. gap \in Nat /\ c \in Nat
    BY <1>0, <1>1, SlotFacts
  <1>7. HeapTypeOK'
    BY <1>0, <1>1, <1>2, <1>3, <1>6 DEF HeapTypeOK
  <1>8. Located'
    <2> SUFFICES ASSUME NEW i \in Slots, i # c PROVE loc'[pending'[i]] = i
      BY <1>0, <1>2 DEF Located
    <2>1. CASE i = gap
      BY <1>0, <1>1, <1>2, <1>3, <1>4, <2>1 DEF HeapTypeOK
    <2>2. CASE i # gap
      <3>1. loc[pending[i]] = i /\ pending[i] # pending[c] /\ pending[i] # cur
        BY <1>0, <1>3, <1>4, <2>2 DEF Located
      <3>2. QED
        BY <1>0, <1>2, <1>3, <1>4, <2>2, <3>1 DEF HeapTypeOK
    <2>3. QED
      BY <2>1, <2>2
  <1>9. Ordered'
    <2> SUFFICES ASSUME NEW i \in Slots \ {0}, i # c, Parent(i) # c
                 PROVE  count[pending'[Parent(i)]] <= count[pending'[i]]
      BY <1>0, <1>2 DEF Ordered, Filled, InOrder
    <2>1. CASE i = gap
      BY <1>0, <1>1, <1>4, <1>5, <2>1 DEF Across
    <2>2. CASE Parent(i) = gap
      BY <1>1, <1>4, <1>5, <2>2
    <2>3. CASE i # gap /\ Parent(i) # gap
      BY <1>0, <1>4, <1>5, <2>3 DEF Ordered, Filled, InOrder
    <2>4. QED
      BY <2>1, <2>2, <2>3
  <1>10. Across'
    <2> SUFFICES ASSUME NEW i \in Slots \ {0}, Parent(i) = c
                 PROVE  count[pending'[Parent(c)]] <= count[pending'[i]]
      BY <1>0, <1>2 DEF Across
    <2>1. i # c /\ i # gap
      <3>1. Parent(i) < i /\ Parent(c) < c /\ i \in Nat
        BY <1>0, <1>1, SlotFacts
      <3>2. QED
        BY <1>1, <1>6, <3>1
    <2>2. count[pending[c]] <= count[pending[i]]
      BY <1>0, <1>1, <2>1 DEF Ordered, Filled, InOrder
    <2>3. QED
      BY <1>1, <1>4, <2>1, <2>2
  <1>11. BelowParent'
    BY <1>1, <1>2, <1>3, <1>4, <1>0 DEF BelowParent, HeapTypeOK
  <1>12. AboveChildren'
    BY <1>0, <1>2 DEF AboveChildren
  <1>13. InHand'
    BY <1>0, <1>1, <1>2, <1>3, <1>4 DEF InHand
  <1>14. QED
    BY <1>7, <1>8, <1>9, <1>10, <1>11, <1>12, <1>13 DEF HInv

LEMMA RemoveEndsInv ==
    ASSUME HInv, RemoveEnds
    PROVE  HInv'
  <1>0. HeapTypeOK /\ gap \in Slots /\ gap \in Nat /\ cur \in Steps
    BY SlotFacts DEF HInv, HeapTypeOK, RemoveEnds
  <1>1. ASSUME NEW i \in Slots \ {0}, Parent(i) = gap
        PROVE  count[cur] <= count[pending[i]]
    <2>1. i \in Children(gap)
      BY <1>0, <1>1, ChildFacts, SlotFacts DEF Children
    <2>2. count[cur] \in Nat /\ count[pending[i]] \in Nat
      BY <1>0 DEF HeapTypeOK
    <2>3. QED
      BY <2>1, <2>2 DEF RemoveEnds, Sunk, Less
  <1>2. QED
    BY <1>1, PlaceInv DEF HInv, BelowParent, RemoveEnds

LEMMA HeapStepInv == HInv /\ [HeapNext]_heapVars => HInv'
  <1> SUFFICES ASSUME HInv, [HeapNext]_heapVars PROVE HInv'
    OBVIOUS
  <1>1. ASSUME NEW s \in Steps, ResolveDep(s) PROVE HInv'
    BY <1>1, ResolveDepInv
  <1>2. ASSUME NEW s \in Steps, RemoveLast(s) PROVE HInv'
    BY <1>2, RemoveLastInv
  <1>3. ASSUME NEW s \in Steps, RemoveBegins(s) PROVE HInv'
    BY <1>3, RemoveBeginsInv
  <1>4. CASE BubbleUp
    BY <1>4, BubbleUpInv
  <1>5. CASE ResolveEnds
    BY <1>5, ResolveEndsInv
  <1>6. CASE Lift
    BY <1>6, LiftInv
  <1>7. CASE TakeLast
    BY <1>7, TakeLastInv
  <1>8. CASE Sink
    BY <1>8, SinkInv
  <1>9. CASE RemoveEnds
    BY <1>9, RemoveEndsInv
  <1>10. CASE UNCHANGED heapVars
    BY <1>10 DEF heapVars, HInv, HeapTypeOK, Located, Ordered, Filled, InOrder, Across,
                 AboveChildren, BelowParent, InHand, Slots
  <1>11. QED
    BY <1>1, <1>2, <1>3, <1>4, <1>5, <1>6, <1>7, <1>8, <1>9, <1>10 DEF HeapNext

LEMMA HeapInvariant == HeapSpec => []HInv
  <1>1. QED
    BY HInitInv, HeapStepInv, PTL DEF HeapSpec

\* Between operations no step goes before its parent, however the heap was used.
THEOREM HeapIsOrdered == HeapSpec => []HeapOrdered
  <1>1. HInv => HeapOrdered
    <2> SUFFICES ASSUME HInv, pc = "idle", NEW i \in Slots \ {0}
                 PROVE  ~Less(pending[Parent(i)], pending[i])
      BY DEF HeapOrdered
    <2>1. Parent(i) \in Slots
      BY SlotFacts DEF HInv
    <2>2. count[pending[Parent(i)]] <= count[pending[i]]
      BY <2>1 DEF HInv, Ordered, Filled, InOrder
    <2>3. count[pending[Parent(i)]] \in Nat /\ count[pending[i]] \in Nat
      BY <2>1 DEF HInv, HeapTypeOK
    <2>4. QED
      BY <2>2, <2>3 DEF Less
  <1>2. QED
    BY <1>1, HeapInvariant, PTL

\* The positions that steps remember are right, so ResolveDep and RemovePendingStep
\* always work on the step they were called for.
THEOREM HeapIsLocated == HeapSpec => []Located
  <1>1. HInv => Located
    BY DEF HInv
  <1>2. QED
    BY <1>1, HeapInvariant, PTL

THEOREM HeapIsTyped == HeapSpec => []HeapTypeOK
  <1>1. HInv => HeapTypeOK
    BY DEF HInv
  <1>2. QED
    BY <1>1, HeapInvariant, PTL

-----------------------------------------------------------------------------
(* The refinement *)

\* Members, spelled out for one step.
LEMMA MembersFacts ==
    \A t : t \in Members <=> \/ \E i \in Slots : (pc = "idle" \/ i # gap) /\ pending[i] = t
                             \/ pc \in {"up", "sink"} /\ t = cur
  BY DEF Members

\* The same after a step.
LEMMA MembersFactsPrime ==
    \A t : t \in Members' <=> \/ \E i \in Slots' : (pc' = "idle" \/ i # gap') /\ pending'[i] = t
                              \/ pc' \in {"up", "sink"} /\ t = cur'
  BY DEF Members

\* A child or the parent moving into the gap keeps the contents, and so does the step in
\* hand when it is placed.
LEMMA MovingKeepsMembers ==
    ASSUME HInv, BubbleUp \/ Lift \/ Sink
    PROVE  Members' = Members
  <1> DEFINE from == IF pc = "sink" THEN Preferred(gap) ELSE Parent(gap)
  <1>1. /\ HeapTypeOK /\ Slots' = Slots /\ pc' = pc /\ cur' = cur /\ pc # "idle"
        /\ gap' = from
        /\ pending' = [pending EXCEPT ![gap] = pending[from]]
    BY DEF HInv, BubbleUp, Lift, Sink, Slots
  <1>2. gap \in Slots /\ from \in Slots /\ from # gap
    <2>1. CASE Sink
      BY <1>1, <2>1, PreferredFacts DEF HeapTypeOK, Sink
    <2>2. CASE BubbleUp \/ Lift
      <3>1. gap \in Slots \ {0} /\ from = Parent(gap)
        BY <1>1, <2>2 DEF HeapTypeOK, BubbleUp, Lift, StaysBelow
      <3>2. gap \in Nat /\ Parent(gap) \in Slots /\ Parent(gap) < gap
        BY <1>1, <3>1, SlotFacts
      <3>3. Parent(gap) # gap
        BY <1>1, <3>1, <3>2, SlotFacts
      <3>4. QED
        BY <3>1, <3>2, <3>3
    <2>3. QED
      BY <2>1, <2>2
  <1> HIDE DEF from
  <1>3. /\ pending'[gap] = pending[from]
        /\ \A i \in Slots : i # gap => pending'[i] = pending[i]
    BY <1>1, <1>2 DEF HeapTypeOK
  <1>4. ASSUME NEW t PROVE t \in Members' <=> t \in Members
    <2>1. ASSUME NEW i \in Slots, i # gap, pending[i] = t
          PROVE  \E j \in Slots : j # from /\ pending'[j] = t
      BY <1>2, <1>3, <2>1
    <2>2. ASSUME NEW i \in Slots, i # from, pending'[i] = t
          PROVE  \E j \in Slots : j # gap /\ pending[j] = t
      BY <1>2, <1>3, <2>2
    <2>3. QED
      BY <1>1, <2>1, <2>2, MembersFacts, MembersFactsPrime
  <1>5. QED
    BY <1>4

LEMMA PlacingKeepsMembers ==
    ASSUME HInv, ResolveEnds \/ RemoveEnds
    PROVE  Members' = Members
  <1>1. /\ HeapTypeOK /\ Slots' = Slots /\ pc \in {"up", "sink"} /\ pc' = "idle"
        /\ gap \in Slots
        /\ pending' = [pending EXCEPT ![gap] = cur]
    BY DEF HInv, HeapTypeOK, ResolveEnds, RemoveEnds, Place, Slots
  <1>2. /\ pending'[gap] = cur
        /\ \A i \in Slots : i # gap => pending'[i] = pending[i]
    BY <1>1 DEF HeapTypeOK
  <1>3. ASSUME NEW t PROVE t \in Members' <=> t \in Members
    BY <1>1, <1>2, MembersFacts, MembersFactsPrime
  <1>4. QED
    BY <1>3

\* Re-keying s changes the count of s only.
LEMMA ResolveDepIsAResolve ==
    ASSUME HInv, NEW s \in Steps, ResolveDep(s)
    PROVE  Abstract!AResolve(s)
  <1>1. loc[s] \in Slots /\ pending[loc[s]] = s
    BY FoundWhereItIs DEF ResolveDep
  <1>2. /\ pc = "idle" /\ pc' = "up" /\ cur' = s /\ gap' = loc[s]
        /\ Slots' = Slots /\ pending' = pending
    BY DEF ResolveDep, Slots
  <1>3. s \in Members
    BY <1>1, <1>2, MembersFacts
  <1>4. ASSUME NEW t PROVE t \in Members' <=> t \in Members
    BY <1>1, <1>2, MembersFacts, MembersFactsPrime
  <1>5. Members' = Members
    BY <1>4
  <1>6. QED
    BY <1>3, <1>5 DEF ResolveDep, Abstract!AResolve

\* Taking out the last step, or turning the position of a step into a gap, removes that
\* step and no other: nothing else is there.
LEMMA RemovingIsARemove ==
    ASSUME HInv, NEW s \in Steps, RemoveLast(s) \/ RemoveBegins(s)
    PROVE  Abstract!ARemove(s)
  <1>1. /\ loc[s] \in Slots /\ pending[loc[s]] = s /\ pc = "idle"
        /\ \A i \in Slots : loc[pending[i]] = i
    BY FoundWhereItIs DEF RemoveLast, RemoveBegins, HInv, Located
  <1>2. \A i \in Slots : i # loc[s] <=> pending[i] # s
    BY <1>1
  <1>3. ASSUME NEW t PROVE t \in Members' <=> t \in Members /\ t # s
    <2>1. CASE RemoveBegins(s)
      <3>1. pc' = "lift" /\ gap' = loc[s] /\ Slots' = Slots /\ pending' = pending
        BY <2>1 DEF RemoveBegins, Slots
      <3>2. QED
        BY <1>1, <1>2, <3>1, MembersFacts, MembersFactsPrime
    <2>2. CASE RemoveLast(s)
      <3>1. pc' = "idle" /\ size \in Nat /\ loc[s] = size - 1 /\ Slots' = 0..(size - 2)
        BY <2>2 DEF RemoveLast, HInv, HeapTypeOK, Slots
      <3>2. /\ Slots' = Slots \ {loc[s]}
            /\ \A i \in Slots' : pending'[i] = pending[i]
        BY <2>2, <3>1 DEF RemoveLast, Slots, Shrunk
      <3>3. QED
        BY <1>1, <1>2, <3>1, <3>2, MembersFacts, MembersFactsPrime
    <2>3. QED
      BY <2>1, <2>2
  <1>4. Members' = Members \ {s}
    BY <1>3
  <1>5. s \in Members
    BY <1>1, MembersFacts
  <1>6. QED
    BY <1>4, <1>5 DEF Abstract!ARemove, RemoveLast, RemoveBegins

\* The last step goes from the vector into the hand.
LEMMA TakingKeepsMembers ==
    ASSUME HInv, TakeLast
    PROVE  Members' = Members
  <1>1. /\ size \in Nat /\ gap = 0 /\ gap < size - 1 /\ pc = "lift" /\ pc' = "sink" /\ gap' = gap
        /\ cur' = pending[size - 1] /\ Slots' = 0..(size - 2)
    BY DEF HInv, HeapTypeOK, InHand, TakeLast, Slots
  <1>2. /\ Slots' = Slots \ {size - 1} /\ size - 1 \in Slots
        /\ \A i \in Slots' : pending'[i] = pending[i]
    BY <1>1 DEF TakeLast, Slots, Shrunk
  <1>3. size - 1 # gap
    BY <1>1
  <1>4. ASSUME NEW t PROVE t \in Members' <=> t \in Members
    BY <1>1, <1>2, <1>3, MembersFacts, MembersFactsPrime
  <1>5. QED
    BY <1>4

\* The heap behaves as the set of steps with counts that the scheduler takes it for: each
\* operation takes effect on one step, and the turns of its loop change nothing.
THEOREM HeapImplementsPending == HeapSpec => ImplementsPending
  <1>1. HeapInit => Abstract!AInit
    <2> SUFFICES ASSUME HeapInit PROVE Abstract!AInit
      OBVIOUS
    <2>1. HeapTypeOK /\ pc = "idle"
      BY DEF HeapInit, HeapTypeOK
    <2>2. Members \subseteq Steps
      BY <2>1, MembersFacts DEF HeapTypeOK
    <2>3. QED
      BY <2>1, <2>2 DEF Abstract!AInit, HeapTypeOK
  <1>2. HInv /\ [HeapNext]_heapVars => [Abstract!ANext]_<<Members, count, pc # "idle">>
    <2> SUFFICES ASSUME HInv, [HeapNext]_heapVars
                 PROVE  \/ Abstract!ANext
                        \/ Members' = Members /\ count' = count /\ (pc # "idle")' = (pc # "idle")
      OBVIOUS
    <2>1. ASSUME NEW s \in Steps, ResolveDep(s) \/ RemoveLast(s) \/ RemoveBegins(s)
          PROVE  Abstract!ANext
      BY <2>1, ResolveDepIsAResolve, RemovingIsARemove DEF Abstract!ANext
    <2>2. CASE BubbleUp \/ Lift \/ Sink
      BY <2>2, MovingKeepsMembers DEF BubbleUp, Lift, Sink
    <2>3. CASE ResolveEnds \/ RemoveEnds
      BY <2>3, PlacingKeepsMembers DEF ResolveEnds, RemoveEnds, Place, Abstract!ANext, Abstract!AReturn
    <2>4. CASE TakeLast
      BY <2>4, TakingKeepsMembers DEF TakeLast
    <2>5. CASE UNCHANGED heapVars
      BY <2>5 DEF heapVars, Members, Slots
    <2>6. QED
      BY <2>1, <2>2, <2>3, <2>4, <2>5 DEF HeapNext
  <1>3. QED
    BY <1>1, <1>2, HeapInvariant, PTL DEF HeapSpec, ImplementsPending, Abstract!ASpec

-----------------------------------------------------------------------------
(* Natural numbers *)

\* A set of natural numbers that is not empty has a least element: among its initial
\* segments, which are finite, one is contained in no other.
LEMMA FirstNumber ==
    ASSUME NEW S \in SUBSET Nat, S # {}
    PROVE  \E x \in S : \A y \in S : x <= y
  <1> DEFINE Upto(x) == S \cap (0..x)
             Segments == {Upto(x) : x \in S}
  <1>1. Segments \subseteq FiniteSubsetsOf(Nat)
    <2> SUFFICES ASSUME NEW x \in S PROVE Upto(x) \in FiniteSubsetsOf(Nat)
      OBVIOUS
    <2>1. IsFiniteSet(0..x)
      BY FS_Interval
    <2>2. IsFiniteSet(Upto(x))
      BY <2>1, FS_Subset
    <2>3. QED
      BY <2>2 DEF FiniteSubsetsOf
  <1>2. Segments # {}
    OBVIOUS
  <1> HIDE DEF Segments
  <1>3. PICK A \in Segments : \A B \in Segments : ~(<<B, A>> \in StrictSubsetOrdering(Nat))
    BY <1>1, <1>2, FS_StrictSubsetOrderingWellFounded, WFMin
  <1>4. PICK x \in S : A = Upto(x)
    BY <1>3 DEF Segments
  <1>5. ASSUME NEW y \in S, y < x
        PROVE  FALSE
    <2>1. Upto(y) \subseteq A /\ Upto(y) # A /\ Upto(y) \subseteq Nat /\ A \subseteq Nat
      BY <1>4, <1>5
    <2>2. <<Upto(y), A>> \in StrictSubsetOrdering(Nat)
      BY <2>1 DEF StrictSubsetOrdering
    <2>3. QED
      BY <1>3, <2>2 DEF Segments
  <1>6. QED
    BY <1>5

\* Induction over the numbers up to n, for the set of those that have a property.
LEMMA UpTo ==
    ASSUME NEW n \in Nat, NEW S, 0 \in S, \A k \in 1..n : k - 1 \in S => k \in S
    PROVE  0..n \subseteq S
  <1> DEFINE Bad == (0..n) \ S
  <1> SUFFICES ASSUME Bad # {} PROVE FALSE
    OBVIOUS
  <1>1. Bad \in SUBSET Nat
    OBVIOUS
  <1>2. PICK k \in Bad : \A y \in Bad : k <= y
    <2> HIDE DEF Bad
    <2>1. QED
      BY <1>1, FirstNumber
  <1>3. k \in 1..n /\ k - 1 \in 0..n /\ k \in Nat
    OBVIOUS
  <1>4. k - 1 \in S
    BY <1>2, <1>3
  <1>5. QED
    BY <1>3, <1>4

-----------------------------------------------------------------------------
(* The walk over the runnable steps *)

\* A set of positions that contains the children of its positions
IsClosed(S) == \A q \in S : Children(q) \subseteq S

\* The positions below p, with p itself: those in every closed set that has p
Below(p) == {q \in Slots : p \in Slots /\ \A S \in SUBSET Slots : p \in S /\ IsClosed(S) => q \in S}

\* The positions that a walk in pre-order comes to when it is done below p: those below
\* the right sibling of p and of whatever p is below, where these are left children.
Later(p) == {r \in Slots : \E a \in Slots : a % 2 = 1 /\ p \in Below(a) /\ r \in Below(a + 1)}

\* The positions that it comes to after p
After(p) == (Below(p) \ {p}) \cup Later(p)

Runnables == {p \in Slots : count[pending[p]] = 0}

\* What is below p is in every closed set that has p.
LEMMA BelowLeast ==
    ASSUME NEW p \in Slots, NEW S \in SUBSET Slots, p \in S, IsClosed(S)
    PROVE  Below(p) \subseteq S
  BY DEF Below

\* It is such a set itself.
LEMMA BelowClosed ==
    ASSUME NEW p \in Slots
    PROVE  p \in Below(p) /\ Below(p) \subseteq Slots /\ IsClosed(Below(p))
  <1>1. p \in Below(p) /\ Below(p) \subseteq Slots
    BY DEF Below
  <1>2. ASSUME NEW q \in Below(p), NEW c \in Children(q)
        PROVE  c \in Below(p)
    <2>1. c \in Slots
      BY DEF Children
    <2>2. ASSUME NEW S \in SUBSET Slots, p \in S, IsClosed(S)
          PROVE  c \in S
      <3>1. q \in S
        BY <2>2, BelowLeast
      <3>2. QED
        BY <2>2, <3>1 DEF IsClosed
    <2>3. QED
      BY <2>1, <2>2 DEF Below
  <1>3. QED
    BY <1>1, <1>2 DEF IsClosed

\* What is below q is below what q is below.
LEMMA BelowMonotone ==
    ASSUME NEW p \in Slots, NEW q \in Below(p)
    PROVE  Below(q) \subseteq Below(p)
  <1>1. q \in Slots /\ Below(p) \in SUBSET Slots /\ IsClosed(Below(p))
    BY BelowClosed
  <1>2. QED
    BY <1>1, BelowLeast

\* Below a position are the position itself and what is below its children.
LEMMA BelowParts ==
    ASSUME HeapTypeOK, NEW p \in Slots
    PROVE  Below(p) = {p} \cup Below(Left(p)) \cup Below(Right(p))
  <1> DEFINE S == {p} \cup Below(Left(p)) \cup Below(Right(p))
  <1>1. ASSUME NEW c \in {Left(p), Right(p)}
        PROVE  /\ Below(c) \subseteq Below(p) /\ IsClosed(Below(c)) /\ Below(c) \subseteq Slots
               /\ c \in Slots => c \in Below(c)
    <2>1. CASE c \in Slots
      <3>1. c \in Below(p)
        <4>1. c \in Children(p)
          BY <2>1 DEF Children
        <4>2. QED
          BY <4>1, BelowClosed DEF IsClosed
      <3>2. QED
        BY <2>1, <3>1, BelowMonotone, BelowClosed
    <2>2. CASE c \notin Slots
      <3>1. Below(c) = {}
        BY <2>2 DEF Below
      <3>2. QED
        BY <2>2, <3>1 DEF IsClosed
    <2>3. QED
      BY <2>1, <2>2
  <1>2. S \in SUBSET Slots /\ p \in S
    BY <1>1
  <1>3. IsClosed(S)
    <2> SUFFICES ASSUME NEW q \in S, NEW c \in Children(q) PROVE c \in S
      BY DEF IsClosed
    <2>1. CASE q = p
      <3>1. c \in {Left(p), Right(p)} /\ c \in Slots
        BY <2>1 DEF Children
      <3>2. c \in Below(c)
        BY <1>1, <3>1
      <3>3. QED
        BY <3>1, <3>2
    <2>2. CASE q \in Below(Left(p))
      BY <1>1, <2>2 DEF IsClosed
    <2>3. CASE q \in Below(Right(p))
      BY <1>1, <2>3 DEF IsClosed
    <2>4. QED
      BY <2>1, <2>2, <2>3
  <1>4. Below(p) \subseteq S
    <2> HIDE DEF S
    <2>1. QED
      BY <1>2, <1>3, BelowLeast
  <1>5. S \subseteq Below(p)
    BY <1>1, BelowClosed
  <1>6. QED
    BY <1>4, <1>5

\* The numbers below a position are not smaller, and what is strictly below it has its
\* parent below it too.
LEMMA BelowUp ==
    ASSUME HeapTypeOK, NEW p \in Slots, NEW q \in Below(p)
    PROVE  p <= q /\ (q # p => q # 0 /\ Parent(q) \in Below(p))
  <1>1. p \in Nat /\ q \in Nat /\ q \in Slots
    BY BelowClosed, SlotFacts
  <1>2. p <= q
    <2> DEFINE S == {r \in Slots : p <= r}
    <2>1. IsClosed(S)
      <3> SUFFICES ASSUME NEW r \in S, NEW c \in Children(r) PROVE c \in S
        BY DEF IsClosed
      <3>1. r \in Nat /\ c \in Slots /\ c \in {Left(r), Right(r)}
        BY SlotFacts DEF Children
      <3>2. c \in Nat /\ r < c
        BY <3>1, ChildFacts
      <3>3. QED
        BY <1>1, <3>1, <3>2
    <2>2. p \in S /\ S \in SUBSET Slots
      BY <1>1
    <2>3. Below(p) \subseteq S
      <3> HIDE DEF S
      <3>1. QED
        BY <2>1, <2>2, BelowLeast
    <2>4. QED
      BY <2>3
  <1>3. ASSUME q # p
        PROVE  q # 0 /\ Parent(q) \in Below(p)
    <2> DEFINE S == {r \in Below(p) : r = p \/ Parent(r) \in Below(p)}
    <2>1. IsClosed(S)
      <3> SUFFICES ASSUME NEW r \in S, NEW c \in Children(r) PROVE c \in S
        BY DEF IsClosed
      <3>1. r \in Below(p) /\ r \in Nat
        BY BelowClosed, SlotFacts
      <3>2. c \in Below(p)
        BY <3>1, BelowClosed DEF IsClosed
      <3>3. Parent(c) = r
        BY <3>1, ChildFacts DEF Children
      <3>4. QED
        BY <3>1, <3>2, <3>3
    <2>2. p \in S /\ S \in SUBSET Slots
      BY BelowClosed
    <2>3. Below(p) \subseteq S
      <3> HIDE DEF S
      <3>1. QED
        BY <2>1, <2>2, BelowLeast
    <2>4. QED
      BY <1>1, <1>2, <1>3, <2>3
  <1>4. QED
    BY <1>2, <1>3

\* A position is below another one if its parent is.
LEMMA BelowParents ==
    ASSUME HeapTypeOK, NEW p \in Slots \ {0}, NEW a \in Slots
    PROVE  p \in Below(a) <=> p = a \/ Parent(p) \in Below(a)
  <1>1. Parent(p) \in Slots /\ p \in Nat /\ p \in Children(Parent(p))
    BY SlotFacts, ParentFacts DEF Children, Left, Right
  <1>2. p \in Below(a) /\ p # a => Parent(p) \in Below(a)
    BY BelowUp
  <1>3. Parent(p) \in Below(a) => p \in Below(a)
    BY <1>1, BelowClosed DEF IsClosed
  <1>4. QED
    BY <1>2, <1>3, BelowClosed

\* The parent of a left child is that of its right sibling, which is not below it, and
\* the other way round.
LEMMA SiblingFacts ==
    ASSUME HeapTypeOK, NEW a \in Slots, a % 2 = 1
    PROVE  /\ a \in Nat /\ a # 0 /\ Parent(a) \in Slots /\ Parent(a) < a
           /\ a = Left(Parent(a)) /\ a + 1 = Right(Parent(a)) /\ Parent(a + 1) = Parent(a)
  <1>1. a \in Nat /\ a # 0
    BY SlotFacts
  <1>2. Parent(a) \in Slots /\ Parent(a) < a /\ Parent(a) \in Nat
    BY <1>1, SlotFacts
  <1>3. a = 2 * Parent(a) + 1
    BY <1>1 DEF Parent
  <1>4. a = Left(Parent(a)) /\ a + 1 = Right(Parent(a))
    BY <1>2, <1>3 DEF Left, Right
  <1>5. Parent(a + 1) = Parent(a)
    BY <1>2, <1>4, ChildFacts
  <1>6. QED
    BY <1>1, <1>2, <1>4, <1>5

\* Nothing is below both of two siblings.
LEMMA SiblingsApart ==
    ASSUME HeapTypeOK, NEW a \in Slots, a % 2 = 1
    PROVE  Below(a) \cap Below(a + 1) = {}
  <1>1. CASE a + 1 \notin Slots
    BY <1>1 DEF Below
  <1>2. CASE a + 1 \in Slots
    <2> DEFINE S == {r \in Below(a) : r \notin Below(a + 1)}
    <2>1. a \in S
      <3>1. a \in Nat
        BY SlotFacts
      <3>2. ASSUME a \in Below(a + 1) PROVE FALSE
        <4>1. a + 1 <= a
          BY <1>2, <3>2, BelowUp
        <4>2. QED
          BY <3>1, <4>1
      <3>3. QED
        BY <3>2, BelowClosed
    <2>2. ASSUME NEW r \in S, NEW c \in Children(r)
          PROVE  c \in S
      <3>1. r \in Below(a) /\ r \in Nat /\ r \in Slots
        BY BelowClosed, SlotFacts
      <3>2. c \in Below(a) /\ c \in Slots
        BY <3>1, BelowClosed DEF IsClosed
      <3>3. Parent(c) = r
        BY <3>1, ChildFacts DEF Children
      <3>4. ASSUME c \in Below(a + 1) PROVE FALSE
        <4>1. CASE c = a + 1
          <5>1. r < a
            BY <3>3, <4>1, SiblingFacts
          <5>2. a <= r
            BY <3>1, BelowUp
          <5>3. QED
            BY <3>1, <5>1, <5>2, SiblingFacts
        <4>2. CASE c # a + 1
          <5>1. r \in Below(a + 1)
            BY <1>2, <3>3, <3>4, <4>2, BelowUp
          <5>2. QED
            BY <5>1
        <4>3. QED
          BY <4>1, <4>2
      <3>5. QED
        BY <3>2, <3>4
    <2>3. S \in SUBSET Slots /\ IsClosed(S)
      BY <2>2, BelowClosed DEF IsClosed
    <2>4. Below(a) \subseteq S
      <3> HIDE DEF S
      <3>1. QED
        BY <2>1, <2>3, BelowLeast
    <2>5. QED
      BY <2>4
  <1>3. QED
    BY <1>1, <1>2

\* Below a step that waits nothing is runnable.
LEMMA NoneBelowWaiting ==
    ASSUME HInv, pc = "idle", NEW c, c \notin Runnables
    PROVE  Below(c) \cap Runnables = {}
  <1>1. CASE c \notin Slots
    BY <1>1 DEF Below
  <1>2. CASE c \in Slots
    <2> DEFINE S == {r \in Slots : r \notin Runnables}
    <2>1. ASSUME NEW r \in S, NEW d \in Children(r)
          PROVE  d \in S
      <3>1. r \in Slots /\ r \in Nat /\ d \in Slots /\ HeapTypeOK
        BY SlotFacts DEF Children, HInv
      <3>2. Parent(d) = r /\ d # 0
        BY <3>1, ChildFacts DEF Children
      <3>3. count[pending[r]] <= count[pending[d]]
        BY <3>1, <3>2 DEF HInv, Ordered, Filled, InOrder
      <3>4. count[pending[r]] \in Nat /\ count[pending[d]] \in Nat
        BY <3>1 DEF HeapTypeOK
      <3>5. QED
        BY <3>1, <3>3, <3>4 DEF Runnables
    <2>2. IsClosed(S) /\ S \in SUBSET Slots /\ c \in S
      BY <1>2, <2>1 DEF IsClosed
    <2>3. Below(c) \subseteq S
      <3> HIDE DEF S
      <3>1. QED
        BY <1>2, <2>2, BelowLeast
    <2>4. QED
      BY <2>3
  <1>3. QED
    BY <1>1, <1>2

\* Nothing comes later than what is below the root.
LEMMA LaterRoot ==
    ASSUME HeapTypeOK
    PROVE  Later(0) = {}
  <1> SUFFICES ASSUME NEW a \in Slots, a % 2 = 1, 0 \in Below(a) PROVE FALSE
    BY DEF Later
  <1>1. a \in Nat /\ a <= 0
    BY BelowUp, SlotFacts
  <1>2. QED
    BY <1>1

\* What comes later than p: what is below its right sibling, and what comes later than
\* its parent.
LEMMA LaterParts ==
    ASSUME HeapTypeOK, NEW p \in Slots \ {0}
    PROVE  Later(p) = (IF p % 2 = 1 THEN Below(p + 1) ELSE {}) \cup Later(Parent(p))
  <1>1. ASSUME NEW a \in Slots
        PROVE  p \in Below(a) <=> p = a \/ Parent(p) \in Below(a)
    BY BelowParents
  <1>2. Below(p + 1) \subseteq Slots
    BY DEF Below
  <1>3. QED
    BY <1>1, <1>2 DEF Later

\* What comes later than p is not below p.
LEMMA LaterApart ==
    ASSUME HeapTypeOK, NEW p \in Slots
    PROVE  Below(p) \cap Later(p) = {} /\ p \notin After(p)
  <1>1. ASSUME NEW a \in Slots, a % 2 = 1, p \in Below(a), NEW r \in Below(p), r \in Below(a + 1)
        PROVE  FALSE
    <2>1. r \in Below(a)
      BY <1>1, BelowMonotone
    <2>2. QED
      BY <1>1, <2>1, SiblingsApart
  <1>2. Below(p) \cap Later(p) = {}
    BY <1>1 DEF Later
  <1>3. QED
    BY <1>2, BelowClosed DEF After

\* The greatest of some positions
LEMMA LastSlot ==
    ASSUME HeapTypeOK, NEW S \in SUBSET Slots, S # {}
    PROVE  \E x \in S : \A y \in S : y <= x
  <1> DEFINE T == {size - x : x \in S}
  <1>1. \A x \in S : x \in Nat /\ x < size /\ size \in Nat
    BY SlotFacts DEF HeapTypeOK
  <1>2. T \in SUBSET Nat /\ T # {}
    BY <1>1
  <1>3. PICK t \in T : \A u \in T : t <= u
    <2> HIDE DEF T
    <2>1. QED
      BY <1>2, FirstNumber
  <1>4. PICK x \in S : t = size - x
    OBVIOUS
  <1>5. ASSUME NEW y \in S PROVE y <= x
    <2>1. size - y \in T
      OBVIOUS
    <2>2. t <= size - y
      BY <1>3, <2>1
    <2>3. QED
      BY <1>1, <1>4, <2>2
  <1>6. QED
    BY <1>5

\* A set of positions has all of them if it has the root, and each position whose
\* parent it has.
LEMMA FromTheRoot ==
    ASSUME HeapTypeOK, NEW S, 0 \in Slots => 0 \in S,
           \A p \in Slots \ {0} : Parent(p) \in S => p \in S
    PROVE  Slots \subseteq S
  <1> DEFINE Bad == Slots \ S
  <1> SUFFICES ASSUME Bad # {} PROVE FALSE
    OBVIOUS
  <1>1. Bad \in SUBSET Nat
    BY SlotFacts
  <1>2. PICK p \in Bad : \A y \in Bad : p <= y
    <2> HIDE DEF Bad
    <2>1. QED
      BY <1>1, FirstNumber
  <1>3. p \in Slots \ {0} /\ p \in Nat
    BY <1>1
  <1>4. Parent(p) \in Slots /\ Parent(p) < p /\ Parent(p) \in Nat
    BY <1>3, SlotFacts
  <1>5. Parent(p) \notin Bad
    BY <1>2, <1>3, <1>4
  <1>6. QED
    BY <1>3, <1>4, <1>5

\* The turn of the loop of operator++ at p
ClimbsAs(up, p) ==
    up[p] = IF p = 0 THEN End
            ELSE IF p % 2 = 1 /\ RunnableAt(p + 1) THEN p + 1
            ELSE up[Parent(p)]

\* The left children that p is below, or is, whose right sibling may be scheduled
Turns(p) == {a \in Slots : a % 2 = 1 /\ p \in Below(a) /\ RunnableAt(a + 1)}

\* Those of p are those of its parent, and p itself if it is one.
LEMMA TurnsParts ==
    ASSUME HeapTypeOK
    PROVE  /\ 0 \in Slots => Turns(0) = {}
           /\ \A p \in Slots \ {0} :
                Turns(p) = (IF p % 2 = 1 /\ RunnableAt(p + 1) THEN {p} ELSE {}) \cup Turns(Parent(p))
  <1>1. Turns(0) = {}
    <2> SUFFICES ASSUME NEW a \in Slots, a % 2 = 1, 0 \in Below(a) PROVE FALSE
      BY DEF Turns
    <2>1. a \in Nat /\ a <= 0
      BY BelowUp, SlotFacts
    <2>2. QED
      BY <2>1
  <1>2. ASSUME NEW p \in Slots \ {0}
        PROVE  Turns(p) = (IF p % 2 = 1 /\ RunnableAt(p + 1) THEN {p} ELSE {}) \cup Turns(Parent(p))
    <2>1. ASSUME NEW a \in Slots
          PROVE  p \in Below(a) <=> p = a \/ Parent(p) \in Below(a)
      BY BelowParents
    <2>2. QED
      BY <2>1 DEF Turns
  <1>3. QED
    BY <1>1, <1>2

\* The recursion of the loop has a solution.
LEMMA ClimbDefined ==
    ASSUME HeapTypeOK
    PROVE  \A p \in Slots : ClimbsAs(Climb, p)
  <1> DEFINE g == [p \in Slots |->
                    IF Turns(p) = {} THEN End
                    ELSE (CHOOSE a \in Turns(p) : \A b \in Turns(p) : b <= a) + 1]
             Is(f) == f = [p \in Slots |-> IF p = 0 THEN End
                                           ELSE IF p % 2 = 1 /\ RunnableAt(p + 1) THEN p + 1
                                           ELSE f[Parent(p)]]
  <1>1. ASSUME NEW p \in Slots
        PROVE  ClimbsAs(g, p)
    <2>1. CASE p = 0
      BY <2>1, TurnsParts DEF ClimbsAs
    <2>2. CASE p # 0 /\ p % 2 = 1 /\ RunnableAt(p + 1)
      <3>1. p \in Turns(p) /\ p \in Nat
        BY <2>2, BelowClosed, SlotFacts DEF Turns
      <3>2. ASSUME NEW a \in Turns(p), \A b \in Turns(p) : b <= a
            PROVE  a = p
        <4>1. p <= a /\ a \in Slots /\ p \in Below(a)
          BY <3>1, <3>2 DEF Turns
        <4>2. a <= p /\ a \in Nat
          BY <4>1, BelowUp, SlotFacts
        <4>3. QED
          BY <3>1, <4>1, <4>2
      <3>3. \E a \in Turns(p) : \A b \in Turns(p) : b <= a
        <4>1. Turns(p) \in SUBSET Slots /\ Turns(p) # {}
          BY <3>1 DEF Turns
        <4>2. QED
          BY <4>1, LastSlot
      <3>4. (CHOOSE a \in Turns(p) : \A b \in Turns(p) : b <= a) = p
        BY <3>2, <3>3
      <3>5. g[p] = p + 1
        BY <3>1, <3>4
      <3> HIDE DEF g
      <3>6. QED
        BY <2>2, <3>5 DEF ClimbsAs
    <2>3. CASE p # 0 /\ ~(p % 2 = 1 /\ RunnableAt(p + 1))
      <3>1. Turns(p) = Turns(Parent(p)) /\ Parent(p) \in Slots
        BY <2>3, TurnsParts, SlotFacts
      <3>2. g[p] = g[Parent(p)]
        BY <3>1
      <3> HIDE DEF g
      <3>3. QED
        BY <2>3, <3>2 DEF ClimbsAs
    <2>4. QED
      BY <2>1, <2>2, <2>3
  <1>2. Is(g)
    <2> DEFINE h == [p \in Slots |-> IF p = 0 THEN End
                                     ELSE IF p % 2 = 1 /\ RunnableAt(p + 1) THEN p + 1
                                     ELSE g[Parent(p)]]
    <2>1. g = [p \in Slots |-> g[p]]
      OBVIOUS
    <2> HIDE DEF g
    <2>2. \A p \in Slots : g[p] = h[p]
      BY <1>1 DEF ClimbsAs
    <2>3. g = h
      <3>1. h = [p \in Slots |-> h[p]]
        OBVIOUS
      <3> HIDE DEF h
      <3>2. QED
        BY <2>1, <2>2, <3>1
    <2>4. QED
      BY <2>3
  <1> HIDE DEF g
  <1>3. Climb = CHOOSE f : Is(f)
    BY DEF Climb
  <1>4. PICK f : Is(f) /\ f = Climb
    <2> HIDE DEF Is
    <2>1. Is(CHOOSE f : Is(f))
      BY <1>2
    <2>2. QED
      BY <1>3, <2>1
  <1>5. \A p \in Slots : ClimbsAs(f, p)
    BY <1>4 DEF ClimbsAs
  <1>6. QED
    BY <1>4, <1>5

\* What the iterator finds when it looks for a next step in S: the step q, with the rest
\* of S after it, or the end, with nothing left.
Finds(q, S) ==
    \/ q = End /\ S \cap Runnables = {}
    \/ q \in Runnables /\ S \cap Runnables = ({q} \cup After(q)) \cap Runnables

\* The way up finds what comes first after all that is below p.
LEMMA ClimbFinds ==
    ASSUME HInv, pc = "idle"
    PROVE  \A p \in Slots : Finds(Climb[p], Later(p))
  <1> DEFINE S == {p \in Slots : Finds(Climb[p], Later(p))}
  <1>1. HeapTypeOK
    BY DEF HInv
  <1>2. ASSUME 0 \in Slots PROVE 0 \in S
    <2>1. Climb[0] = End
      BY <1>1, <1>2, ClimbDefined DEF ClimbsAs
    <2>2. QED
      BY <1>1, <1>2, <2>1, LaterRoot DEF Finds
  <1>3. ASSUME NEW p \in Slots \ {0}, Parent(p) \in S
        PROVE  p \in S
    <2>1. ClimbsAs(Climb, p)
      BY <1>1, ClimbDefined
    <2>2. Later(p) = (IF p % 2 = 1 THEN Below(p + 1) ELSE {}) \cup Later(Parent(p))
      BY <1>1, LaterParts
    <2>3. CASE p % 2 = 1 /\ RunnableAt(p + 1)
      <3>1. Climb[p] = p + 1
        BY <2>1, <2>3 DEF ClimbsAs
      <3>2. p + 1 \in Runnables /\ p + 1 \in Slots
        BY <2>3 DEF RunnableAt, Runnables
      <3>3. Parent(p + 1) = Parent(p) /\ p \in Nat /\ p + 1 = 2 * Parent(p) + 2 /\ Parent(p) \in Nat
        BY <1>1, <2>3, SiblingFacts, SlotFacts DEF Right
      <3>4. (p + 1) % 2 # 1 /\ p + 1 # 0
        BY <3>3
      <3>5. Later(p + 1) = Later(Parent(p))
        BY <1>1, <3>2, <3>3, <3>4, LaterParts
      <3>6. Below(p + 1) \cup Later(p + 1) = {p + 1} \cup After(p + 1)
        BY <3>2, BelowClosed DEF After
      <3>7. Later(p) = {p + 1} \cup After(p + 1)
        BY <2>2, <2>3, <3>5, <3>6
      <3>8. QED
        BY <3>1, <3>2, <3>7 DEF Finds
    <2>4. CASE ~(p % 2 = 1 /\ RunnableAt(p + 1))
      <3>1. Climb[p] = Climb[Parent(p)]
        BY <2>1, <2>4 DEF ClimbsAs
      <3>2. p % 2 = 1 => Below(p + 1) \cap Runnables = {}
        <4>1. p % 2 = 1 => p + 1 \notin Runnables
          BY <2>4 DEF RunnableAt, Runnables
        <4>2. QED
          BY <4>1, NoneBelowWaiting
      <3>3. Later(p) \cap Runnables = Later(Parent(p)) \cap Runnables
        BY <2>2, <3>2
      <3>4. QED
        BY <1>3, <3>1, <3>3 DEF Finds
    <2>5. QED
      BY <2>3, <2>4
  <1>4. Slots \subseteq S
    <2> HIDE DEF S
    <2>1. QED
      BY <1>1, <1>2, <1>3, FromTheRoot
  <1>5. QED
    BY <1>4

\* operator++ goes to the next step that may be scheduled.
LEMMA AdvanceFinds ==
    ASSUME HInv, pc = "idle", NEW p \in Slots
    PROVE  Finds(Advance(p), After(p))
  <1>1. HeapTypeOK /\ p \in Nat /\ p < size
    BY SlotFacts DEF HInv
  <1>2. Below(p) = {p} \cup Below(Left(p)) \cup Below(Right(p))
    BY <1>1, BelowParts
  <1>3. p \notin Below(Left(p)) /\ p \notin Below(Right(p))
    <2>1. Left(p) > p /\ Right(p) > p /\ Left(p) \in Nat /\ Right(p) \in Nat
      BY <1>1, ChildFacts
    <2>2. ASSUME NEW c \in {Left(p), Right(p)}, p \in Below(c) PROVE FALSE
      <3>1. c \in Slots
        BY <2>2 DEF Below
      <3>2. c <= p
        BY <1>1, <2>2, <3>1, BelowUp
      <3>3. QED
        BY <1>1, <2>1, <3>2
    <2>3. QED
      BY <2>2
  <1>4. After(p) = Below(Left(p)) \cup Below(Right(p)) \cup Later(p)
    BY <1>2, <1>3 DEF After
  <1>5. /\ Parent(Left(p)) = p /\ Parent(Right(p)) = p /\ Left(p) # 0 /\ Right(p) # 0
        /\ Left(p) + 1 = Right(p) /\ Left(p) % 2 = 1 /\ Right(p) % 2 # 1
    <2>1. Left(p) = 2 * p + 1 /\ Right(p) = 2 * p + 2
      BY DEF Left, Right
    <2>2. QED
      BY <1>1, <2>1, ChildFacts
  <1>6. \A c : RunnableAt(c) <=> c \in Runnables
    BY DEF RunnableAt, Runnables
  <1>7. \A c : c \in Runnables => c \in Slots /\ Below(c) \cup Later(c) = {c} \cup After(c)
    BY BelowClosed DEF After, Runnables
  <1>8. CASE RunnableAt(Left(p))
    <2>1. Advance(p) = Left(p) /\ Left(p) \in Runnables /\ Left(p) \in Slots
      BY <1>6, <1>8 DEF Advance, Runnables
    <2>2. Later(Left(p)) = Below(Right(p)) \cup Later(p)
      BY <1>1, <1>5, <2>1, LaterParts
    <2>3. After(p) = {Left(p)} \cup After(Left(p))
      BY <1>4, <1>7, <2>1, <2>2
    <2>4. QED
      BY <2>1, <2>3 DEF Finds
  <1>9. CASE ~RunnableAt(Left(p)) /\ RunnableAt(Right(p))
    <2>1. Advance(p) = Right(p) /\ Right(p) \in Runnables /\ Right(p) \in Slots
      BY <1>6, <1>9 DEF Advance, Runnables
    <2>2. Later(Right(p)) = Later(p)
      BY <1>1, <1>5, <2>1, LaterParts
    <2>3. Below(Left(p)) \cap Runnables = {}
      BY <1>6, <1>9, NoneBelowWaiting
    <2>4. After(p) \cap Runnables = ({Right(p)} \cup After(Right(p))) \cap Runnables
      BY <1>4, <1>7, <2>1, <2>2, <2>3
    <2>5. QED
      BY <2>1, <2>4 DEF Finds
  <1>10. CASE ~RunnableAt(Left(p)) /\ ~RunnableAt(Right(p))
    <2>1. Advance(p) = Climb[p]
      BY <1>10 DEF Advance
    <2>2. Below(Left(p)) \cap Runnables = {} /\ Below(Right(p)) \cap Runnables = {}
      BY <1>6, <1>10, NoneBelowWaiting
    <2>3. After(p) \cap Runnables = Later(p) \cap Runnables
      BY <1>4, <2>2
    <2>4. Finds(Climb[p], Later(p))
      BY ClimbFinds
    <2>5. QED
      BY <2>1, <2>3, <2>4 DEF Finds
  <1>11. QED
    BY <1>8, <1>9, <1>10

\* The n-th position of the iterator
VisitsAs(at, n) ==
    at[n] = IF n = 0 THEN IF RunnableAt(0) THEN 0 ELSE End
            ELSE IF at[n - 1] = End THEN End ELSE Advance(at[n - 1])

\* The walk is what repeating operator++ gives.
LEMMA VisitsDefined ==
    ASSUME HeapTypeOK
    PROVE  \A n \in 0..size : VisitsAs(Visits, n)
  <1> DEFINE First == IF RunnableAt(0) THEN 0 ELSE End
             Follower(q) == IF q = End THEN End ELSE Advance(q)
             Upto(f, k) == f = [n \in 0..k |-> IF n = 0 THEN First ELSE Follower(f[n - 1])]
             S == {k \in 0..size : \E f : Upto(f, k)}
  <1>1. size \in Nat
    BY DEF HeapTypeOK
  <1> HIDE DEF First, Follower
  <1>2. 0 \in S
    <2>1. Upto([n \in 0..0 |-> First], 0)
      OBVIOUS
    <2>2. \E f : Upto(f, 0)
      <3> HIDE DEF Upto
      <3>1. QED
        BY <2>1
    <2>3. QED
      BY <1>1, <2>2
  <1>3. ASSUME NEW k \in 1..size, k - 1 \in S
        PROVE  k \in S
    <2>1. PICK f : Upto(f, k - 1)
      BY <1>3
    <2>2. k \in Nat /\ k # 0 /\ k \in 0..size
      BY <1>1
    <2> DEFINE g == [n \in 0..k |-> IF n = k THEN Follower(f[k - 1]) ELSE f[n]]
    <2>3. ASSUME NEW n \in 0..k
          PROVE  g[n] = IF n = 0 THEN First ELSE Follower(g[n - 1])
      <3>1. CASE n = k
        <4>1. g[n] = Follower(f[k - 1]) /\ n - 1 \in 0..k /\ n - 1 # k
          BY <2>2, <3>1
        <4>2. g[n - 1] = f[n - 1]
          BY <4>1
        <4> HIDE DEF g
        <4>3. QED
          BY <2>2, <3>1, <4>1, <4>2
      <3>2. CASE n # k
        <4>1. n \in 0..(k - 1)
          BY <2>2, <3>2
        <4>2. f[n] = IF n = 0 THEN First ELSE Follower(f[n - 1])
          BY <2>1, <4>1
        <4>3. g[n] = f[n]
          BY <3>2
        <4>4. n # 0 => g[n - 1] = f[n - 1]
          BY <2>2, <4>1
        <4> HIDE DEF g
        <4>5. QED
          BY <4>2, <4>3, <4>4
      <3>3. QED
        BY <3>1, <3>2
    <2>4. Upto(g, k)
      <3>1. g = [n \in 0..k |-> g[n]]
        OBVIOUS
      <3> HIDE DEF g
      <3>2. QED
        BY <2>3, <3>1
    <2>5. \E h : Upto(h, k)
      <3> HIDE DEF Upto, g
      <3>1. QED
        BY <2>4
    <2>6. QED
      BY <2>2, <2>5
  <1>4. \E f : Upto(f, size)
    <2>1. 0..size \subseteq S
      <3> HIDE DEF S
      <3>1. QED
        BY <1>1, <1>2, <1>3, UpTo
    <2>2. size \in S
      BY <1>1, <2>1
    <2> HIDE DEF Upto
    <2>3. QED
      BY <2>2
  <1>5. Visits = CHOOSE f : Upto(f, size)
    BY DEF Visits, First, Follower
  <1>6. PICK f : Upto(f, size) /\ f = Visits
    <2> HIDE DEF Upto
    <2>1. QED
      BY <1>4, <1>5
  <1>7. ASSUME NEW n \in 0..size
        PROVE  VisitsAs(f, n)
    <2>1. f[n] = IF n = 0 THEN First ELSE Follower(f[n - 1])
      BY <1>6
    <2>2. QED
      BY <2>1 DEF VisitsAs, First, Follower
  <1>8. QED
    BY <1>6, <1>7

\* The first n visits have been to runnable steps, and what is runnable has been visited
\* or comes after the n-th visit.
Walked(n) ==
    /\ Visits[n] \in Runnables \cup {End}
    /\ Runnables \subseteq {Visits[m] : m \in 0..n} \cup (IF Visits[n] = End THEN {} ELSE After(Visits[n]))
    /\ \A m \in 0..(n - 1) :
          Visits[n] # End => /\ Visits[m] \in Runnables
                             /\ Visits[n] \in After(Visits[m])
                             /\ After(Visits[n]) \cap Runnables \subseteq After(Visits[m])

\* The walk starts at the root, below which is everything.
LEMMA WalkBegins ==
    ASSUME HInv, pc = "idle"
    PROVE  Walked(0)
  <1>1. HeapTypeOK /\ size \in Nat
    BY DEF HInv, HeapTypeOK
  <1>2. Visits[0] = IF RunnableAt(0) THEN 0 ELSE End
    BY <1>1, VisitsDefined DEF VisitsAs
  <1>3. Runnables \subseteq Below(0)
    <2> SUFFICES ASSUME 0 \in Slots PROVE Slots \subseteq Below(0)
      <3>1. Slots # {} => 0 \in Slots
        BY <1>1 DEF Slots
      <3>2. QED
        BY <3>1 DEF Runnables
    <2>1. 0 \in Below(0)
      BY BelowClosed
    <2>2. \A p \in Slots \ {0} : Parent(p) \in Below(0) => p \in Below(0)
      BY <1>1, BelowParents
    <2>3. QED
      BY <1>1, <2>1, <2>2, FromTheRoot
  <1>4. CASE RunnableAt(0)
    <2>1. Visits[0] = 0 /\ 0 \in Runnables
      BY <1>2, <1>4 DEF RunnableAt, Runnables
    <2>2. Runnables \subseteq {0} \cup After(0)
      BY <1>3 DEF After
    <2>3. {Visits[m] : m \in 0..0} = {Visits[0]}
      OBVIOUS
    <2>4. Visits[0] # End
      BY <2>1 DEF End
    <2>5. Runnables \subseteq {Visits[m] : m \in 0..0} \cup After(Visits[0])
      BY <2>1, <2>2, <2>3
    <2>6. QED
      BY <2>1, <2>4, <2>5 DEF Walked
  <1>5. CASE ~RunnableAt(0)
    <2>1. Visits[0] = End /\ 0 \notin Runnables
      BY <1>2, <1>5 DEF RunnableAt, Runnables
    <2>2. Runnables = {}
      BY <1>3, <2>1, NoneBelowWaiting
    <2>3. QED
      BY <2>1, <2>2 DEF Walked
  <1>6. QED
    BY <1>4, <1>5

\* It goes from one step to the next.
LEMMA WalkGoesOn ==
    ASSUME HInv, pc = "idle", NEW n \in 1..size, Walked(n - 1)
    PROVE  Walked(n)
  <1>1. HeapTypeOK /\ size \in Nat /\ n \in 0..size /\ n \in Nat /\ n # 0 /\ n - 1 \in Nat
    BY DEF HInv, HeapTypeOK
  <1> DEFINE p == Visits[n - 1]
             q == Visits[n]
             Seen(k) == {Visits[m] : m \in 0..k}
  <1>2. q = IF p = End THEN End ELSE Advance(p)
    BY <1>1, VisitsDefined DEF VisitsAs
  <1>3. Seen(n) = Seen(n - 1) \cup {q}
    <2>1. 0..n = (0..(n - 1)) \cup {n}
      BY <1>1
    <2>2. QED
      BY <2>1
  <1>4. /\ p \in Runnables \cup {End}
        /\ Runnables \subseteq Seen(n - 1) \cup (IF p = End THEN {} ELSE After(p))
        /\ \A m \in 0..(n - 2) :
              p # End => /\ Visits[m] \in Runnables /\ p \in After(Visits[m])
                         /\ After(p) \cap Runnables \subseteq After(Visits[m])
    BY <1>1 DEF Walked
  <1>5. \A m \in 0..(n - 1) : m = n - 1 \/ m \in 0..(n - 2)
    BY <1>1
  <1> HIDE DEF Seen
  <1>6. CASE p = End
    <2>1. q = End
      BY <1>2, <1>6
    <2>2. Runnables \subseteq Seen(n)
      BY <1>3, <1>4, <1>6
    <2>3. QED
      BY <2>1, <2>2 DEF Walked, Seen
  <1>7. CASE p # End
    <2>1. p \in Runnables /\ p \in Slots /\ q = Advance(p)
      BY <1>2, <1>4, <1>7 DEF Runnables
    <2> HIDE DEF q
    <2>2. Finds(q, After(p))
      BY <2>1, AdvanceFinds
    <2>3. CASE q = End
      <3>1. After(p) \cap Runnables = {}
        <4>1. End \notin Runnables
          BY <1>1, SlotFacts DEF Runnables, End
        <4>2. QED
          BY <2>2, <2>3, <4>1 DEF Finds
      <3>2. Runnables \subseteq Seen(n)
        BY <1>3, <1>4, <1>7, <3>1
      <3>3. QED
        BY <2>3, <3>2 DEF Walked, Seen, q
    <2>4. CASE q # End
      <3>1. q \in Runnables /\ After(p) \cap Runnables = ({q} \cup After(q)) \cap Runnables
        BY <2>2, <2>4 DEF Finds
      <3>2. q \in After(p) /\ After(q) \cap Runnables \subseteq After(p)
        BY <3>1
      <3>3. Runnables \subseteq Seen(n) \cup After(q)
        BY <1>3, <1>4, <1>7, <3>1
      <3>4. ASSUME NEW m \in 0..(n - 1)
            PROVE  /\ Visits[m] \in Runnables /\ q \in After(Visits[m])
                   /\ After(q) \cap Runnables \subseteq After(Visits[m])
        <4>1. CASE m = n - 1
          BY <2>1, <3>2, <4>1
        <4>2. CASE m \in 0..(n - 2)
          <5>1. Visits[m] \in Runnables /\ After(p) \cap Runnables \subseteq After(Visits[m])
            BY <1>4, <1>7, <4>2
          <5>2. QED
            BY <3>1, <3>2, <5>1
        <4>3. QED
          BY <1>5, <4>1, <4>2
      <3>5. QED
        BY <2>4, <3>1, <3>3, <3>4 DEF Walked, Seen, q
    <2>5. QED
      BY <2>3, <2>4
  <1>8. QED
    BY <1>6, <1>7

\* The iterator reaches every runnable step, and none twice, before size + 1 visits.
LEMMA WalkIsComplete ==
    ASSUME HInv, pc = "idle"
    PROVE  IteratorComplete
  <1> DEFINE Reached == {n \in 0..size : Visits[n] # End}
  <1>1. HeapTypeOK /\ size \in Nat
    BY DEF HInv, HeapTypeOK
  <1>2. \A n \in 0..size : Walked(n)
    <2> DEFINE S == {n \in 0..size : Walked(n)}
    <2>1. 0 \in S
      BY <1>1, WalkBegins
    <2>2. ASSUME NEW n \in 1..size, n - 1 \in S PROVE n \in S
      <3>1. n \in 0..size /\ Walked(n - 1)
        BY <1>1, <2>2
      <3>2. QED
        BY <3>1, WalkGoesOn
    <2>3. 0..size \subseteq S
      <3> HIDE DEF S
      <3>1. QED
        BY <1>1, <2>1, <2>2, UpTo
    <2>4. QED
      BY <2>3
  <1>3. ASSUME NEW m \in Reached, NEW n \in Reached, m < n
        PROVE  Visits[m] # Visits[n]
    <2>1. m \in 0..(n - 1) /\ n \in 0..size /\ Visits[n] # End
      BY <1>1, <1>3
    <2>2. Visits[m] \in Slots /\ Visits[n] \in After(Visits[m])
      BY <1>2, <2>1 DEF Walked, Runnables
    <2>3. QED
      BY <1>1, <2>2, LaterApart
  <1>4. \A m, n \in Reached : m # n => Visits[m] # Visits[n]
    <2> SUFFICES ASSUME NEW m \in Reached, NEW n \in Reached, m # n PROVE Visits[m] # Visits[n]
      OBVIOUS
    <2>1. m < n \/ n < m
      BY <1>1
    <2> HIDE DEF Reached
    <2>2. QED
      BY <1>3, <2>1
  <1>5. Visits[size] = End
    <2> SUFFICES ASSUME Visits[size] # End PROVE FALSE
      OBVIOUS
    <2>1. \A n \in 0..size : Visits[n] \in Slots /\ n \in Reached
      <3>1. \A n \in 0..size : n = size \/ n \in 0..(size - 1)
        BY <1>1
      <3>2. Walked(size)
        BY <1>1, <1>2
      <3>3. \A n \in 0..size : Visits[n] \in Runnables
        BY <3>1, <3>2 DEF Walked
      <3>4. End \notin Runnables
        BY <1>1, SlotFacts DEF Runnables, End
      <3>5. QED
        BY <3>3, <3>4 DEF Runnables
    <2> DEFINE f == [n \in 0..size |-> Visits[n]]
    <2>2. f \in [0..size -> Slots]
      BY <2>1
    <2>3. IsFiniteSet(0..size) /\ Cardinality(0..size) = size + 1
      <3>1. IsFiniteSet(0..size) /\ Cardinality(0..size) = IF 0 > size THEN 0 ELSE size - 0 + 1
        BY <1>1, FS_Interval
      <3>2. QED
        BY <1>1, <3>1
    <2>4. IsFiniteSet(Slots) /\ Cardinality(Slots) = size
      <3>1. size - 1 \in Int
        BY <1>1
      <3>2. ASSUME NEW n \in Int
            PROVE  IsFiniteSet(0..n) /\ Cardinality(0..n) = IF 0 > n THEN 0 ELSE n - 0 + 1
        BY FS_Interval
      <3>3. IsFiniteSet(Slots) /\ Cardinality(Slots) = IF 0 > size - 1 THEN 0 ELSE size - 1 - 0 + 1
        BY <3>1, <3>2 DEF Slots
      <3>4. QED
        BY <1>1, <3>3
    <2>5. \A m, n \in 0..size : m # n => f[m] # f[n]
      BY <1>4, <2>1
    <2> HIDE DEF f, Reached
    <2>6. Cardinality(Slots) < Cardinality(0..size)
      BY <1>1, <2>3, <2>4
    <2>7. \E m, n \in 0..size : m # n /\ f[m] = f[n]
      <3>1. PICK D : D = 0..size
        OBVIOUS
      <3>2. PICK g : g = f
        OBVIOUS
      <3>3. /\ IsFiniteSet(D) /\ IsFiniteSet(Slots) /\ Cardinality(Slots) < Cardinality(D)
            /\ g \in [D -> Slots]
        BY <2>2, <2>3, <2>4, <2>6, <3>1, <3>2
      <3>4. \E m, n \in D : m # n /\ g[m] = g[n]
        BY <3>3, FS_PigeonHole
      <3>5. QED
        BY <3>1, <3>2, <3>4
    <2>8. QED
      BY <2>5, <2>7
  <1>6. {Visits[n] : n \in Reached} = Runnables
    <2>1. ASSUME NEW n \in Reached PROVE Visits[n] \in Runnables
      BY <1>2 DEF Walked
    <2>2. Runnables \subseteq {Visits[m] : m \in 0..size}
      <3>1. Walked(size)
        BY <1>1, <1>2
      <3>2. QED
        BY <1>5, <3>1 DEF Walked
    <2>3. End \notin Runnables
      BY <1>1, SlotFacts DEF Runnables, End
    <2>4. ASSUME NEW r \in Runnables PROVE r \in {Visits[n] : n \in Reached}
      <3>1. PICK m \in 0..size : Visits[m] = r
        BY <2>2
      <3>2. QED
        BY <2>3, <3>1
    <2> HIDE DEF Reached
    <2>5. QED
      BY <2>1, <2>4
  <1>7. QED
    BY <1>4, <1>6 DEF IteratorComplete, Runnables

\* Whatever re-keyings and removals there were: the iterator over the runnable steps, which
\* turns back at each step that waits, comes to every step that may be scheduled now, and
\* to each of them once.
THEOREM IteratorIsComplete == HeapSpec => []IteratorComplete
  <1>1. HInv => IteratorComplete
    <2>1. CASE pc = "idle"
      BY <2>1, WalkIsComplete
    <2>2. CASE pc # "idle"
      BY <2>2 DEF IteratorComplete
    <2>3. QED
      BY <2>1, <2>2
  <1>2. QED
    BY <1>1, HeapInvariant, PTL
=============================================================================
