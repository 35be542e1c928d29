------------------------------- MODULE FifoHeap -------------------------------
(***************************************************************************)
(* The FIFO scheduler's heap of pending steps                              *)
(* (tile/platform/local_machine/fifo_scheduler.cc): InitPendingSteps,      *)
(* ResolveDep, RemovePendingStep and RunnableStepsIterator.                *)
(*                                                                         *)
(* The heap is a vector whose elements know their own position, so that a  *)
(* step in its middle can be re-keyed or removed.  Every turn of the loops *)
(* of ResolveDep and RemovePendingStep is an action; nothing else runs in  *)
(* between, the program counter only gives the loops their invariants.     *)
(***************************************************************************)
EXTENDS Integers

CONSTANTS Steps,    \* the PendingSteps
          NoStep

ASSUME HeapAssumption == NoStep \notin Steps

VARIABLES
    size,       \* pending->size()
    pending,    \* the vector, with positions from 0 as in the code
    loc,        \* PendingStep::loc
    count,      \* PendingStep::dependency_count
    pc,         \* "idle", or the loop: "up" of ResolveDep, "lift" and "sink" of
                \* RemovePendingStep
    cur,        \* ps, the step being placed (in "lift": none, it is being removed)
    gap         \* loc, the position that is being filled

heapVars == <<size, pending, loc, count, pc, cur, gap>>

Slots == 0..(size - 1)
Parent(i) == (i - 1) \div 2
Left(i) == 2 * i + 1
Right(i) == 2 * i + 2

HeapTypeOK ==
    /\ size \in Nat
    /\ pending \in [Slots -> Steps]
    /\ loc \in [Steps -> Nat]
    /\ count \in [Steps -> Nat]
    /\ pc \in {"idle", "up", "lift", "sink"}
    /\ pc \in {"up", "sink"} => cur \in Steps
    /\ pc # "idle" => gap \in Slots
    /\ pc \in {"idle", "lift"} => cur = NoStep

\* PendingStepHeapLess(s, t): t goes before s
Less(s, t) == count[s] > count[t]

\* InitPendingSteps: std::make_heap leaves some arrangement that is a heap.
HeapInit ==
    /\ size \in Nat
    /\ pending \in [Slots -> Steps]
    /\ loc \in [Steps -> Nat]
    /\ \A i \in Slots : loc[pending[i]] = i
    /\ count \in [Steps -> Nat]
    /\ \A i \in Slots \ {0} : ~Less(pending[Parent(i)], pending[i])
    /\ pc = "idle"
    /\ cur = NoStep
    /\ gap = 0

Contains(s) == \E i \in Slots : pending[i] = s

-----------------------------------------------------------------------------
(* ResolveDep *)

ResolveDep(s) ==
    /\ pc = "idle"
    /\ Contains(s)
    /\ count[s] > 0
    /\ count' = [count EXCEPT ![s] = @ - 1]
    /\ pc' = "up"
    /\ cur' = s
    /\ gap' = loc[s]
    /\ UNCHANGED <<size, pending, loc>>

\* cur fits at the gap: it is the root, or cannot be swapped with its parent
StaysBelow == gap # 0 => Less(cur, pending[Parent(gap)])

\* the parent moves down into the gap
BubbleUp ==
    /\ pc = "up"
    /\ ~StaysBelow
    /\ pending' = [pending EXCEPT ![gap] = pending[Parent(gap)]]
    /\ loc' = [loc EXCEPT ![pending[Parent(gap)]] = gap]
    /\ gap' = Parent(gap)
    /\ UNCHANGED <<size, count, pc, cur>>

\* Mutant: the gap keeps what it held.
PlaceForgets ==
    /\ loc' = [loc EXCEPT ![cur] = gap]
    /\ pc' = "idle"
    /\ cur' = NoStep
    /\ gap' = 0
    /\ UNCHANGED <<size, pending, count>>

\* cur is put into the gap
Place ==
    /\ pending' = [pending EXCEPT ![gap] = cur]
    /\ loc' = [loc EXCEPT ![cur] = gap]
    /\ pc' = "idle"
    /\ cur' = NoStep
    /\ gap' = 0
    /\ UNCHANGED <<size, count>>

ResolveEnds ==
    /\ pc = "up"
    /\ StaysBelow
    /\ Place

-----------------------------------------------------------------------------
(* RemovePendingStep *)

\* Mutant: the vector keeps its last element.
Unshrunk == pending

Shrunk == [i \in 0..(size - 2) |-> pending[i]]

\* the step is at the end of the vector
RemoveLast(s) ==
    /\ pc = "idle"
    /\ Contains(s)
    /\ loc[s] = size - 1
    /\ size' = size - 1
    /\ pending' = Shrunk
    /\ UNCHANGED <<loc, count, pc, cur, gap>>

RemoveBegins(s) ==
    /\ pc = "idle"
    /\ Contains(s)
    /\ loc[s] # size - 1
    /\ pc' = "lift"
    /\ gap' = loc[s]
    /\ UNCHANGED <<size, pending, loc, count, cur>>

\* the parent moves down into the gap
Lift ==
    /\ pc = "lift"
    /\ gap # 0
    /\ pending' = [pending EXCEPT ![gap] = pending[Parent(gap)]]
    /\ loc' = [loc EXCEPT ![pending[Parent(gap)]] = gap]
    /\ gap' = Parent(gap)
    /\ UNCHANGED <<size, count, pc, cur>>

\* the last step of the vector is to fill the gap at the root
TakeLast ==
    /\ pc = "lift"
    /\ gap = 0
    /\ pc' = "sink"
    /\ cur' = pending[size - 1]
    /\ loc' = [loc EXCEPT ![pending[size - 1]] = 0]
    /\ size' = size - 1
    /\ pending' = Shrunk
    /\ UNCHANGED <<count, gap>>

Children(i) == {Left(i), Right(i)} \cap Slots

\* is_ge_children
Sunk == \A c \in Children(gap) : ~Less(cur, pending[c])

\* Mutant: the left child is always taken.
PreferredLeft(i) == Left(i)

\* the child that goes before its sibling, the left one if they are equal
Preferred(i) ==
    IF Right(i) \in Slots /\ Less(pending[Left(i)], pending[Right(i)]) THEN Right(i) ELSE Left(i)

Sink ==
    /\ pc = "sink"
    /\ ~Sunk
    /\ LET c == Preferred(gap)
       IN /\ pending' = [pending EXCEPT ![gap] = pending[c]]
          /\ loc' = [loc EXCEPT ![pending[c]] = gap, ![cur] = c]
          /\ gap' = c
    /\ UNCHANGED <<size, count, pc, cur>>

RemoveEnds ==
    /\ pc = "sink"
    /\ Sunk
    /\ Place

-----------------------------------------------------------------------------
HeapNext ==
    \/ \E s \in Steps : ResolveDep(s) \/ RemoveLast(s) \/ RemoveBegins(s)
    \/ BubbleUp \/ ResolveEnds \/ Lift \/ TakeLast \/ Sink \/ RemoveEnds

HeapSpec == HeapInit /\ [][HeapNext]_heapVars

-----------------------------------------------------------------------------
(* RunnableStepsIterator: a walk in pre-order, cut off at the steps that     *)
(* still wait for something                                                 *)

End == -1

\* position p holds a step that may be scheduled now
RunnableAt(p) == p \in Slots /\ count[pending[p]] = 0

\* Mutant: on the way up, the right sibling is always skipped.
ClimbToRoot == [p \in Slots |-> End]

\* from position p, whose descendants have been visited
Climb ==
    LET up[p \in Slots] ==
          IF p = 0 THEN End
          ELSE IF p % 2 = 1 /\ RunnableAt(p + 1) THEN p + 1
          ELSE up[Parent(p)]
    IN up

\* operator++
Advance(p) ==
    IF RunnableAt(Left(p)) THEN Left(p)
    ELSE IF RunnableAt(Right(p)) THEN Right(p)
    ELSE Climb[p]

\* the positions the iterator is at, one after the other
Visits ==
    LET at[n \in 0..size] ==
          IF n = 0 THEN IF RunnableAt(0) THEN 0 ELSE End
          ELSE IF at[n - 1] = End THEN End ELSE Advance(at[n - 1])
    IN at

-----------------------------------------------------------------------------
\* RemovePendingStep's comment, "to preserve the max-heap property": whenever no
\* operation is under way, no step goes before its parent.
HeapOrdered ==
    pc = "idle" => \A i \in Slots \ {0} : ~Less(pending[Parent(i)], pending[i])

\* Every step but the one that is being placed knows where it is, so that the next
\* operation on it finds it: in particular no step is in the heap twice.
Located ==
    \A i \in Slots : (pc = "idle" \/ i # gap) => loc[pending[i]] = i

\* StepPlanner sees every step that may be scheduled now, and each of them once,
\* although the walk turns back at every step that may not.
IteratorComplete ==
    pc = "idle" =>
        LET reached == {n \in 0..size : Visits[n] # End}
        IN /\ {Visits[n] : n \in reached} = {p \in Slots : count[pending[p]] = 0}
           /\ \A m, n \in reached : m # n => Visits[m] # Visits[n]

\* The steps that are in the heap: those in the vector, with the one that is being
\* placed instead of what is left in the gap.
Members ==
    {pending[i] : i \in IF pc = "idle" THEN Slots ELSE Slots \ {gap}}
    \cup (IF pc \in {"up", "sink"} THEN {cur} ELSE {})

Abstract == INSTANCE AbstractPending WITH members <- Members, waits <- count,
                                        busy <- pc # "idle"

\* Every operation acts on the one step it is called for, as it begins; the turns of its
\* loops lose and exchange nothing.
ImplementsPending == Abstract!ASpec
=============================================================================
