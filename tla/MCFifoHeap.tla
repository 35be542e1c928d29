------------------------------ MODULE MCFifoHeap ------------------------------
EXTENDS FifoHeap

CONSTANTS MaxSteps,     \* bound: steps of a program
          MaxCount      \* bound: dependencies of a step

MCSteps == 0..(MaxSteps - 1)

\* Steps differ in nothing but their count: the heap is given as the order in which
\* they are named.
MCInit ==
    /\ size \in 0..MaxSteps
    /\ pending = [i \in Slots |-> i]
    /\ loc = [s \in MCSteps |-> s]
    /\ count \in [MCSteps -> 0..MaxCount]
    /\ \A s \in MCSteps : s \notin Slots => count[s] = 0
    /\ pc = "idle"
    /\ cur = NoStep
    /\ gap = 0
    /\ HeapInit

MCSpec == MCInit /\ [][HeapNext]_heapVars
=============================================================================
