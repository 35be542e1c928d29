----------------------------- MODULE ScheduleDeps -----------------------------
(***************************************************************************)
(* The dependencies of a schedule: AddDeps of the FIFO scheduler           *)
(* (tile/platform/local_machine/fifo_scheduler.cc), next to                *)
(* AddDataflowDeps of the other schedulers (scheduler.cc).                 *)
(*                                                                         *)
(* Both walk over the steps of a schedule in order.  A step is known by    *)
(* the allocs it reads and writes; the walk is modelled together with the  *)
(* choice of the schedule, one action for each step.                       *)
(***************************************************************************)
EXTENDS Naturals

CONSTANTS Allocs,
          InputAllocs,  \* is_input()
          EmptyAllocs,  \* byte_size = 0
          N             \* steps of the schedule

ASSUME DepsAssumption ==
    /\ InputAllocs \subseteq Allocs
    /\ EmptyAllocs \subseteq Allocs
    /\ N \in Nat

Sidx == 1..N
NoStep == 0

\* What a step may read and write.  A step that updates an alloc in place does not list
\* it as an input.
StepKinds == {s \in [inputs : SUBSET Allocs, outputs : SUBSET Allocs] : s.inputs \cap s.outputs = {}}
Nothing == [inputs |-> {}, outputs |-> {}]

VARIABLES
    steps,          \* the schedule, as far as it has been walked
    n,              \* the number of steps that have been walked
    latest_writer,  \* BusyInfo::latest_writer, of an alloc that is not in the map: none
    active_readers, \* BusyInfo::active_readers
    transitive_deps,
    deps,           \* Step::deps
    dataflow,       \* Step::deps when AddDataflowDeps computes them
    returned,       \* AddDataflowDeps has returned
    thrown          \* AddDeps has thrown error::Internal

depsVars == <<steps, n, latest_writer, active_readers, transitive_deps, deps, dataflow, returned, thrown>>

DepsTypeOK ==
    /\ steps \in [Sidx -> StepKinds]
    /\ n \in 0..N
    /\ latest_writer \in [Allocs -> 0..N]
    /\ active_readers \in [Allocs -> SUBSET Sidx]
    /\ transitive_deps \in [Sidx -> SUBSET Sidx]
    /\ deps \in [Sidx -> SUBSET Sidx]
    /\ dataflow \in [Sidx -> SUBSET Sidx]
    /\ returned \in BOOLEAN
    /\ thrown \in BOOLEAN

DepsInit ==
    /\ steps = [j \in Sidx |-> Nothing]
    /\ n = 0
    /\ latest_writer = [a \in Allocs |-> NoStep]
    /\ active_readers = [a \in Allocs |-> {}]
    /\ transitive_deps = [j \in Sidx |-> {}]
    /\ deps = [j \in Sidx |-> {}]
    /\ dataflow = [j \in Sidx |-> {}]
    /\ returned = FALSE
    /\ thrown = FALSE

-----------------------------------------------------------------------------
(* One turn of AddDeps *)

\* the inputs that count
Reads(s) == s.inputs \ EmptyAllocs

\* the latest writers of the allocs of A
Writers(A) == {latest_writer[a] : a \in A} \ {NoStep}

\* active_readers once step n + 1, which is s, has looked at its inputs
ReadersWith(s) ==
    [a \in Allocs |-> active_readers[a] \cup (IF a \in Reads(s) THEN {n + 1} ELSE {})]

\* Mutant: overwriting does not wait for the readers.
DirectWithoutReaders(s) == Writers(Reads(s) \cup s.outputs)

\* deps: the last writers of what s reads and writes, and the readers of what it writes
Direct(s) == Writers(Reads(s) \cup s.outputs) \cup UNION {ReadersWith(s)[a] : a \in s.outputs}

\* what the steps of D depend on
Implied(D) == UNION {transitive_deps[d] : d \in D}

\* Mutant: nothing is left out.
NeededAll(D) == D

\* std::set_difference: the direct dependencies that no other one implies
Needed(D) == D \ Implied(D)

\* Mutant: a reader becomes the latest writer, too.
WriterAfterEvery(s) ==
    [a \in Allocs |-> IF a \in s.inputs \cup s.outputs THEN n + 1 ELSE latest_writer[a]]

WriterAfter(s) == [a \in Allocs |-> IF a \in s.outputs THEN n + 1 ELSE latest_writer[a]]

\* the first insertion of an alloc, too, leaves it without readers
ReadersAfter(s) == [a \in Allocs |-> IF a \in s.outputs THEN {} ELSE ReadersWith(s)[a]]

\* "Program fails to initialize non-empty temporary"
Uninitialized(s) == \E a \in Reads(s) \ InputAllocs : latest_writer[a] = NoStep

\* Mutant: overwriting does not wait for the earlier writer.
DataflowOfInputs(s) == Writers(s.inputs)

\* AddDataflowDeps: the last writers only
DataflowOf(s) == Writers(s.inputs \cup s.outputs)

\* The whole of AddDataflowDeps returns at an input of no bytes (scheduler.cc:167).
Returns(s) == s.inputs \cap EmptyAllocs # {}

\* what it may find for step n + 1: when it returns, it has got as far as some of the inputs
DataflowChoices(s) ==
    IF returned THEN {{}}
    ELSE IF Returns(s) THEN {Writers(A) : A \in SUBSET Reads(s)}
    ELSE {DataflowOf(s)}

Walk(s) ==
    /\ ~thrown
    /\ n < N
    /\ ~Uninitialized(s)
    /\ n' = n + 1
    /\ steps' = [steps EXCEPT ![n + 1] = s]
    /\ latest_writer' = WriterAfter(s)
    /\ active_readers' = ReadersAfter(s)
    /\ deps' = [deps EXCEPT ![n + 1] = Needed(Direct(s))]
    /\ transitive_deps' = [transitive_deps EXCEPT ![n + 1] = Direct(s) \cup Implied(Direct(s))]
    /\ returned' = (returned \/ Returns(s))
    /\ \E D \in DataflowChoices(s) : dataflow' = [dataflow EXCEPT ![n + 1] = D]
    /\ UNCHANGED thrown

Throw(s) ==
    /\ ~thrown
    /\ n < N
    /\ Uninitialized(s)
    /\ thrown' = TRUE
    /\ UNCHANGED <<steps, n, latest_writer, active_readers, transitive_deps, deps, dataflow, returned>>

DepsNext == \E s \in StepKinds : Walk(s) \/ Throw(s)

DepsSpec == DepsInit /\ [][DepsNext]_depsVars

-----------------------------------------------------------------------------
Done == 1..n

\* Steps i and j may not be exchanged: one of them writes what the other one uses.
Conflict(i, j) ==
    \/ steps[i].outputs \cap (Reads(steps[j]) \cup steps[j].outputs) # {}
    \/ Reads(steps[i]) \cap steps[j].outputs # {}

\* Whoever runs the dependencies D runs i before j: every set of steps that holds j and,
\* with a step, what it depends on, holds i.
RunsBefore(D, i, j) ==
    \A S \in SUBSET Done :
        (j \in S /\ \A k \in S : D[k] \subseteq S) => i \in S

\* The steps of a schedule are launched in order and wait for the events of their
\* dependencies: a step that waited for itself or a later one would wait forever.
DepsPointBack == \A j \in Done : \A d \in deps[j] : d < j

\* Two steps that conflict are ordered, through whatever chain of dependencies.
ConflictsOrdered == \A i, j \in Done : (i < j /\ Conflict(i, j)) => RunsBefore(deps, i, j)

\* Steps that share nothing stay unordered: a dependency is on a step that conflicts.
OnlyConflicts == \A j \in Done : \A d \in deps[j] : Conflict(d, j)

\* No dependency is implied by the others, so that no step waits for an event twice.
Reduced == \A j \in Done : \A d, e \in deps[j] : d # e => ~RunsBefore(deps, d, e)

\* AddDeps's comment on AddDataflowDeps, "They should perform identically for the existing
\* schedulers": where no step writes what an earlier one has read and no input is empty,
\* the two order the same steps.
OnlyForward ==
    /\ \A i, j \in Done : i < j => steps[i].inputs \cap steps[j].outputs = {}
    /\ \A j \in Done : steps[j].inputs \cap EmptyAllocs = {}

PerformIdentically ==
    OnlyForward => \A i, j \in Done : RunsBefore(dataflow, i, j) <=> RunsBefore(deps, i, j)
=============================================================================
