-------------------------- MODULE ScheduleDepsProofs --------------------------
(***************************************************************************)
(* Theorems about ScheduleDeps, for schedules of any length over any       *)
(* allocs.  The step from the transitive dependencies, which AddDeps keeps *)
(* as it goes, to the reduced ones, which the schedule gets, is an         *)
(* induction over the steps; the walk itself carries it (Chain, HasLast).  *)
(***************************************************************************)
EXTENDS ScheduleDeps, TLAPS

Before == \A j \in Done : transitive_deps[j] \subseteq 1..(j - 1) /\ deps[j] \subseteq transitive_deps[j]

Transitive == \A j \in Done : \A k \in transitive_deps[j] : transitive_deps[k] \subseteq transitive_deps[j]

\* Step i precedes the latest writer of a or is it.
Overtaken(i, a) ==
    /\ latest_writer[a] # NoStep
    /\ i \in transitive_deps[latest_writer[a]]

\* BusyInfo::latest_writer
WriterIsLatest == \A a \in Allocs :
    /\ latest_writer[a] \in 0..n
    /\ latest_writer[a] # NoStep => a \in steps[latest_writer[a]].outputs
    /\ \A i \in Done : a \in steps[i].outputs => i = latest_writer[a] \/ Overtaken(i, a)

\* BusyInfo::active_readers
ReadersAreActive == \A a \in Allocs :
    /\ \A i \in active_readers[a] : i \in Done /\ a \in Reads(steps[i])
    /\ \A i \in Done : a \in Reads(steps[i]) => i \in active_readers[a] \/ Overtaken(i, a)

ConflictsKnown == \A i, j \in Done : (i < j /\ Conflict(i, j)) => i \in transitive_deps[j]

NoneImplied == \A j \in Done : \A d, e \in deps[j] : d \notin transitive_deps[e]

\* A set that holds what each of its steps depends on, by the map D
Closed(D, S) == \A k \in S \cap Done : D[k] \subseteq S

\* Such a set holds what its steps depend on transitively.
Chain == \A S \in SUBSET Sidx : Closed(deps, S) => Closed(transitive_deps, S)

\* A set of steps has a last one.
HasLast == \A T \in SUBSET Done : T # {} => \E m \in T : \A x \in T : x <= m

DInv ==
    /\ DepsTypeOK /\ Before /\ Transitive
    /\ WriterIsLatest /\ ReadersAreActive /\ ConflictsKnown
    /\ OnlyConflicts /\ NoneImplied /\ Chain /\ HasLast

-----------------------------------------------------------------------------
(* What a turn of the loop does *)

\* The values of the turn at step n + 1: only that step changes.
LEMMA WalkFacts ==
    ASSUME DepsTypeOK, NEW s \in StepKinds, Walk(s)
    PROVE  /\ n \in Nat /\ n + 1 \in Sidx /\ Done \subseteq Sidx
           /\ n' = n + 1 /\ Done' = Done \cup {n + 1} /\ n + 1 \notin Done
           /\ steps'[n + 1] = s /\ \A j \in Done : steps'[j] = steps[j]
           /\ deps'[n + 1] = Needed(Direct(s)) /\ \A j \in Done : deps'[j] = deps[j]
           /\ transitive_deps'[n + 1] = Direct(s) \cup Implied(Direct(s))
           /\ \A j \in Done : transitive_deps'[j] = transitive_deps[j]
  <1>1. n \in Nat /\ N \in Nat /\ n' = n + 1 /\ n < N
    BY DepsAssumption DEF DepsTypeOK, Walk
  <1>2. n + 1 \in Sidx /\ Done \subseteq Sidx /\ Done' = Done \cup {n + 1} /\ n + 1 \notin Done
    BY <1>1 DEF Sidx, Done
  <1>3. /\ steps' = [steps EXCEPT ![n + 1] = s]
        /\ deps' = [deps EXCEPT ![n + 1] = Needed(Direct(s))]
        /\ transitive_deps' = [transitive_deps EXCEPT ![n + 1] = Direct(s) \cup Implied(Direct(s))]
    BY DEF Walk
  <1>4. /\ steps \in [Sidx -> StepKinds]
        /\ deps \in [Sidx -> SUBSET Sidx] /\ transitive_deps \in [Sidx -> SUBSET Sidx]
    BY DEF DepsTypeOK
  <1>5. \A j \in Done : j \in Sidx /\ j # n + 1
    BY <1>2
  <1>6. QED
    BY <1>1, <1>2, <1>3, <1>4, <1>5

\* The direct dependencies are earlier steps, and each of them conflicts with the new one.
LEMMA DirectFacts ==
    ASSUME DepsTypeOK, WriterIsLatest, ReadersAreActive, NEW s \in StepKinds, NEW d \in Direct(s)
    PROVE  /\ d \in Done
           /\ \/ steps[d].outputs \cap (Reads(s) \cup s.outputs) # {}
              \/ Reads(steps[d]) \cap s.outputs # {}
  <1>1. n \in Nat /\ s.inputs \subseteq Allocs /\ s.outputs \subseteq Allocs /\ s.inputs \cap s.outputs = {}
    BY DEF DepsTypeOK, StepKinds
  <1>2. CASE d \in Writers(Reads(s) \cup s.outputs)
    <2>1. PICK a \in Reads(s) \cup s.outputs : d = latest_writer[a] /\ d # NoStep
      BY <1>2 DEF Writers
    <2>2. a \in Allocs
      BY <1>1, <2>1 DEF Reads
    <2>3. d \in 0..n /\ a \in steps[d].outputs
      BY <2>1, <2>2 DEF WriterIsLatest
    <2>4. d \in Done
      BY <1>1, <2>1, <2>3 DEF Done, NoStep
    <2>5. QED
      BY <2>1, <2>3, <2>4
  <1>3. CASE d \in UNION {ReadersWith(s)[a] : a \in s.outputs}
    <2>1. PICK a \in s.outputs : d \in ReadersWith(s)[a]
      BY <1>3
    <2>2. a \in Allocs /\ a \notin Reads(s)
      BY <1>1, <2>1 DEF Reads
    <2>3. d \in active_readers[a]
      BY <2>1, <2>2 DEF ReadersWith
    <2>4. QED
      BY <2>1, <2>2, <2>3 DEF ReadersAreActive
  <1>4. QED
    BY <1>2, <1>3 DEF Direct

\* What the new step depends on, all in all.
LEMMA AllFacts ==
    ASSUME DInv, NEW s \in StepKinds, NEW k \in Direct(s) \cup Implied(Direct(s))
    PROVE  k \in Done /\ transitive_deps[k] \subseteq Implied(Direct(s))
  <1>1. n \in Nat /\ \A d \in Direct(s) : d \in Done
    BY DirectFacts DEF DInv, DepsTypeOK
  <1>2. CASE k \in Direct(s)
    BY <1>1, <1>2 DEF Implied
  <1>3. CASE k \in Implied(Direct(s))
    <2>1. PICK d \in Direct(s) : k \in transitive_deps[d]
      BY <1>3 DEF Implied
    <2>2. d \in Done /\ k \in 1..(d - 1) /\ transitive_deps[k] \subseteq transitive_deps[d]
      BY <1>1, <2>1 DEF DInv, Before, Transitive
    <2>3. k \in Done
      BY <1>1, <2>2 DEF Done
    <2>4. QED
      BY <2>1, <2>2, <2>3 DEF Implied
  <1>4. QED
    BY <1>2, <1>3

-----------------------------------------------------------------------------
(* The parts of the invariant *)

LEMMA WalkKeepsType ==
    ASSUME DInv, NEW s \in StepKinds, Walk(s)
    PROVE  DepsTypeOK'
  <1>1. DepsTypeOK
    BY DEF DInv
  <1>2. n + 1 \in Sidx /\ Done \subseteq Sidx /\ n \in Nat /\ N \in Nat /\ n + 1 \in 0..N
    BY <1>1, WalkFacts, DepsAssumption DEF Sidx
  <1>3. \A k \in Direct(s) \cup Implied(Direct(s)) : k \in Sidx
    BY <1>2, AllFacts
  <1>4. /\ deps' \in [Sidx -> SUBSET Sidx]
        /\ transitive_deps' \in [Sidx -> SUBSET Sidx]
        /\ steps' \in [Sidx -> StepKinds] /\ n' \in 0..N /\ thrown' \in BOOLEAN
    BY <1>1, <1>2, <1>3 DEF Walk, DepsTypeOK, Needed
  <1>5. latest_writer' \in [Allocs -> 0..N]
    BY <1>1, <1>2 DEF Walk, DepsTypeOK, WriterAfter
  <1>6. active_readers' \in [Allocs -> SUBSET Sidx]
    BY <1>1, <1>2 DEF Walk, DepsTypeOK, ReadersAfter, ReadersWith
  <1>7. dataflow' \in [Sidx -> SUBSET Sidx]
    <2>1. PICK D \in DataflowChoices(s) : dataflow' = [dataflow EXCEPT ![n + 1] = D]
      BY DEF Walk
    <2>2. \A A \in SUBSET Allocs : Writers(A) \subseteq Sidx
      BY <1>1, <1>2 DEF DepsTypeOK, Writers, NoStep, Sidx
    <2>3. D \subseteq Sidx
      BY <2>1, <2>2 DEF DataflowChoices, DataflowOf, StepKinds, Reads
    <2>4. QED
      BY <1>1, <1>2, <2>1, <2>3 DEF DepsTypeOK
  <1>8. returned' \in BOOLEAN
    BY <1>1 DEF Walk, DepsTypeOK, Returns
  <1>9. QED
    BY <1>4, <1>5, <1>6, <1>7, <1>8 DEF DepsTypeOK

LEMMA WalkKeepsOrder ==
    ASSUME DInv, NEW s \in StepKinds, Walk(s)
    PROVE  Before' /\ Transitive'
  <1>1. /\ n \in Nat /\ Done' = Done \cup {n + 1} /\ n + 1 \notin Done
        /\ deps'[n + 1] = Needed(Direct(s)) /\ \A j \in Done : deps'[j] = deps[j]
        /\ transitive_deps'[n + 1] = Direct(s) \cup Implied(Direct(s))
        /\ \A j \in Done : transitive_deps'[j] = transitive_deps[j]
    BY WalkFacts DEF DInv
  <1>2. \A k \in Direct(s) \cup Implied(Direct(s)) : k \in Done /\ transitive_deps[k] \subseteq Implied(Direct(s))
    BY AllFacts
  <1>3. \A j \in Done : transitive_deps[j] \subseteq Done
    BY <1>1 DEF DInv, Before, Done
  <1>4. Before'
    <2>1. Direct(s) \cup Implied(Direct(s)) \subseteq 1..((n + 1) - 1)
      BY <1>1, <1>2 DEF Done
    <2>2. Needed(Direct(s)) \subseteq Direct(s) \cup Implied(Direct(s))
      BY DEF Needed
    <2>3. QED
      BY <1>1, <2>1, <2>2 DEF DInv, Before
  <1>5. Transitive'
    <2>1. ASSUME NEW j \in Done, NEW k \in transitive_deps[j]
          PROVE  transitive_deps'[k] \subseteq transitive_deps'[j]
      <3>1. k \in Done /\ transitive_deps[k] \subseteq transitive_deps[j]
        BY <1>3, <2>1 DEF DInv, Transitive
      <3>2. QED
        BY <1>1, <3>1
    <2>2. ASSUME NEW k \in transitive_deps'[n + 1]
          PROVE  transitive_deps'[k] \subseteq transitive_deps'[n + 1]
      BY <1>1, <1>2, <2>2
    <2>3. QED
      BY <1>1, <2>1, <2>2 DEF Transitive
  <1>6. QED
    BY <1>4, <1>5

LEMMA WalkKeepsWriter ==
    ASSUME DInv, NEW s \in StepKinds, Walk(s)
    PROVE  WriterIsLatest'
  <1>1. /\ n \in Nat /\ Done' = Done \cup {n + 1} /\ n' = n + 1 /\ n + 1 \notin Done
        /\ steps'[n + 1] = s /\ \A j \in Done : steps'[j] = steps[j]
        /\ transitive_deps'[n + 1] = Direct(s) \cup Implied(Direct(s))
        /\ \A j \in Done : transitive_deps'[j] = transitive_deps[j]
    BY WalkFacts DEF DInv
  <1>2. SUFFICES ASSUME NEW a \in Allocs
                 PROVE  /\ latest_writer'[a] \in 0..n'
                        /\ latest_writer'[a] # NoStep => a \in steps'[latest_writer'[a]].outputs
                        /\ \A i \in Done' : a \in steps'[i].outputs => i = latest_writer'[a] \/ Overtaken(i, a)'
    BY DEF WriterIsLatest
  <1>3. /\ latest_writer[a] \in 0..n
        /\ latest_writer[a] # NoStep => a \in steps[latest_writer[a]].outputs
        /\ \A i \in Done : a \in steps[i].outputs => i = latest_writer[a] \/ Overtaken(i, a)
    BY DEF DInv, WriterIsLatest
  <1>4. latest_writer'[a] = IF a \in s.outputs THEN n + 1 ELSE latest_writer[a]
    BY DEF Walk, WriterAfter
  <1>5. CASE a \in s.outputs
    <2>1. latest_writer'[a] = n + 1 /\ n + 1 # NoStep
      BY <1>1, <1>4, <1>5 DEF NoStep
    <2>2. ASSUME NEW i \in Done, a \in steps[i].outputs
          PROVE  i \in Direct(s) \cup Implied(Direct(s))
      <3>1. latest_writer[a] # NoStep
        BY <1>3, <2>2 DEF Overtaken, Done, NoStep
      <3>2. latest_writer[a] \in Direct(s)
        BY <1>5, <3>1 DEF Direct, Writers
      <3>3. QED
        BY <1>3, <2>2, <3>2 DEF Overtaken, Implied
    <2>3. QED
      BY <1>1, <1>5, <2>1, <2>2 DEF Overtaken
  <1>6. CASE a \notin s.outputs
    <2>1. latest_writer'[a] = latest_writer[a]
      BY <1>4, <1>6
    <2>2. latest_writer[a] # NoStep => latest_writer[a] \in Done
      BY <1>1, <1>3 DEF Done, NoStep
    <2>3. QED
      BY <1>1, <1>3, <1>6, <2>1, <2>2 DEF Overtaken
  <1>7. QED
    BY <1>5, <1>6

LEMMA WalkKeepsReaders ==
    ASSUME DInv, NEW s \in StepKinds, Walk(s)
    PROVE  ReadersAreActive'
  <1>1. /\ n \in Nat /\ Done' = Done \cup {n + 1} /\ n' = n + 1 /\ n + 1 \notin Done
        /\ steps'[n + 1] = s /\ \A j \in Done : steps'[j] = steps[j]
        /\ transitive_deps'[n + 1] = Direct(s) \cup Implied(Direct(s))
        /\ \A j \in Done : transitive_deps'[j] = transitive_deps[j]
    BY WalkFacts DEF DInv
  <1>2. SUFFICES ASSUME NEW a \in Allocs
                 PROVE  /\ \A i \in active_readers'[a] : i \in Done' /\ a \in Reads(steps'[i])
                        /\ \A i \in Done' : a \in Reads(steps'[i]) => i \in active_readers'[a] \/ Overtaken(i, a)'
    BY DEF ReadersAreActive, Reads
  <1>3. /\ \A i \in active_readers[a] : i \in Done /\ a \in Reads(steps[i])
        /\ \A i \in Done : a \in Reads(steps[i]) => i \in active_readers[a] \/ Overtaken(i, a)
    BY DEF DInv, ReadersAreActive
  <1>4. /\ latest_writer'[a] = IF a \in s.outputs THEN n + 1 ELSE latest_writer[a]
        /\ active_readers'[a] = IF a \in s.outputs THEN {} ELSE ReadersWith(s)[a]
        /\ ReadersWith(s)[a] = active_readers[a] \cup (IF a \in Reads(s) THEN {n + 1} ELSE {})
    BY DEF Walk, WriterAfter, ReadersAfter, ReadersWith
  <1>5. CASE a \in s.outputs
    <2>1. latest_writer'[a] = n + 1 /\ n + 1 # NoStep /\ active_readers'[a] = {} /\ a \notin Reads(s)
      BY <1>1, <1>4, <1>5 DEF NoStep, StepKinds, Reads
    <2>2. ASSUME NEW i \in Done, a \in Reads(steps[i])
          PROVE  i \in Direct(s) \cup Implied(Direct(s))
      <3>1. CASE i \in active_readers[a]
        BY <1>4, <1>5, <3>1 DEF Direct
      <3>2. CASE Overtaken(i, a)
        <4>1. latest_writer[a] \in Direct(s)
          BY <1>5, <3>2 DEF Direct, Writers, Overtaken
        <4>2. QED
          BY <3>2, <4>1 DEF Overtaken, Implied
      <3>3. QED
        BY <1>3, <2>2, <3>1, <3>2
    <2>3. QED
      BY <1>1, <1>5, <2>1, <2>2 DEF Overtaken
  <1>6. CASE a \notin s.outputs
    <2>1. latest_writer'[a] = latest_writer[a] /\ active_readers'[a] = ReadersWith(s)[a]
      BY <1>4, <1>6
    <2>2. latest_writer[a] # NoStep => latest_writer[a] \in Done
      BY <1>1 DEF DInv, WriterIsLatest, Done, NoStep
    <2>3. \A i \in Done : Overtaken(i, a) => Overtaken(i, a)'
      BY <1>1, <2>1, <2>2 DEF Overtaken
    <2>4. QED
      BY <1>1, <1>3, <1>4, <2>1, <2>3
  <1>7. QED
    BY <1>5, <1>6
LEMMA WalkKeepsConflicts ==
    ASSUME DInv, NEW s \in StepKinds, Walk(s)
    PROVE  ConflictsKnown' /\ OnlyConflicts'
  <1>1. /\ n \in Nat /\ Done' = Done \cup {n + 1} /\ n' = n + 1 /\ n + 1 \notin Done
        /\ steps'[n + 1] = s /\ \A j \in Done : steps'[j] = steps[j]
        /\ deps'[n + 1] = Needed(Direct(s)) /\ \A j \in Done : deps'[j] = deps[j]
        /\ transitive_deps'[n + 1] = Direct(s) \cup Implied(Direct(s))
        /\ \A j \in Done : transitive_deps'[j] = transitive_deps[j]
    BY WalkFacts DEF DInv
  <1>2. \A i, j \in Done : Conflict(i, j)' <=> Conflict(i, j)
    BY <1>1 DEF Conflict, Reads
  <1>3. \A i \in Done : \A j \in {n + 1} :
            Conflict(i, j)' <=> \/ steps[i].outputs \cap (Reads(s) \cup s.outputs) # {}
                                \/ Reads(steps[i]) \cap s.outputs # {}
    BY <1>1 DEF Conflict, Reads
  <1>4. ConflictsKnown'
    <2>1. ASSUME NEW i \in Done, NEW j \in {n + 1}, Conflict(i, j)'
          PROVE  i \in Direct(s) \cup Implied(Direct(s))
      <3>1. ASSUME NEW a \in Reads(s) \cup s.outputs, i = latest_writer[a] \/ Overtaken(i, a)
            PROVE  i \in Direct(s) \cup Implied(Direct(s))
        <4>1. latest_writer[a] # NoStep
          BY <1>1, <2>1, <3>1 DEF Overtaken, Done, NoStep
        <4>2. latest_writer[a] \in Direct(s)
          BY <3>1, <4>1 DEF Direct, Writers
        <4>3. QED
          BY <3>1, <4>2 DEF Overtaken, Implied
      <3>2. s.inputs \subseteq Allocs /\ s.outputs \subseteq Allocs
        BY DEF StepKinds
      <3>3. CASE steps[i].outputs \cap (Reads(s) \cup s.outputs) # {}
        <4>1. PICK a \in Reads(s) \cup s.outputs : a \in steps[i].outputs
          BY <3>3
        <4>2. i = latest_writer[a] \/ Overtaken(i, a)
          BY <3>2, <4>1 DEF DInv, WriterIsLatest, Reads
        <4>3. QED
          BY <3>1, <4>2
      <3>4. CASE Reads(steps[i]) \cap s.outputs # {}
        <4>1. PICK a \in s.outputs : a \in Reads(steps[i])
          BY <3>4
        <4>2. i \in active_readers[a] \/ Overtaken(i, a)
          BY <3>2, <4>1 DEF DInv, ReadersAreActive
        <4>3. CASE i \in active_readers[a]
          <5>1. i \in ReadersWith(s)[a]
            BY <3>2, <4>1, <4>3 DEF ReadersWith
          <5>2. QED
            BY <5>1 DEF Direct
        <4>4. QED
          BY <3>1, <4>2, <4>3
      <3>5. QED
        BY <1>3, <2>1, <3>3, <3>4
    <2>2. \A i \in Done : ~(n + 1 < i)
      BY <1>1 DEF Done
    <2>3. QED
      BY <1>1, <1>2, <2>1, <2>2 DEF DInv, ConflictsKnown
  <1>5. OnlyConflicts'
    <2>1. \A j \in Done : \A d \in deps[j] : d \in Done
      BY <1>1 DEF DInv, Before, Done
    <2>2. \A d \in Needed(Direct(s)) : d \in Done /\ \A j \in {n + 1} : Conflict(d, j)'
      BY <1>3, DirectFacts DEF DInv, Needed
    <2>3. QED
      BY <1>1, <1>2, <2>1, <2>2 DEF DInv, OnlyConflicts
  <1>6. QED
    BY <1>4, <1>5

\* The reduction leaves out nothing: a direct dependency outside of S would, if it is the
\* last one, be implied by one inside of S, and then be in S itself.
LEMMA WalkKeepsChain ==
    ASSUME DInv, NEW s \in StepKinds, Walk(s)
    PROVE  NoneImplied' /\ Chain' /\ HasLast'
  <1>1. /\ n \in Nat /\ Done' = Done \cup {n + 1} /\ n' = n + 1 /\ n + 1 \notin Done
        /\ deps'[n + 1] = Needed(Direct(s)) /\ \A j \in Done : deps'[j] = deps[j]
        /\ transitive_deps'[n + 1] = Direct(s) \cup Implied(Direct(s))
        /\ \A j \in Done : transitive_deps'[j] = transitive_deps[j]
    BY WalkFacts DEF DInv
  <1>2. \A d \in Direct(s) : d \in Done
    BY DirectFacts DEF DInv
  <1>3. \A d \in Done : deps[d] \subseteq Done /\ transitive_deps[d] \subseteq 1..(d - 1)
    BY <1>1 DEF DInv, Before, Done
  <1>4. NoneImplied'
    <2>1. \A d, e \in Needed(Direct(s)) : e \in Done /\ d \notin transitive_deps[e]
      BY <1>2 DEF Needed, Implied
    <2>2. QED
      BY <1>1, <1>3, <2>1 DEF DInv, NoneImplied
  <1>5. HasLast'
    <2>1. SUFFICES ASSUME NEW T \in SUBSET (Done \cup {n + 1}), T # {}
                   PROVE  \E m \in T : \A x \in T : x <= m
      BY <1>1 DEF HasLast
    <2>2. \A x \in T : x <= n + 1
      BY <1>1 DEF Done
    <2>3. CASE n + 1 \in T
      BY <2>2, <2>3
    <2>4. CASE n + 1 \notin T
      <3>1. T \in SUBSET Done
        BY <2>4
      <3>2. QED
        BY <2>1, <3>1 DEF DInv, HasLast
    <2>5. QED
      BY <2>3, <2>4
  <1>6. Chain'
    <2>1. SUFFICES ASSUME NEW S \in SUBSET Sidx, Closed(deps, S)'
                   PROVE  Closed(transitive_deps, S)'
      BY DEF Chain
    <2>2. Closed(deps, S) /\ (n + 1 \in S => Needed(Direct(s)) \subseteq S)
      BY <1>1, <2>1 DEF Closed
    <2>3. Closed(transitive_deps, S)
      BY <2>2 DEF DInv, Chain
    <2>4. ASSUME n + 1 \in S
          PROVE  Direct(s) \subseteq S
      <3>1. SUFFICES ASSUME Direct(s) \ S # {}
                     PROVE  FALSE
        OBVIOUS
      <3>2. Direct(s) \ S \in SUBSET Done
        BY <1>2
      <3>3. PICK m \in Direct(s) \ S : \A x \in Direct(s) \ S : x <= m
        BY <3>1, <3>2 DEF DInv, HasLast
      <3>4. m \in Implied(Direct(s))
        BY <2>2, <2>4, <3>3 DEF Needed
      <3>5. PICK d \in Direct(s) : m \in transitive_deps[d]
        BY <3>4 DEF Implied
      <3>6. d \in Done /\ m \in Done /\ m < d
        BY <1>1, <1>2, <1>3, <3>3, <3>5 DEF Done
      <3>7. d \in S
        BY <1>1, <3>3, <3>6 DEF Done
      <3>8. m \in S
        BY <2>3, <3>5, <3>6, <3>7 DEF Closed
      <3>9. QED
        BY <3>3, <3>8
    <2>5. ASSUME n + 1 \in S
          PROVE  Implied(Direct(s)) \subseteq S
      BY <1>2, <2>3, <2>4, <2>5 DEF Implied, Closed
    <2>6. QED
      BY <1>1, <2>3, <2>4, <2>5 DEF Closed
  <1>7. QED
    BY <1>4, <1>5, <1>6

-----------------------------------------------------------------------------
\* Everything AddDeps knows about the schedule so far is right.
LEMMA DepsInvariant == DepsSpec => []DInv
  <1>1. DepsInit => DInv
    <2> SUFFICES ASSUME DepsInit PROVE DInv
      OBVIOUS
    <2>1. n = 0 /\ Done = {}
      BY DEF DepsInit, Done
    <2>2. DepsTypeOK
      <3>1. Nothing \in StepKinds
        BY DEF Nothing, StepKinds
      <3>2. 0 \in 0..N
        BY DepsAssumption
      <3>3. QED
        BY <3>1, <3>2 DEF DepsInit, DepsTypeOK, NoStep
    <2>3. WriterIsLatest /\ ReadersAreActive
      <3>1. \A a \in Allocs : latest_writer[a] = 0 /\ active_readers[a] = {}
        BY DEF DepsInit, NoStep
      <3>2. WriterIsLatest
        <4>1. 0 \in 0..n /\ \A i \in Done : FALSE
          BY <2>1
        <4>2. QED
          BY <3>1, <4>1 DEF WriterIsLatest, NoStep
      <3>3. ReadersAreActive
        BY <2>1, <3>1 DEF ReadersAreActive
      <3>4. QED
        BY <3>2, <3>3
    <2>4. Before /\ Transitive /\ ConflictsKnown /\ OnlyConflicts /\ NoneImplied
      <3>1. (\A j \in Done : FALSE) /\ (\A i, j \in Done : FALSE)
        BY <2>1
      <3>2. QED
        BY <3>1 DEF Before, Transitive, ConflictsKnown, OnlyConflicts, NoneImplied
    <2>5. \A D, S : Closed(D, S)
      BY <2>1 DEF Closed
    <2>6. Chain /\ HasLast
      BY <2>1, <2>5 DEF Chain, HasLast
    <2>7. QED
      BY <2>2, <2>3, <2>4, <2>6 DEF DInv
  <1>2. DInv /\ [DepsNext]_depsVars => DInv'
    <2> SUFFICES ASSUME DInv, [DepsNext]_depsVars PROVE DInv'
      OBVIOUS
    <2>1. CASE \E s \in StepKinds : Walk(s)
      BY <2>1, WalkKeepsType, WalkKeepsOrder, WalkKeepsWriter, WalkKeepsReaders, WalkKeepsConflicts,
         WalkKeepsChain
      DEF DInv
    <2>2. CASE (\E s \in StepKinds : Throw(s)) \/ UNCHANGED depsVars
      <3>1. UNCHANGED <<steps, n, latest_writer, active_readers, transitive_deps, deps, dataflow, returned>>
        BY <2>2 DEF Throw, depsVars
      <3>2. DepsTypeOK'
        BY <2>2, <3>1 DEF DInv, DepsTypeOK, Throw, depsVars
      <3>3. QED
        BY <3>1, <3>2 DEF DInv, Done, Before, Transitive, WriterIsLatest, ReadersAreActive, Overtaken,
          Reads, ConflictsKnown, Conflict, OnlyConflicts, NoneImplied, Chain, Closed, HasLast
    <2>3. QED
      BY <2>1, <2>2 DEF DepsNext
  <1>3. QED
    BY <1>1, <1>2, PTL DEF DepsSpec

\* The steps that run before j are those in transitive_deps[j].
LEMMA RunsBeforeIsTransitive ==
    ASSUME DInv, NEW j \in Done, NEW i
    PROVE  RunsBefore(deps, i, j) <=> (i = j \/ i \in transitive_deps[j])
  <1>1. n \in Nat /\ Done \subseteq Sidx /\ \A k \in Done : transitive_deps[k] \subseteq Done
    BY DepsAssumption DEF DInv, DepsTypeOK, Before, Done, Sidx
  <1>2. ASSUME i = j \/ i \in transitive_deps[j]
        PROVE  RunsBefore(deps, i, j)
    <2>1. SUFFICES ASSUME NEW S \in SUBSET Done, j \in S, \A k \in S : deps[k] \subseteq S
                   PROVE  i \in S
      BY DEF RunsBefore
    <2>2. S \in SUBSET Sidx /\ Closed(deps, S)
      BY <1>1, <2>1 DEF Closed
    <2>3. Closed(transitive_deps, S)
      BY <2>2 DEF DInv, Chain
    <2>4. QED
      BY <1>2, <2>1, <2>3 DEF Closed
  <1>3. ASSUME RunsBefore(deps, i, j)
        PROVE  i = j \/ i \in transitive_deps[j]
    <2> DEFINE S == {j} \cup transitive_deps[j]
    <2>1. S \in SUBSET Done
      BY <1>1
    <2>2. \A k \in S : deps[k] \subseteq S
      BY <1>1 DEF DInv, Before, Transitive
    <2>3. i \in S
      BY <1>3, <2>1, <2>2 DEF RunsBefore
    <2>4. QED
      BY <2>3
  <1>4. QED
    BY <1>2, <1>3

-----------------------------------------------------------------------------
(* The theorems *)

\* The walk stays inside the schedule.
THEOREM DepsAreTyped == DepsSpec => []DepsTypeOK
  <1>1. DInv => DepsTypeOK
    BY DEF DInv
  <1>2. QED
    BY <1>1, DepsInvariant, PTL

\* Every dependency is on an earlier step, so that launching in order never deadlocks.
THEOREM DepsArePast == DepsSpec => []DepsPointBack
  <1>1. DInv => DepsPointBack
    BY DEF DInv, DepsTypeOK, Before, DepsPointBack, Done
  <1>2. QED
    BY <1>1, DepsInvariant, PTL

\* Any two steps that conflict are ordered by the reduced dependencies.
THEOREM ConflictsAreOrdered == DepsSpec => []ConflictsOrdered
  <1>1. DInv => ConflictsOrdered
    <2> SUFFICES ASSUME DInv, NEW i \in Done, NEW j \in Done, i < j, Conflict(i, j)
                 PROVE  RunsBefore(deps, i, j)
      BY DEF ConflictsOrdered
    <2>1. i \in transitive_deps[j]
      BY DEF DInv, ConflictsKnown
    <2>2. QED
      BY <2>1, RunsBeforeIsTransitive
  <1>2. QED
    BY <1>1, DepsInvariant, PTL

\* No step waits for another one without a reason.
THEOREM DepsAreConflicts == DepsSpec => []OnlyConflicts
  <1>1. DInv => OnlyConflicts
    BY DEF DInv
  <1>2. QED
    BY <1>1, DepsInvariant, PTL

\* No dependency of a step is implied by its others.
THEOREM DepsAreReduced == DepsSpec => []Reduced
  <1>1. DInv => Reduced
    <2> SUFFICES ASSUME DInv, NEW j \in Done, NEW d \in deps[j], NEW e \in deps[j], d # e
                 PROVE  ~RunsBefore(deps, d, e)
      BY DEF Reduced
    <2>1. e \in Done
      BY DEF DInv, DepsTypeOK, Before, Done
    <2>2. d \notin transitive_deps[e]
      BY DEF DInv, NoneImplied
    <2>3. QED
      BY <2>1, <2>2, RunsBeforeIsTransitive
  <1>2. QED
    BY <1>1, DepsInvariant, PTL

-----------------------------------------------------------------------------
(* AddDataflowDeps *)

\* As long as no step overwrites what was read and no input is empty, the dependencies of
\* AddDataflowDeps are the ones from which AddDeps starts.
SameOrder ==
    /\ \A j \in Done : dataflow[j] \subseteq transitive_deps[j]
    /\ \A S \in SUBSET Sidx : Closed(dataflow, S) => Closed(transitive_deps, S)

EInv ==
    /\ returned => \E j \in Done : steps[j].inputs \cap EmptyAllocs # {}
    /\ OnlyForward => SameOrder

LEMMA WalkKeepsSameOrder ==
    ASSUME DInv, EInv, NEW s \in StepKinds, Walk(s)
    PROVE  EInv'
  <1>1. /\ n \in Nat /\ Done' = Done \cup {n + 1} /\ n' = n + 1 /\ n + 1 \notin Done
        /\ n + 1 \in Sidx /\ Done \subseteq Sidx
        /\ steps'[n + 1] = s /\ \A j \in Done : steps'[j] = steps[j]
        /\ transitive_deps'[n + 1] = Direct(s) \cup Implied(Direct(s))
        /\ \A j \in Done : transitive_deps'[j] = transitive_deps[j]
    BY WalkFacts DEF DInv
  <1>2. returned' = (returned \/ Returns(s))
    BY DEF Walk
  <1>3. returned' => \E j \in Done' : steps'[j].inputs \cap EmptyAllocs # {}
    BY <1>1, <1>2 DEF EInv, Returns
  <1>4. ASSUME OnlyForward'
        PROVE  SameOrder'
    <2>1. OnlyForward /\ s.inputs \cap EmptyAllocs = {}
      BY <1>1, <1>4 DEF OnlyForward
    <2>2. \A i \in Done : steps[i].inputs \cap s.outputs = {}
      <3>1. \A i \in Done : i < n + 1
        BY <1>1 DEF Done
      <3>2. QED
        BY <1>1, <1>4, <3>1 DEF OnlyForward
    <2>3. ~returned' /\ s.inputs = Reads(s)
      BY <1>2, <2>1 DEF EInv, OnlyForward, Returns, Reads
    <2>4. \A a \in s.outputs : ReadersWith(s)[a] = {}
      <3>1. s.outputs \subseteq Allocs /\ s.outputs \cap Reads(s) = {}
        BY DEF StepKinds, Reads
      <3>2. \A a \in s.outputs : active_readers[a] = {}
        BY <2>2, <3>1 DEF DInv, ReadersAreActive, Reads
      <3>3. QED
        BY <3>1, <3>2 DEF ReadersWith
    <2>5. DataflowOf(s) = Direct(s)
      BY <2>3, <2>4 DEF DataflowOf, Direct
    <2>6. DataflowChoices(s) = {Direct(s)}
      BY <1>2, <2>3, <2>5 DEF DataflowChoices
    <2>7. dataflow' = [dataflow EXCEPT ![n + 1] = Direct(s)]
      BY <2>6 DEF Walk
    <2>8. dataflow'[n + 1] = Direct(s) /\ \A j \in Done : dataflow'[j] = dataflow[j]
      BY <1>1, <2>7 DEF DInv, DepsTypeOK
    <2>9. SameOrder
      BY <2>1 DEF EInv
    <2>10. \A d \in Direct(s) : d \in Done
      BY DirectFacts DEF DInv
    <2>11. ASSUME NEW S \in SUBSET Sidx, Closed(dataflow, S)'
           PROVE  Closed(transitive_deps, S)'
      <3>1. Closed(dataflow, S) /\ (n + 1 \in S => Direct(s) \subseteq S)
        BY <1>1, <2>8, <2>11 DEF Closed
      <3>2. Closed(transitive_deps, S)
        BY <2>9, <3>1 DEF SameOrder
      <3>3. n + 1 \in S => Implied(Direct(s)) \subseteq S
        BY <2>10, <3>1, <3>2 DEF Implied, Closed
      <3>4. QED
        BY <1>1, <3>1, <3>2, <3>3 DEF Closed
    <2>12. \A j \in Done' : dataflow'[j] \subseteq transitive_deps'[j]
      BY <1>1, <2>8, <2>9 DEF SameOrder
    <2>13. QED
      BY <2>11, <2>12 DEF SameOrder
  <1>5. QED
    BY <1>3, <1>4 DEF EInv

\* Under its condition, the TODO of AddDeps is right: the other schedulers' dependencies
\* order the same steps.
THEOREM DataflowIsTheSame == DepsSpec => []PerformIdentically
  <1>1. DepsInit => EInv
    <2> SUFFICES ASSUME DepsInit PROVE EInv
      OBVIOUS
    <2>1. Done = {} /\ ~returned
      BY DEF DepsInit, Done
    <2>2. \A D, S : Closed(D, S)
      BY <2>1 DEF Closed
    <2>3. QED
      BY <2>1, <2>2 DEF EInv, SameOrder
  <1>2. DInv /\ EInv /\ [DepsNext]_depsVars => EInv'
    <2> SUFFICES ASSUME DInv, EInv, [DepsNext]_depsVars PROVE EInv'
      OBVIOUS
    <2>1. CASE \E s \in StepKinds : Walk(s)
      BY <2>1, WalkKeepsSameOrder
    <2>2. CASE (\E s \in StepKinds : Throw(s)) \/ UNCHANGED depsVars
      <3>1. UNCHANGED <<steps, n, transitive_deps, dataflow, returned>>
        BY <2>2 DEF Throw, depsVars
      <3>2. QED
        BY <3>1 DEF EInv, OnlyForward, SameOrder, Closed, Done
    <2>3. QED
      BY <2>1, <2>2 DEF DepsNext
  <1>3. DInv /\ EInv => PerformIdentically
    <2> SUFFICES ASSUME DInv, EInv, OnlyForward, NEW i \in Done, NEW j \in Done
                 PROVE  RunsBefore(dataflow, i, j) <=> RunsBefore(deps, i, j)
      BY DEF PerformIdentically
    <2>1. n \in Nat /\ Done \subseteq Sidx /\ \A k \in Done : transitive_deps[k] \subseteq Done
      BY DepsAssumption DEF DInv, DepsTypeOK, Before, Done, Sidx
    <2>2. SameOrder
      BY DEF EInv
    <2>3. ASSUME i = j \/ i \in transitive_deps[j]
          PROVE  RunsBefore(dataflow, i, j)
      <3>1. SUFFICES ASSUME NEW S \in SUBSET Done, j \in S, \A k \in S : dataflow[k] \subseteq S
                     PROVE  i \in S
        BY DEF RunsBefore
      <3>2. Closed(transitive_deps, S)
        BY <2>1, <2>2, <3>1 DEF Closed, SameOrder
      <3>3. QED
        BY <2>3, <3>1, <3>2 DEF Closed
    <2>4. ASSUME RunsBefore(dataflow, i, j)
          PROVE  i = j \/ i \in transitive_deps[j]
      <3> DEFINE S == {j} \cup transitive_deps[j]
      <3>1. S \in SUBSET Done
        BY <2>1
      <3>2. \A k \in S : dataflow[k] \subseteq S
        BY <2>1, <2>2 DEF SameOrder, DInv, Transitive
      <3>3. i \in S
        BY <2>4, <3>1, <3>2 DEF RunsBefore
      <3>4. QED
        BY <3>3
    <2>5. QED
      BY <2>3, <2>4, RunsBeforeIsTransitive
  <1>4. QED
    BY <1>1, <1>2, <1>3, DepsInvariant, PTL DEF DepsSpec
=============================================================================
