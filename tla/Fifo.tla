--------------------------------- MODULE Fifo ---------------------------------
(***************************************************************************)
(* FifoScheduler::BuildSchedule                                            *)
(* (tile/platform/local_machine/fifo_scheduler.cc): from the kernels of a  *)
(* program to an ordered list of steps whose values share memory.          *)
(*                                                                         *)
(* The scheduler replays the device.  Steps are pending, then running,     *)
(* then retired; a loc is a piece of memory, a value is the contents of    *)
(* one alloc of the program.  A turn of the loop schedules the best of the *)
(* runnable steps or retires the oldest running one.  The heap of pending  *)
(* steps is FifoHeap; here it is a set, which the planner sees in any      *)
(* order.  AddDeps is ScheduleDeps; here its result is the order of the    *)
(* steps that conflict.                                                    *)
(***************************************************************************)
EXTENDS Integers, SequencesExt, FiniteSetsExt

CONSTANTS
    Programs,           \* the programs: see IsProgram
    SizeGoals,          \* memory that may be used
    Alignment,
    GoalGroups,         \* goal_groups_
    MaxInputDeltatime,  \* kMaxInputDeltatime
    Wrap,               \* bound: running_groups counts modulo Wrap, in the code 2^64
    NoAlloc

ASSUME FifoAssumption ==
    /\ SizeGoals \subseteq Nat
    /\ Alignment \in Nat \ {0}
    /\ GoalGroups \in Nat \ {0, 1}
    /\ MaxInputDeltatime \in Nat
    /\ Wrap \in Nat \ {0}

VARIABLES
    program,
    size_goal,
    locs,           \* Build::locs, by the order of their creation
    value_locs,     \* where the values are that have been written
    free_locs,      \* the multimap, as a sequence in the order of sizes
    refs,           \* alloc_refcounts
    mem_available,
    memtime,        \* current_memtime
    running_groups,
    pending,
    scheduled,
    running,        \* position in scheduled of the first step that has not retired
    phase,          \* where BuildSchedule is
    result          \* what it returns

fifoVars == <<program, size_goal, locs, value_locs, free_locs, refs, mem_available, memtime,
              running_groups, pending, scheduled, running, phase, result>>

-----------------------------------------------------------------------------
(* The program as ToScheduleSteps gives it.  kernels is a sequence; allocs  *)
(* are temporaries, program inputs, consumed program inputs or outputs.     *)

Roles == {"tmp", "input", "consumed", "output"}

Allocs == DOMAIN program.role
Size(a) == program.size[a]
IsTmp(a) == program.role[a] = "tmp"
IsInput(a) == program.role[a] \in {"input", "consumed"}
IsOutput(a) == program.role[a] = "output"

\* PushSyntheticFinalOutputStep: a step behind the kernels reads what is to survive; its
\* kidx is 0, so that it counts as many work groups as the first kernel.
Final == Len(program.kernels) + 1
Steps == 1..Final
StepOf(p) ==
    IF p = Final
    THEN [inputs |-> {a \in Allocs : ~IsTmp(a) /\ program.role[a] # "consumed"},
          outputs |-> <<>>, zero |-> FALSE, groups |-> program.kernels[1].groups]
    ELSE program.kernels[p]

Inputs(p) == StepOf(p).inputs
Outputs(p) == ToSet(StepOf(p).outputs)
IsZero(p) == StepOf(p).zero

\* most_recent_writers when InitStep gets to step p, 0 if there is none
MostRecentWriter(a, p) == Max({0} \cup {q \in 1..(p - 1) : a \in Outputs(q)})

\* Mutant: an update does not wait for the value it updates.
DependenciesOfInputs(p) == {MostRecentWriter(a, p) : a \in {b \in Inputs(p) : ~IsInput(b)}}

\* the steps p waits for: the last writers of what it reads, and of what it updates
\* unless they are zero steps
Dependencies(p) ==
    {MostRecentWriter(a, p) : a \in {b \in Inputs(p) : ~IsInput(b)}}
        \cup {q \in {MostRecentWriter(a, p) : a \in Outputs(p)} : q # 0 /\ ~IsZero(q)}

\* Mutant: the zero steps are forgotten.
ZeroInputsNone(p) == <<>>

\* PendingStep::zero_inputs, the outputs of p that a zero step is to clear first
IsCleared(a, p) == MostRecentWriter(a, p) # 0 /\ IsZero(MostRecentWriter(a, p))
ZeroInputs(p) ==
    LET outs == StepOf(p).outputs
        zeros[k \in 0..Len(outs)] ==
          IF k = 0 THEN <<>>
          ELSE IF IsCleared(outs[k], p) THEN Append(zeros[k - 1], outs[k]) ELSE zeros[k - 1]
    IN zeros[Len(outs)]

\* PendingStep::distance
KernelDistance(p) == IF IsZero(p) THEN 1 ELSE StepOf(p).groups
Distance ==
    LET dist[p \in Steps] ==
          KernelDistance(p) + Max({0} \cup {dist[q] : q \in {r \in (p + 1)..Final : p \in Dependencies(r)}})
    IN dist
WorkGroups(p) == Min({KernelDistance(p), GoalGroups})

-----------------------------------------------------------------------------
(* What BuildSchedule takes for granted of a program: it is composed from    *)
(* its outputs backwards, and a value is complete before it is read.         *)

KernelStep == [inputs : SUBSET Allocs, outputs : Seq(Allocs), zero : BOOLEAN, groups : Nat \ {0}]

IsProgram ==
    /\ IsFiniteSet(Allocs) /\ NoAlloc \notin Allocs
    /\ program.role \in [Allocs -> Roles] /\ program.size \in [Allocs -> Nat \ {0}]
    /\ program.kernels \in Seq(KernelStep) /\ program.kernels # <<>>
    /\ \A p \in 1..(Final - 1) :
          /\ IsInjective(StepOf(p).outputs)
          /\ Inputs(p) \cap Outputs(p) = {}
          /\ \A a \in Outputs(p) : ~IsInput(a)
          /\ Outputs(p) \cap UNION {Inputs(q) \cup Outputs(q) : q \in (p + 1)..Final} # {}
          /\ IsZero(p) =>
                /\ Inputs(p) = {} /\ Len(StepOf(p).outputs) = 1
                /\ \A a \in Outputs(p) : MostRecentWriter(a, p) = 0
                /\ Outputs(p) \subseteq UNION {Outputs(q) : q \in (p + 1)..(Final - 1)}
    /\ \A p \in Steps : \A a \in Inputs(p) :
          ~IsInput(a) => MostRecentWriter(a, p) # 0 /\ \A q \in p..(Final - 1) : a \notin Outputs(q)

-----------------------------------------------------------------------------
(* InitStep: the worst-case locs                                            *)

AlignUp(size) == ((size + Alignment - 1) \div Alignment) * Alignment

\* Mutant: the result is dropped.
ReduceByNothing(mem, used) == mem

ReduceBy(mem, used) == mem - Min({mem, used})

NewLoc(size, is_io) == [byte_size |-> size, is_io |-> is_io, contents |-> NoAlloc, input |-> NoAlloc, cache |-> 0]

\* The outputs that need memory of their own: all but updates, and those that may take over
\* an input.  Each input is taken over once.
OwnOutputs(p) ==
    LET Take(acc, a) ==
          LET usable == SelectSeq(program.aliases[a], LAMBDA b : b \in acc.reusable)
          IN IF MostRecentWriter(a, p) # 0 THEN [acc EXCEPT !.placed = @ \cup {a}]
             ELSE IF usable = <<>> THEN acc
             ELSE [reusable |-> acc.reusable \ {Head(usable)}, placed |-> acc.placed \cup {a}]
    IN Outputs(p) \ FoldLeft(Take, [reusable |-> Inputs(p), placed |-> {}], StepOf(p).outputs).placed

\* Largest first, then temporaries.
PlacedBefore(a, b) ==
    \/ Size(a) > Size(b)
    \/ Size(a) = Size(b) /\ IsTmp(a) /\ ~IsTmp(b)

FirstOf(A) == CHOOSE a \in A : \A b \in A : ~PlacedBefore(b, a)

\* lit: the loc at the cursor holds the next alloc, is enlarged, or gets a new one in front
PlaceAlloc(acc) ==
    LET a == FirstOf(acc.left)
        list == acc.list
        from == acc.cursor
        fitting == {i \in from..Len(list) : list[i].byte_size <= Size(a)}
        at == IF IsTmp(a) THEN from ELSE Min(fitting \cup {Len(list) + 1})
        fresh == InsertAt(list, at, NewLoc(Size(a), ~IsTmp(a)))
    IN [left |-> acc.left \ {a},
        cursor |-> at + 1,
        list |-> IF at > Len(list) THEN fresh
                 ELSE IF IsTmp(a)
                 THEN IF list[at].byte_size >= Size(a) THEN list
                      ELSE IF list[at].is_io THEN fresh
                      ELSE [list EXCEPT ![at].byte_size = Size(a)]
                 ELSE IF list[at].byte_size = Size(a) THEN [list EXCEPT ![at].is_io = TRUE]
                 ELSE fresh]

PlacedAllocs(p) == Inputs(p) \cup OwnOutputs(p)
InitStepLocs(list, p) ==
    LET placed[k \in 0..Cardinality(PlacedAllocs(p))] ==
          IF k = 0 THEN [left |-> PlacedAllocs(p), cursor |-> 1, list |-> list] ELSE PlaceAlloc(placed[k - 1])
    IN placed[Cardinality(PlacedAllocs(p))].list

WorstCaseLocs ==
    LET worst[p \in 0..Final] == IF p = 0 THEN <<>> ELSE InitStepLocs(worst[p - 1], p)
    IN worst[Final]

InputLoc(a) == [NewLoc(Size(a), TRUE) EXCEPT !.contents = a, !.input = a]

\* multimap::emplace: behind the locs that are as large
FreeLoc(free, list, l) ==
    LET smaller == {i \in DOMAIN free : list[free[i]].byte_size <= list[l].byte_size}
    IN InsertAt(free, Max({0} \cup smaller) + 1, l)

FreeLocs(free, list, order) ==
    LET freed[k \in 0..Len(order)] ==
          IF k = 0 THEN free ELSE FreeLoc(freed[k - 1], list, order[k])
    IN freed[Len(order)]

\* ReduceAvailableMem for each of the locs
AvailableMem(list) ==
    LET available[l \in 0..Len(list)] ==
          IF l = 0 THEN size_goal ELSE ReduceBy(available[l - 1], AlignUp(list[l].byte_size))
    IN available[Len(list)]

\* BuildSchedule up to its loop; the locs of the inputs hold a value
FifoInit ==
    /\ program \in Programs
    /\ IsProgram
    /\ LET worst == WorstCaseLocs
           inputs == SetToSeq({a \in Allocs : IsInput(a)})
       IN /\ locs = worst \o [i \in DOMAIN inputs |-> InputLoc(inputs[i])]
          /\ free_locs = FreeLocs(<<>>, locs, [l \in 1..Len(worst) |-> l])
    /\ value_locs = [a \in {b \in Allocs : IsInput(b)} |-> CHOOSE l \in DOMAIN locs : locs[l].input = a]
    /\ size_goal \in SizeGoals
    /\ mem_available = AvailableMem(locs)
    /\ refs = [a \in Allocs |-> Cardinality({p \in Steps : a \in Inputs(p)})
                                + (IF a \in Inputs(Final) THEN 1 ELSE 0)]
    /\ memtime = 0
    /\ running_groups = 0
    /\ pending = {p \in Steps : ~IsZero(p)}
    /\ scheduled = <<>>
    /\ running = 1
    /\ phase = "schedule"
    /\ result = <<>>

-----------------------------------------------------------------------------
(* StepPlan *)

\* Mutant: program outputs, too, take the next larger loc.
FitsLarger(a, have, want) == have >= want

\* temporaries take a loc that is large enough, program outputs one of their size
Fits(a, have, want) == IF IsTmp(a) THEN have >= want ELSE have = want

\* Mutant: the loc stays in free_locs.
UseFreeTwice(free, i) == free

\* MarkLocInUse, and used_free_locs_ for the other outputs of the plan
UseFree(free, i) == RemoveAt(free, i)

\* the outputs get their locs one after the other
PlanOutput(plan, a) ==
    LET want == IF IsTmp(a) THEN AlignUp(Size(a)) ELSE Size(a)
        size(i) == plan.locs[plan.free[i]].byte_size
        fits == {i \in DOMAIN plan.free : Fits(a, size(i), want)}
        grows == {i \in DOMAIN plan.free : size(i) < want /\ ~plan.locs[plan.free[i]].is_io}
        i == IF fits # {} THEN Min(fits) ELSE Max(grows)
        l == plan.free[i]
    IN IF a \in DOMAIN value_locs
       THEN [plan EXCEPT !.outputs = Append(@, value_locs[a])]
       ELSE IF fits \cup grows # {}
       THEN [outputs |-> Append(plan.outputs, l),
             locs |-> [plan.locs EXCEPT ![l].contents = a,
                                        ![l].is_io = @ \/ ~IsTmp(a),
                                        ![l].byte_size = IF fits # {} THEN @ ELSE want],
             free |-> UseFree(plan.free, i),
             mem_needed |-> plan.mem_needed + (IF fits # {} THEN 0 ELSE want - size(i))]
       ELSE [outputs |-> Append(plan.outputs, Len(plan.locs) + 1),
             locs |-> Append(plan.locs, [NewLoc(want, FALSE) EXCEPT !.contents = a]),
             free |-> plan.free,
             mem_needed |-> plan.mem_needed + want]

Plan(p) ==
    LET outs == StepOf(p).outputs
        plan[k \in 0..Len(outs)] ==
          IF k = 0 THEN [outputs |-> <<>>, locs |-> locs, free |-> free_locs, mem_needed |-> 0]
          ELSE PlanOutput(plan[k - 1], outs[k])
    IN plan[Len(outs)]

MemNeeded(p) == Plan(p).mem_needed
InputDeltatime(p) == MapThenSumSet(LAMBDA a : memtime - locs[value_locs[a]].cache, Inputs(p))

\* fresher inputs, then the greater distance from the outputs
MoreUrgent(p, q) ==
    \/ InputDeltatime(p) < InputDeltatime(q)
    \/ InputDeltatime(p) = InputDeltatime(q) /\ Distance[p] > Distance[q]

\* Mutant: memory does not count.
MoreUrgentPlan(p, q) == MoreUrgent(p, q)

\* IsBetterPlan
BetterPlan(p, q) ==
    IF mem_available < MemNeeded(q)
    THEN MemNeeded(p) <= mem_available \/ MemNeeded(p) < MemNeeded(q) \/ MoreUrgent(p, q)
    ELSE MemNeeded(p) <= mem_available /\ MoreUrgent(p, q)

-----------------------------------------------------------------------------
(* The loop *)

Retired == {scheduled[i].step : i \in 1..(running - 1)}
Running == running..Len(scheduled)

\* dependency_count is zero.  A zero step resolves nothing when it retires.
Runnable == {p \in pending : Dependencies(p) \subseteq {q \in Retired : ~IsZero(q)}}

\* Mutant: steps that do not fit wait in any case.
EligibleWithinBudget == {p \in Runnable : MemNeeded(p) <= mem_available}

\* while something runs, steps that need more memory than there is or whose inputs are
\* not fresh can wait
Eligible ==
    {p \in Runnable :
        Running # {} => MemNeeded(p) <= mem_available /\ InputDeltatime(p) <= MaxInputDeltatime}

\* the best plan, when the planner sees the steps in the given order
BetterOf(p, q) == IF BetterPlan(p, q) THEN p ELSE q
BestOf(order) ==
    LET best[k \in 0..(Len(order) - 1)] ==
          IF k = 0 THEN order[1] ELSE BetterOf(order[k + 1], best[k - 1])
    IN best[Len(order) - 1]
Best == {BestOf(order) : order \in SetToSeqs(Eligible)}

\* StepPlan::Apply: the zero steps that it needs go first.  running moves only if it is
\* at the end, to the last step put there.
Apply(p) ==
    LET plan == Plan(p)
        At(a) == plan.outputs[CHOOSE i \in DOMAIN plan.outputs : StepOf(p).outputs[i] = a]
        zeros == [i \in DOMAIN ZeroInputs(p) |->
                    [step |-> MostRecentWriter(ZeroInputs(p)[i], p), outputs |-> <<At(ZeroInputs(p)[i])>>]]
        now == memtime + MapThenSumSet(LAMBDA a : locs[value_locs[a]].byte_size, Inputs(p))
        loaded == {value_locs[a] : a \in Inputs(p)}
    IN /\ memtime' = now
       /\ locs' = [l \in DOMAIN plan.locs |->
                      IF l \in loaded THEN [plan.locs[l] EXCEPT !.cache = now] ELSE plan.locs[l]]
       /\ free_locs' = plan.free
       /\ mem_available' = ReduceBy(mem_available, plan.mem_needed)
       /\ pending' = pending \ {p}
       /\ scheduled' = scheduled \o zeros \o <<[step |-> p, outputs |-> plan.outputs]>>
       /\ running' = IF Running = {} THEN Len(scheduled') ELSE running
       /\ running_groups' = (running_groups + WorkGroups(p)) % Wrap

\* ScheduleRunnableStep succeeds; the inner loop goes on while the device has less to do
\* behind the first running step than it can do at once
ScheduleStep ==
    /\ phase = "schedule"
    /\ Eligible # {}
    /\ \E p \in Best : Apply(p)
    /\ phase' = IF GoalGroups <= (running_groups' - WorkGroups(scheduled'[running'].step)) % Wrap
                THEN "retire" ELSE "schedule"
    /\ UNCHANGED <<program, size_goal, value_locs, refs, result>>

\* ScheduleRunnableStep fails
NothingToSchedule ==
    /\ phase = "schedule"
    /\ Eligible = {}
    /\ phase' = "retire"
    /\ UNCHANGED <<program, size_goal, locs, value_locs, free_locs, refs, mem_available, memtime,
                   running_groups, pending, scheduled, running, result>>

\* the inputs whose last reader p is
Unread(p) == {a \in Inputs(p) : refs[a] = 1}

\* value_locs without the values that nobody reads any more
Forget(values, unread) == [a \in DOMAIN values \ unread |-> values[a]]

\* TryRetireScheduledStep: values that nobody reads any more give up their locs.
Retire ==
    /\ LET ss == scheduled[running]
           written == {locs[l].contents : l \in ToSet(ss.outputs)}
           values == [a \in DOMAIN value_locs \cup written |->
                        IF a \in DOMAIN value_locs THEN value_locs[a]
                        ELSE CHOOSE l \in ToSet(ss.outputs) : locs[l].contents = a]
           unread == Unread(ss.step)
           now == memtime + MapThenSumSet(LAMBDA a : locs[values[a]].byte_size, Outputs(ss.step))
           loaded == {values[a] : a \in Outputs(ss.step)}
       IN /\ value_locs' = Forget(values, unread)
          /\ refs' = [a \in Allocs |-> IF a \in Inputs(ss.step) THEN refs[a] - 1 ELSE refs[a]]
          /\ \E order \in SetToSeqs(unread) :
                free_locs' = FreeLocs(free_locs, locs, [k \in DOMAIN order |-> values[order[k]]])
          /\ memtime' = now
          /\ locs' = [l \in DOMAIN locs |-> IF l \in loaded THEN [locs[l] EXCEPT !.cache = now] ELSE locs[l]]
          /\ running_groups' = (running_groups - WorkGroups(ss.step)) % Wrap
    /\ running' = running + 1
    /\ UNCHANGED <<program, size_goal, mem_available, pending, scheduled, result>>

\* one turn of the loop is over
RetireStep ==
    /\ phase = "retire"
    /\ IF Running # {} THEN Retire
       ELSE UNCHANGED <<program, size_goal, locs, value_locs, free_locs, refs, mem_available, memtime,
                        running_groups, pending, scheduled, running, result>>
    /\ phase' = IF pending = {} THEN "finalize" ELSE "schedule"

-----------------------------------------------------------------------------
(* FinalizeSchedule *)

\* alloc_allocs: where the steps before the k-th one left the value of a
LocAt(a, k) ==
    LET writers == {i \in 1..(k - 1) : a \in Outputs(scheduled[i].step)}
        w == scheduled[Max(writers)]
    IN IF writers = {} THEN CHOOSE l \in DOMAIN locs : locs[l].input = a
       ELSE w.outputs[CHOOSE i \in DOMAIN w.outputs : StepOf(w.step).outputs[i] = a]

\* the last step, taken to be the synthetic one, is popped
FinalSteps ==
    [k \in 1..(Len(scheduled) - 1) |->
        [kernel |-> scheduled[k].step,
         inputs |-> [a \in Inputs(scheduled[k].step) |-> LocAt(a, k)],
         outputs |-> scheduled[k].outputs]]

\* locs that were never given a value are ignored
Finalize ==
    /\ phase = "finalize"
    /\ phase' = "done"
    /\ result' = [steps |-> FinalSteps,
                  allocs |-> {l \in DOMAIN locs : locs[l].contents # NoAlloc},
                  output |-> [a \in {b \in Allocs : IsOutput(b)} |-> value_locs[a]]]
    /\ UNCHANGED <<program, size_goal, locs, value_locs, free_locs, refs, mem_available, memtime,
                   running_groups, pending, scheduled, running>>

Returned == phase = "done" /\ UNCHANGED fifoVars

FifoNext ==
    \/ ScheduleStep \/ NothingToSchedule
    \/ RetireStep
    \/ Finalize
    \/ Returned

FifoSpec == FifoInit /\ [][FifoNext]_fifoVars

-----------------------------------------------------------------------------

\* A loc is free, or holds one value, or is being written by one running step (with the
\* zero step that goes before it), which may be an update of the value it holds.
NoLocShared ==
    /\ IsInjective(free_locs)
    /\ \A i \in Running : \A l \in ToSet(scheduled[i].outputs) :
          /\ l \notin ToSet(free_locs)
          /\ locs[l].contents \in Outputs(scheduled[i].step)
    /\ \A a \in DOMAIN value_locs :
          /\ value_locs[a] \notin ToSet(free_locs)
          /\ locs[value_locs[a]].contents = a

\* "if step S is running, step S+1 will not depend on the completion of S" (the comment at
\* the top of the file): steps that run at the same time touch no common memory, except
\* for a zero step and the one that it clears for.
Touches(i) == {value_locs[a] : a \in Inputs(scheduled[i].step) \cap DOMAIN value_locs} \cup ToSet(scheduled[i].outputs)
InFlightIndependent ==
    \A i, j \in Running : i < j =>
        \/ /\ ToSet(scheduled[i].outputs) \cap Touches(j) = {}
           /\ Touches(i) \cap ToSet(scheduled[j].outputs) = {}
        \/ IsZero(scheduled[i].step) /\ Outputs(scheduled[i].step) \subseteq Outputs(scheduled[j].step)

\* The memory plan is sound at every moment of the replay: no two values, no two steps
\* that may overlap on the device, and no step and a free loc share memory.
MemoryExclusive == NoLocShared /\ InFlightIndependent

\* Every value fits into its loc, and the buffers of the caller, which are bound to the
\* locs of inputs and outputs, have exactly their size.
ValuesFit ==
    \A l \in DOMAIN locs :
        /\ locs[l].contents # NoAlloc =>
              IF IsTmp(locs[l].contents) THEN locs[l].byte_size >= Size(locs[l].contents)
              ELSE locs[l].byte_size = Size(locs[l].contents)
        /\ locs[l].input # NoAlloc => locs[l].byte_size = Size(locs[l].input)

\* As long as memory is said to be left, it is.
TotalSize(list) ==
    LET total[l \in 0..Len(list)] == IF l = 0 THEN 0 ELSE total[l - 1] + list[l].byte_size
    IN total[Len(list)]
BudgetKept == mem_available > 0 => TotalSize(locs) + mem_available <= size_goal

\* IsBetterPlan, "A plan below the memory limit is axiomatically better than one above":
\* the limit is exceeded only if every runnable step would exceed it.
Chosen == Last(scheduled').step
WithinBudgetFirst ==
    [][ScheduleStep => MemNeeded(Chosen) <= mem_available
                       \/ (Running = {} /\ \A p \in Runnable : mem_available < MemNeeded(p))]_fifoVars

\* BuildSchedule's loop ends, whatever the memory is: as long as steps are pending, no turn
\* is empty, so that each one retires a step.
NoEmptyTurn == (phase = "retire" /\ pending # {}) => Running # {}

-----------------------------------------------------------------------------
(* The result                                                               *)

ResultSteps == result.steps
Uses(st) == {st.inputs[a] : a \in DOMAIN st.inputs}
Written(st, l) == StepOf(st.kernel).outputs[CHOOSE i \in DOMAIN st.outputs : st.outputs[i] = l]

\* The memory after a step: for each loc whose value it holds, and the kernels that have
\* contributed to it.
Execute(mem, st) ==
    [l \in DOMAIN mem |->
        IF l \notin ToSet(st.outputs) THEN mem[l]
        ELSE LET a == Written(st, l)
             IN [alloc |-> a,
                 by |-> IF mem[l].alloc = a THEN Append(mem[l].by, st.kernel) ELSE <<st.kernel>>]]

MemoryBefore(k) ==
    LET mem[j \in 0..Len(ResultSteps)] ==
          IF j = 0 THEN [l \in result.allocs |-> [alloc |-> locs[l].input, by |-> <<>>]]
          ELSE Execute(mem[j - 1], ResultSteps[j])
    IN mem[k - 1]

\* the writers of a before p, in the order of the program
WritersBefore(a, p) ==
    LET writers[q \in 0..Final] ==
          IF q = 0 THEN <<>>
          ELSE IF a \in Outputs(q) THEN Append(writers[q - 1], q) ELSE writers[q - 1]
    IN writers[p - 1]

\* the value of a as the program has it when p looks at it
ValueFor(a, p) == [alloc |-> a, by |-> WritersBefore(a, p)]

\* Run one after the other, the steps of the result compute what the kernels compute in
\* the order of the program: each runs once on the right values, partial updates happen in
\* the program's order, the outputs are complete and the inputs that survive are intact.
ComputesProgram ==
    phase = "done" =>
        /\ {ResultSteps[k].kernel : k \in DOMAIN ResultSteps} = 1..(Final - 1)
        /\ Len(ResultSteps) = Final - 1
        /\ \A k \in DOMAIN ResultSteps :
              LET st == ResultSteps[k]
                  mem == MemoryBefore(k)
              IN /\ \A a \in DOMAIN st.inputs : mem[st.inputs[a]] = ValueFor(a, st.kernel)
                 /\ \A l \in ToSet(st.outputs) :
                       LET a == Written(st, l)
                       IN MostRecentWriter(a, st.kernel) # 0 => mem[l] = ValueFor(a, st.kernel)
        /\ LET mem == MemoryBefore(Final)
           IN /\ \A a \in DOMAIN result.output : mem[result.output[a]] = ValueFor(a, Final)
              /\ \A l \in result.allocs :
                    locs[l].input \in Inputs(Final) => mem[l] = ValueFor(locs[l].input, Final)

\* the order that AddDeps makes of the result (see ScheduleDeps): that of the conflicts
ResultConflicts(j) ==
    {i \in 1..(j - 1) :
        \/ ToSet(ResultSteps[i].outputs) \cap (Uses(ResultSteps[j]) \cup ToSet(ResultSteps[j].outputs)) # {}
        \/ Uses(ResultSteps[i]) \cap ToSet(ResultSteps[j].outputs) # {}}
ResultOrder ==
    LET order[j \in 0..Len(ResultSteps)] ==
          IF j = 0 THEN <<>>
          ELSE Append(order[j - 1], ResultConflicts(j) \cup UNION {order[j - 1][i] : i \in ResultConflicts(j)})
    IN order[Len(ResultSteps)]

\* ValidateSchedule, one step: what an alloc holds, who wrote it last and who has used it
\* since
ValidateStep(acc, k) ==
    LET st == ResultSteps[k]
        deps == ResultOrder[k]
        info == acc.info
        read == [l \in DOMAIN info |->
                   IF l \in Uses(st) THEN [info[l] EXCEPT !.accessors = @ \cup {k}] ELSE info[l]]
    IN [info |-> [l \in DOMAIN info |->
                    IF l \in ToSet(st.outputs)
                    THEN [contents |-> Written(st, l), writer |-> k, accessors |-> {k}] ELSE read[l]],
        ok |-> /\ acc.ok
               /\ \A a \in DOMAIN st.inputs :
                     LET l == st.inputs[a]
                     IN info[l].contents = a /\ (locs[l].input # NoAlloc \/ info[l].writer \in deps)
               /\ \A l \in ToSet(st.outputs) :
                     /\ locs[l].input # NoAlloc => program.role[locs[l].input] = "consumed"
                     /\ read[l].accessors \subseteq deps \cup {k}
                     /\ Size(Written(st, l)) <= locs[l].byte_size]

Validated ==
    LET start == [l \in result.allocs |-> [contents |-> locs[l].input, writer |-> 0, accessors |-> {}]]
        after[k \in 0..Len(ResultSteps)] ==
          IF k = 0 THEN [info |-> start, ok |-> TRUE] ELSE ValidateStep(after[k - 1], k)
    IN after[Len(ResultSteps)]

\* ValidateSchedule, which runs on every compiled program, throws on no schedule made here.
ResultValidates ==
    phase = "done" =>
        LET end == Validated
        IN /\ end.ok
           /\ \A a \in DOMAIN result.output : end.info[result.output[a]].contents = a
           /\ \A k, m \in DOMAIN ResultSteps : k # m => ResultSteps[k].kernel # ResultSteps[m].kernel
           /\ Len(ResultSteps) = Len(program.kernels)
=============================================================================
