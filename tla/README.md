# A verification of PlaidML's compilers and run time

PlaidML compiles functions of the Tile language into lists of kernels and runs them on
OpenCL, CPU, CUDA or Metal devices. This directory models the part of it in which order,
sharing and failure decide whether results are right: from the C API that makes asynchronous
requests, over the scheduler that orders a program's kernels and lets their values share
memory, to the run time that queues them on an asynchronous device. A second part models how the
operations of a Tile program become these kernels: integer programming over index polynomials,
tiles, threads, shared memory and the code of a kernel, and the execution of that code. A third models
the Stripe compiler: the intermediate representation, its generation from Tile functions, its
interpreter, all of its passes, and the scheduler and placer that give a program's values places
in small and large memories. It holds TLA+ modules,
TLC configurations for small instances, and proofs for TLAPS. `PROJECT.json` maps each
definition to the lines it stands for, and lists the runs, the mutants that show that each
property can fail, the hazards and the theorems.

    tlc -config MCMapBuffer.cfg MCMapBuffer   # a run
    tlapm GateProofs.tla                      # a proof

Paths below are relative to `src/`; `LM` is `tile/platform/local_machine`
and `CG` is `tile/codegen`.

## 1. The system

| Component | State it keeps | Operations | Interacts with |
|---|---|---|---|
| C API (`plaidml/plaidml.cc`, `plaidml/base/context.cc`) | `MapCompletion::invoked_callback_`, contexts | map a buffer, schedule an invocation, cancel and free a context | each request holds a `Rundown` of the context's `Gate`; buffers and programs answer by futures |
| Gate and Rundown (`base/context/gate.cc`) | open flag, list and count of rundowns, promise | enter, leave, close | runs callbacks of the requests outside of its mutex |
| Language (`tile/lang`) | a program under composition, a cache of flat contractions, a file of tile timings | parse, bind, compose, contract, tile, emit | gives `KernelList`s to `Program`; aliases and zero kernels shape the schedule |
| Program cache (`tile/base/program_cache.cc`) | LRU map of entries, each compiled once | get or compile | holds `Program`s |
| FIFO scheduler (`LM/fifo_scheduler.cc`) | heap of pending steps, running and retired steps, locs (future allocs), free locs by size, reference counts, remaining memory | `BuildSchedule` | `ToScheduleSteps` before it, `AddDeps` and `ValidateSchedule` behind it |
| Other schedulers and placers (`LM/loose_scheduler.cc`, ...) | same kind | `BuildSchedule` | not used by the platform |
| Runtime (`LM/run_request.cc`, `shim.cc`, `mem_deps.cc`, `buffer.cc`, `*_mem_strategy.cc`, `mem_cache.cc`) | for each chunk of memory the events that write it and an exception, the chunk of each buffer, the cache of temporaries | run a program, map, write back, free | queues operations with event dependencies; continuations release memory |
| Devices (`tile/hal/{opencl,cpu,cuda,metal}`) | queues, events, allocations | run a kernel, copy, map | call back through futures |
| Event log (`base/context`, `base/eventing`) | a file behind a mutex | log, close | called from everywhere |
| Stripe (`tile/stripe`, `tile/lang/gen_stripe.cc`, `CG/vm.cc`) | a tree of blocks: indexes, constraints, refinements (views of buffers), statements | generate it from a contracted function, interpret it | not on the path of local_machine at this commit; input and output of the passes |
| Stripe passes (`CG/driver.cc`, `alias.cc`, `deps.cc`, `tile.cc`, `autotile.cc`, `fuse.cc`, `localize.cc`, `scalarize.cc`, `cache.cc`, `transpose.cc`, `unroll.cc`, `partition.cc`, `tidy.cc`, `thread_inner.cc`) | none between passes, the tree carries tags | rewrite the tree | a list of passes from a configuration is run in order |
| Stripe scheduler and placer (`CG/schedule.cc`, `CG/placer.cc`) | cache entries by unit, ranges of memory, swaps, dependencies; live ranges of chunks | schedule a block into a small memory, give addresses to its temporaries | the dependencies they leave are all that an asynchronous machine goes by |
| Stripe back ends (`CG/jit.cc`, `CG/emitc.cc`) | | run a block through LLVM, print it as C | |
| Mathematics (`tile/math`, `tile/bilp`) | none | exact arithmetic, linear programming | bounds and ranges of the indexes of a contraction, for `tile/lang` and for Stripe |
| Front ends (`plaidml/*.py`, `plaidml/keras`, `plaidml++.h`) | wrappers | | over the C API |

What makes them hard, and what makes them correct:

* **Cancellation.** A context may be cancelled or freed while requests enter it, complete and
  fail, and destructors block while callbacks run. Correct: each request is answered exactly
  once, nothing runs after the context is gone, nobody waits forever.
* **Schedules.** Values share memory, partial updates are ordered by dependencies, a budget
  has to be respected but never stops progress. Correct: executed in any order that the
  dependencies leave open, a schedule computes what the program says.
* **Asynchronous memory.** Kernels run after `Run` has returned, buffers are remapped while
  they do, temporaries are recycled, and launches and kernels fail half way. Correct: a
  mapping shows the result of the calls in program order, or an error.

* **Kernels.** An operation goes through a dozen rewritings before it is code: constraints are merged,
  indexes made whole, flattened, vectorised, tiled, spread over threads and groups, loaded into shared memory and
  merged; elementwise operations join a contraction and outputs lie on inputs. Correct: whichever tile is chosen and in
  whichever order threads and groups run, the kernels compute what the program means.
* **Rewriting.** A pass is right alone and wrong after another one; views of one buffer alias;
  constraints, overhanging tiles, partial writes and aggregation have to survive each rewriting.
  Correct: the program computes what it did, its dependencies keep every conflicting pair in order (which the code does
  not achieve where a buffer is overwritten in parts, section 6).
* **Memory of a compiled block.** Values are given ranges of a small memory that others are
  using, are swapped out and in, and share addresses when the dependencies say that one is past.
  Correct: executed in any order the dependencies allow, nobody sees memory given away too early.

All components, modelled or not, are in `PROJECT.json` with the reason.

## 2. The modules

| Module | Models | Extends / instantiates |
|---|---|---|
| `AbstractGate` | the class comment of `Gate`: Open, Closed, Finalized | |
| `Gate` | `gate.cc`, critical section by critical section | refines `AbstractGate` |
| `GateProofs` | its theorems | `Gate` |
| `MapBuffer` | map requests and invocations under a context | `Gate` |
| `MapBufferProofs` | its theorems | `MapBuffer`, `GateProofs` |
| `Runtime` | `LM`'s buffers, chunks, shims, run requests, over a device | |
| `RuntimeProofs` | its theorems about who holds memory | `Runtime` |
| `RuntimeOrderProofs` | about the order of operations | `RuntimeProofs` |
| `RuntimeContentsProofs` | about what memory holds | `RuntimeOrderProofs` |
| `AbstractPending` | a set of pending steps with counts | |
| `FifoHeap` | the heap, turn by turn of its loops | refines `AbstractPending` |
| `FifoHeapProofs` | its theorems | `FifoHeap` |
| `ScheduleDeps` | `AddDeps`, `AddDataflowDeps` | |
| `ScheduleDepsProofs` | its theorems | `ScheduleDeps` |
| `Fifo` | `BuildSchedule`, and `ValidateSchedule` of its result | uses `FifoHeap` and `ScheduleDeps` by what they promise |
| `FifoProofs` | its theorems | `Fifo` |
| `Exact` | rationals, polynomials, the matrices and lattices of `tile/math` | |
| `IntegerProgram` | `tile/bilp`: the simplex tableau, Gomory cuts, the batch of objectives | `Exact` |
| `Contraction` | `compile.cc`, `bound.cc`, `reduce.cc`, `defract.cc`, `flat.cc`: from a contraction to loops over flat offsets | `IntegerProgram` |
| `Semtree` | the trees that kernels are made of, what they mean to a thread, the simplifier | `Exact` |
| `KernelPlan` | `loop.cc`, `out_plan.cc`, `read_plan.cc`: loops, groups, threads and loads of a tile | `Semtree` |
| `TileOpt` | `tile_opt.cc`: vectors, the cost of a tile, the search | `KernelPlan` |
| `KernelCode` | `gen_contract.cc`, `gen_trivial.cc`: the code of a kernel | `TileOpt` |
| `Generate` | `generate.cc`: which operations share a kernel, aliases, the cache of flat contractions | `KernelCode`, `Contraction` |
| `Kernel` | a program's kernels on a device, what the program means, the properties | `Generate` |
| `Stripe` | polynomials, blocks, refinements and queries on them | |
| `GenStripe` | `gen_stripe.cc`: the program of a contracted function | `Stripe` |
| `StripeVM` | `vm.cc`: what a program computes | `Stripe` |
| `StripeAlias` | `alias.cc`: which names of a block show the same memory | `Stripe` |
| `StripeDeps` | `deps.cc` | `StripeAlias` |
| `StripeTile` | `tile.cc`, `autotile.cc`, `thread_inner.cc`, and the parts of `partition.cc` that tile | `StripeAlias` |
| `StripeFuse` | `fuse.cc` | `StripeTile` |
| `StripePasses` | the other passes | `StripeFuse` |
| `StripeDriver` | `driver.cc`: a program goes through a list of passes; the properties | all of these |
| `StripeSchedule` | `schedule.cc`: one turn of the scheduler as operators | |
| `StripePlacer` | `placer.cc` | |
| `StripeMemory` | scheduler, dependencies and placer in sequence, and an asynchronous machine that executes the result | `StripeSchedule`, instances of `StripePlacer` and `StripeDeps` |
| `MC*` | instances for TLC | the above |

How they fit together: `MapBuffer` composes its own actions with those of `Gate` (the actions
of a request call `TryEnterGate` and the `Remove*` actions). `Fifo` treats the heap as a set of
steps that the planner sees in any order: `FifoHeap` shows that the heap is such a set
(`ImplementsPending`) and that the planner's iterator visits exactly the steps that wait for
nothing (`IteratorComplete`). `Fifo` takes the dependencies of its result to be the order of
conflicting steps: `ScheduleDeps` proves that this is the order `AddDeps` makes
(`ConflictsOrdered`, `OnlyConflicts`). `Runtime` takes programs with such dependencies as
input and executes them out of order. `Kernel` composes the compiler of the Tile language with a
device that runs threads between barriers: the `aliases` that `Fifo` takes as given are made by `Generate` and tried there. On the Stripe side, `StripeDriver` composes generator,
passes and interpreter, and `StripeMemory` composes scheduler, dependency pass and placer with a
machine.

### Gate

`isOpen`, `rundowns`, `remaining`, `closeComplete` are the members of `Gate`; `promised` counts
`finalized_prom_.set_value()`. `st[r]` is where rundown `r`'s owner is, `pc[c]` where a thread in
`Close()` is. An action is a critical section of `mu_`; the callbacks (`CloseCalls`) and setting
the promise happen between two of them, without the mutex. `RemoveBlocks` is the wait on `cv_`
and `RemoveResumes` the return from it.

### MapBuffer

`api[r]` is the thread that called `plaidml_map_buffer_current` or
`plaidml_schedule_invocation`, `cont[r]` the continuation of the future it made, `canceller` the
requests whose `OnCancel` the closing thread is inside of. These are the three threads that may
answer the user; `InvokeCallback`'s lock is one step (claim `invoked_callback_`), the callback a
second one. `Destroy` and `DestroyEnds` are `~MapCompletion`, which starts with `~Rundown` and may
block there. `freed` is `vai_free_ctx` having returned from the wait on the gate's future.

### Runtime

One application thread calls the API, as the C API asks; the device runs what it was given in
any order that the dependencies allow (`InOrder` makes it an in-order queue), and continuations
run at any time. `chunks` holds the memory chunks that something references, with their `MemDeps`
(`pending`, `ep`); an action that drops the last reference also runs the destructor (`DropTo`),
which returns temporaries to `cache`. `events` are the operations on the device; `mem[h]` is the
identity of the operation that wrote a piece of memory, or `Torn` when it is being written, was
written by an operation that read something wrong, or by one that failed. `chunks[c].want` is a
ghost: the last operation launched to write the chunk, in the order of the application's calls.
`StartRun` is everything `RunRequest::Run` does before the steps (`BuildChunkMap`), `LaunchStep` one
turn of `RunSchedule`'s loop, `LaunchSucceeds` and `LaunchFails` its two ends, `ReleaseShim` the last
continuation. The device (`StartEvent`, `FinishEvent`, `FailEvent`) follows `tile/hal.h` and the CPU
implementation; that is marked external where it has no source.

### FifoHeap

`pending`, `loc`, `count` are the vector, `PendingStep::loc` and `dependency_count`. `ResolveDep` and
`RemovePendingStep` move a gap through the heap: `BubbleUp`, `Lift`, `Sink` are single turns of
their loops, `Place` fills the gap. The iterator is a function of the heap (`RunnableAt`,
`Climb`, `Advance`), followed from the root to its end (`Visits`).

### ScheduleDeps

A turn of the walk over the steps is the action `Walk(s)` for any step `s`, so that all
schedules up to `N` steps are covered; `latest_writer` and `active_readers` are `BusyInfo`;
`transitive_deps` and `deps` are the two results. `dataflow` is what `AddDataflowDeps`, which `AddDeps`'s
comment compares itself to, gives for the same schedule.

### Fifo

The program is a record (`kernels`, `role`, `size`, `aliases`) as `ToScheduleSteps` makes it;
`IsProgram` says what the scheduler takes for granted of it (it is composed from its outputs backwards, values are complete
before they are read) and is a conjunct of `FifoInit`. `FifoInit` is all of `BuildSchedule` up
to its loop, with the worst-case locs of `InitStep`. A `Plan(p)` is a `StepPlan`; `Best` are the plans
that may win, depending on the order in which the heap shows them; `Apply` is `StepPlan::Apply` with
`MovePendingStepToScheduled`. `ScheduleStep` is a successful `ScheduleRunnableStep`,
`NothingToSchedule` a failing one, `RetireStep` is `TryRetireScheduledStep`, `Finalize` is
`FinalizeSchedule`. Zero steps are never pending; they are put before the first step that
accumulates into their output. `ValidateStep`, `Validated` and `ResultValidates` are `ValidateSchedule`.
`ComputesProgram` is the reference definition: the steps of the result are executed on an abstract
memory in which a loc holds the name of a value and the list of the kernels that contributed to it.

Left out of Fifo: `add_dep` and `is_host` of a loc, names and logging. Each input is listed once per
step. The order in which one retired step frees several locs is any order.

### From operations to kernels

`Exact` to `Generate` are operators, one for each function of the source, in the order the compiler calls them. A
rational is a pair in lowest terms, a polynomial a function from names to rationals; numbers
are bounded only where the code bounds them (`Width_` stands for the 2^31 of `ConstrainIndexVarsToInts`). A job is
what `GenerateProgram` is given: the operations, shapes, hardware settings and number of trials. The heap of
`TileOptimize` is a search over a set of tiles in the order of their scores (`BestFirst`), and all code options up to the trials are kept.

`Kernel` runs the result. `made` and `means` are computed in the initial state: the kernels, and the values that the
program has by the definition in docs/writing_tile_code.rst, a sum over all whole numbers in a box for each index.
`Launch` picks a kernel's code, the end of the grid at which its groups start, and where its outputs lie: in
memory of their own or in that of an input that `safe_self_aliases` allows and nobody needs any more. `RunThread` runs one
thread of the group at work up to its next barrier; threads of a group come in any order. A write outside an array or a buffer
sets `stray`. Memory that nobody has written holds `Junk`, which no right result contains.

### Stripe, GenStripe, StripeVM

A block is a record of the members of `stripe::Block`; statements are records with a `kind`. A
polynomial is a function from names to coefficients, the constant under `""`, as in `Polynomial::map_`.
Elements are one byte. Tags are sets. Names of blocks, comments and the order of maps are left out,
except where a pass makes names unique or goes through a map in its order. `ExecuteProgram` is the
interpreter as a recursive operator; where the interpreter would throw or read outside of a buffer the result says
so (`Supported`, `CanLoop`, `InBounds`), and a property that compares two programs compares that too.

### The passes

Each pass is an operator from a program and an option record (the pass' protocol buffer) to a
program, and an action of `StripeDriver` of its own. `Functions` are compiled from Tile, `Programs` are Stripe written by hand, as
`Optimize` takes it and `CG/test/deps.cc` does. A pass goes through the tree in the order the code does (`OnBlocks`), collects
`AliasMap`s on the way down, and rewrites. Where the code can only be applied to some blocks (it throws, or
relies on what an earlier pass has done), an operator named `...Runs` says so. `AnyBlock = FALSE` keeps a pass from
blocks that the code is known to get wrong (section 6); `AnyBlock = TRUE` lets it.

### StripeSchedule, StripePlacer, StripeMemory

`scheduler` is the state of a `Scheduler` object: `order` the statement list, `deps` their dependencies,
`entries` the `CacheEntry`s with their uncovered ranges, `info` the `RefInfo`s, `active` the
`active_affine_entries_` of each unit, `bound` what `StatementBinder` leaves. `Schedule` is one turn of the loop of
`Scheduler::Run`, from the last statement to the first, with any order of placements (the code goes by the addresses of objects).
`FinishSchedule` is the rest of `Run`. `Place` is `PlaceRefinements`. Then the machine: a statement starts
when its dependencies are complete, spoils what it is going to write, and has written when it is complete. Cells hold the number
of the statement whose result they hold, so that a wrong value is a wrong number.

## 3. The runs

| Run | Instance | What it shows |
|---|---|---|
| `map_buffer` | 1 map request, 1 invocation, 1 cancelling and 1 freeing thread | `CallbackAtMostOnce`, `EveryRequestAnswered`, `FreeQuiesces`, `CancelTargetAlive`, `FreeTerminates`; of the gate they meet in: the promise is set only when nothing is inside and no callback is left (`FinalizedIsQuiescent`), its counts are right (`TypeOK`), it is the machine of its class comment (`ImplementsAbstractGate`) |
| `runtime` | 2 buffers, 2 runs of two or three allocs, out of order | `MapSeesLogical`, `NoConflict`, `KernelMemoryHeld` |
| `runtime_faults` | 1 buffer, 2 runs, in order, refused launches and failing kernels | `HalfRunUnreadable`, `EverythingCompletes` |
| `runtime_refused` | a variant of `runtime` | violation: see section 6 |
| `fifo_heap` | all heaps of up to 5 steps with counts 0..2 | `HeapOrdered`, `IteratorComplete`, `ImplementsPending` |
| `schedule_deps` | all schedules of 4 steps over an input, a temporary and an empty temporary | `ConflictsOrdered`, `OnlyConflicts`, `Reduced`, `PerformIdentically` |
| `fifo` | 17280 pairs of a program of three main kernels and a memory goal | `ComputesProgram`, `ResultValidates`, `MemoryExclusive`, `ValuesFit`, `BudgetKept`, `NoEmptyTurn`, `WithinBudgetFirst` |
| `kernel` | 21 programs, two devices | the program returns what it means (`SameValues`), its inputs are not written (`InputsKept`), no thread writes outside an array or buffer (`NothingStray`), names in the code are declared once (`WellScoped`), only a contraction that touches nothing is refused (`RefusesOnlyEmpty`) |
| `kernel_broadcast` | a column added to a matrix, vectors of four | violation: see section 6 |
| `stripe` | four functions and a program that overwrites what it has read, five kinds of lists of passes; 2627 straight blocks | after each pass the program computes what the first one does (`SameResults`), its dependencies order all conflicting statements but those that `deps.cc` forgets, which are described and occur (`OnlyForgottenUnordered`), tiles keep to the limits of the options (`TilesFit`) and are the cheapest (`TileIsCheapest`) |
| `stripe_fuse` | tiles, then banks, then fusion | violation: see section 6 |
| `stripe_memory` | about 2000 small blocks, units of 2 to 5 bytes | `SameOutputs`, `DepsPointBack`, `EntriesDisjoint` |

Every property of a passing run has a mutant: a variant of one definition, defined just before it
and marked `Mutant`, with which TLC finds the property violated.

### Bounds

* `map_buffer`: the requests of a context meet only in the gate, whose behaviour for any number
  of rundowns is proved; one request of each kind shows every race with the two closers.
* `runtime`: `MaxRuns = 2` lets a second run meet the kernels, temporaries and poison of a first one;
  `MaxEvents = 4` are two runs of two kernels, or a run with an unmap; `MaxChunks` is never the
  limit (the buffers' chunks, their replacements and a temporary). The calls are an in-place update with a temporary, one that hands
  the memory of its input to another output while the input's buffer gets new memory, and one with two terminal kernels;
  in `runtime_faults` one whose last step can be refused after the first have been queued. In `runtime` the launches do not
  fail, since the violations of section 6 would hide everything else; in `runtime_faults` they do, and the device is in order so that liveness
  can be checked in minutes. `HalfRunUnreadable` does not need the order: section 4 proves it for any.
* `fifo_heap`: 5 positions have an inner node with two children on both levels and an only child on removal;
  the theorems hold for any size.
* `schedule_deps`: 4 steps are needed for a dependency that is implied by two others.
* `fifo`: sizes 1 and 3 with `Alignment = 2` make raw and aligned sizes differ for both; goals of
  0, 9 and 30 are less than any program needs, about what it needs and more; `GoalGroups = 2` with
  kernels of 1 and 2 work groups lets steps overlap; `MaxInputDeltatime = 3` is exceeded by old
  inputs. `Wrap` stands for 2^64: `running_groups` really goes below zero when a zero step retires
  (fifo_scheduler.cc:266 against 960). One kernel may have a zero step, a later update, both, or a
  second output; inputs may be consumed (and then be taken over).
* `kernel`: products, convolutions, pooling, strides, fractional and reversed indexes, constraints between indexes, an empty contraction, a sum
  by all the threads, `==` and `?:` in a contraction, a default, elementwise operations with several results, reshapes, a
  chain of layers with a kernel found in the cache and memory used again. Sizes of 2 to 7 with four threads have tiles and threads
  that divide a range, overhang it, and have more threads than elements; `Small` has too little shared memory for a whole
  contraction; the CPU's settings have one thread and vectors of four. Elements of inputs are different enough that a wrong element shows.
* `stripe`: the functions are a matrix product, a convolution with a halo and a bias (constraints, a kernel that
  overhangs), a chain of three element-wise operations with a comparison and constants, and a product of which one operand is computed
  first. Sizes 1 to 3 are the smallest at which a tile of 2 divides a size, overhangs it and covers it. The lists: any
  two passes; a split followed by another one and then by unrolling or moving; fusion between splits; tiles that
  are copied, transposed and unrolled; and the list of ten passes that `CG/test/schedule.cc:232` builds for a processor with banks.
  The program of a Tile function never overwrites what it has read, so there are also programs written by hand: `Reuse`, in which one temporary
  serves for two tensors and which goes through the same lists (unrolling splits its reads and writes into parts), and all blocks of three or
  four statements that read, write, update and copy views of a buffer of four elements: two that are disjoint, one that overlaps both, and one that goes through a view of main. With them each clause of
  `Forgotten` is needed: without any one of them, and without counting places as `alias.cc` does, TLC finds `OnlyForgottenUnordered` violated.
* `stripe_memory`: three or four statements over five buffers of one or two bytes; 2 bytes are less than
  most statements need (`ResourceExhausted`), 5 are enough to keep values over a statement that does
  not use them. The families: buffers of different sizes; overlapping views of one buffer; two units; single-assignment blocks of equal sizes, which are also
  executed out of order; blocks that are given dependencies by `deps.cc` and placed without being scheduled.

### Fairness

`map_buffer`: a thread that is inside a library call keeps running, the user's callbacks
return, and the operations inside a gate end; these are what `vai_free_ctx` relies on. Nobody has
to call anything. `runtime_faults`: the thread inside `Run` goes on, the device executes
each operation whose dependencies are final, and ready continuations run: boost's executors and the
devices do this. The scheduler is a sequential program: its progress is stated without fairness, as
`NoEmptyTurn` (each turn of the loop schedules or retires a step) together with TLC's check that it never stops
before it returns; steps are finite, so the loop ends.

The Stripe modules are sequential programs, and the machine of `StripeMemory` is checked for what it can
reach, not for progress: `DepsPointBack` makes the dependencies acyclic, so that it never waits for itself, and TLC checks that it
never stops before `Stopped`.

`CHECK_DEADLOCK FALSE` stands where the system may come to rest: all requests answered, the bounds on
runs reached, no operation called on the heap, the walk at its end.

## 4. What is proved

For every value of the constants that satisfies the named assumptions: `GateAssumption`: finitely
many rundowns and closers; `MapBufferAssumption`: the map requests are some of the rundowns, those who free some of the closers;
`HeapAssumption`: `NoStep` is not a step; `DepsAssumption`: the length of
the schedule is a natural number, and the inputs and empty allocs are allocs; `FifoAssumption`: size goals are natural numbers, alignment and `Wrap` are not
zero, `goal_groups_` is more than one. What a program has to be is no assumption there but a conjunct of `FifoInit` (`IsProgram`). `Runtime` has three: `RuntimeAssumption` gives the
constants their types; `ScheduleAssumption` says of the schedules what `ScheduleDepsProofs` proves `AddDeps` to do (a step waits for the earlier ones
that it conflicts with); `BindingAssumption` says that `Invoker` (plaidml.cc:1554) gives the memory of an input away only if its buffer is the buffer of an
output, too. The bounds `MaxEvents`, `MaxChunks` and `MaxRuns` remain in the guards (`RoomFor`), but may be any number.

* **GateProofs**: `TypeCorrect`, `GateFinalizesOnce`, `GateFinalizesQuiescent`,
  `GateNeverOverDereferenced`, `GateCallbacksLive`, `GateImplements`. None of these invariants is inductive. `IInv` adds that the
  list is what is inside while the gate is open (`OpenInv`), that afterwards the count is the number
  of rundowns inside (`CountInv`), that one closer calls back and only rundowns inside are left to be
  called (`CallingInv`), and that whoever saw the count at zero is alone (`SetterInv`). The
  refinement follows from it: a leaving rundown is a step of the abstract gate, setting the promise
  is its `AbsFinalize`, the rest stutters.
* **MapBufferProofs**: `RequestsImplementGate`, `CallbackCalledOnce`, `CancelledRequestAlive`, `FreedContextQuiescent`. Every step of
  a request or a canceller is a step of `Gate` or leaves it alone (`GateStep`), so that `IInv` holds here and the refinement is inherited.
  On top of it `MapInv` says who may answer: of caller, continuation and canceller at most one is inside the callback, only
  after `invoked_callback_` was claimed, and who has claimed it and left has answered once (`ClaimInv`); the continuation does not
  exist before the caller has launched (`OrderInv`); the rundown is left by the last reference (`LastReferenceInv`);
  a canceller is inside of one request, which the gate has not let go (`CancelInv`). That a destructor does not return in the middle of a callback is this last one with the gate's
  `CallingInv`.
* **RuntimeProofs**: `MemoryIsNotShared`, from `MInv`, which is inductive whether or not launches are refused: dependencies point to earlier operations,
  what is referenced is there, chunks do not share memory, and the memory of a buffer is no temporary. `KernelsKeepTheirMemory`, `MemoryHasOneOwner`, if no launch is refused (`~MayFailLaunch`; the run `runtime_refused` shows that the
  hypothesis is needed). A shim lets go when the terminal operations are finished, and a kernel is
  on the device whose own event is not terminal: `HeldInv` says that an operation which its owner waits for waits for it, itself or through
  operations that are unfinished (`Covered`). Chunks do not share memory, and what is in the cache nobody uses (`HalInv`); the
  memory of a buffer, which kernels may use after their run has been forgotten, never goes to the cache (`TmpInv`).
  What the recursive function `BuildChunkMap` leaves is shown for the first alloc for which it would not hold.
* **RuntimeOrderProofs**: `KernelsDoNotRace`, if moreover the application overwrites nothing that a launched operation has to read (`Polite`), and a buffer that
  is overwritten is bound to one input (`SeparateInputs`; section 6 has both). `OrderInv` says that of two operations that clash on a piece of memory, the later one
  waits for the earlier one, itself or through others that wait or have failed (`Follows`). A new operation waits for what its step names and for what
  its chunks have pending: all that writes the memory of a buffer is pending in its chunk or belongs to the request being queued
  (`RecordInv`), other memory of the request is used by nobody else (`OwnInv`), and mapped memory is left alone (`MapInv`).
  Within a request it is the schedule that orders what clashes (`ReqOrderInv`).
* **RuntimeContentsProofs**: `MappingsShowTheResult`, `NothingIsMisread`, under the same hypotheses; kernels may fail on the device. When the operation that a
  chunk was last launched to be written by is done, its result is in the memory and stays there, as nothing unfinished writes it (`WantInv`, `Settled`);
  what an operation expects to read is there when it starts and until it is finished (`ReadInv`, `Finds`); an operation that failed stays pending in what it
  was to write (`FailInv`), which is why a mapping of it fails instead of showing half of it.
  `RefusedLaunchesAreNotSeen` is about refused launches, on any device and for any application; of the hypotheses only `SeparateInputs` remains. Memory that a
  refused launch has written comes back, through the cache (even while its kernels run: section 6) or because a run
  takes a buffer over. `SInv` says why no mapping sees it: what a request has written is in its own chunks (`UnseenInv`), so that
  poisoning them is enough; what a refused launch has still to run writes no memory that a buffer can show (`CleanInv`: a temporary never becomes
  one); and if the memory of a readable chunk is stale and something was launched to write it, that is still waiting or has failed, and is
  pending in the chunk, or the buffer will not keep the chunk (`Awaits`). This rests on `MInv` and on who is bound to which chunk (`BInv` in `RuntimeOrderProofs`).
  All invariants of the three modules were first
  checked with TLC, `CInv` also with failing kernels, `SInv` also with refused launches out of order.
* **FifoHeapProofs**: `HeapIsOrdered`, `HeapIsLocated`, `HeapIsTyped`, `HeapImplementsPending`, `IteratorIsComplete`. In the
  middle of an operation the heap is out of order at the gap; `HInv` says what stays true there: all else
  is in order, what is above the gap may go above what is below it (`Across`), the step in hand does not
  go below the gap's children in `ResolveDep` (`AboveChildren`) nor above its parent in
  `RemovePendingStep` (`BelowParent`), and it is nowhere else (`InHand`).
  `RemovePendingStep` is right only since it lifts the gap to the root before it sinks the last step.
  The iterator is complete since the heap is in order: nothing below a step that waits is runnable (`NoneBelowWaiting`). What is below a position is the least
  closed set with it (`Below`), what a walk in pre-order has still to see is `After(p)`, and `Advance(p)` is the first runnable step of it, with the rest after it
  (`Finds`); the way up is a recursion over parents of which the proof gives the closed form. The walk ends since it visits no step twice.
* **ScheduleDepsProofs**: `ConflictsAreOrdered`, `DepsAreConflicts`, `DepsAreReduced`, `DepsArePast`, `DepsAreTyped`,
  `DataflowIsTheSame`. `DInv` says that a step that used an alloc is its latest writer, one of its
  active readers, or precedes the latest writer (`WriterIsLatest`, `ReadersAreActive`), so that two steps
  that conflict are in the transitive dependencies (`ConflictsKnown`). That the reduced dependencies imply
  the transitive ones would be an induction over the steps; the walk carries it as a conjunct (`Chain`: a set that is closed under the
  former is closed under the latter), and `HasLast`, that a set of steps has a last one, is carried the same way.
* **FifoProofs**: `Invariant`, `PlanIsExclusive`, `ValuesAlwaysFit`, `MemoryWithinGoal`, `LoopProgresses`, `LimitBeforeUrgency`. `MemoryExclusive` is far from
  inductive: that a step in flight shares nothing with another one depends on who waits for whom, and that a freed loc is not in use on the
  counts of readers. `FifoInv` adds who holds which loc and what the locs hold (`MemoryKept`, `OutputsHeld`), that each step is pending, or scheduled once, or a
  zero step in front of the one it clears for (`StepsOnce`, `StepsOrdered`), that a step is scheduled only when the writers of its
  inputs and the earlier writers of its outputs have retired (`StepsOrdered`), that `refs` counts the readers that have not retired, and one more for what has to
  survive (`ReadersCounted`), and that a value with readers left is known (`ValuesAlive`). TLC checked each of these on the run `fifo` first. Two steps
  in flight then meet on a loc only if one of them has to wait for the other (`RunningIndependent`).
  `NoEmptyTurn` needs that something is runnable when nothing runs: of the pending steps the first one in the program's order waits for retired steps
  only. The plan's loop over outputs, the frees of a retired step, the sums of sizes and the worst-case locs are recursive functions; what they keep is shown for
  all natural numbers up to the length of the list by `UpTo`, which stands on the well-foundedness of finite subsets (`FirstNumber`) and
  takes a set where an induction rule takes a predicate.
  `ScheduleInvariant`, `ScheduleComputes`, `ScheduleValidates` are about the result. `ScheduleInv` adds to `FifoInv` what the entries that are scheduled so far
  would do if they ran one after the other: `Holds(s, locs, a, l, n)` says that after the first n of them the loc l has a (every writer of a wrote it
  there, and what else was written there was followed by a writer of a), and it is closed under appending an entry that leaves l alone. Each entry
  finds its inputs and what it updates where it looks for them (`FindsValues`), after the entries that it depends on and those that wrote its outputs before it in
  the program (`IsInTime`), and writes only locs that fit and that hold no input which is to survive (`IsSafe`). That this goes on holding needs that a value in
  `value_locs`, or the output of a running step, is in its loc (`ValuesHeld`), and that a value which has been given up is never asked for again (`ValuesKept`); no
  loc in use is taken by a plan, by `FifoInv`. None of this speaks of memory or of runs. What `Execute`
  and `ValidateStep` make of the finished schedule are recursions of which the proofs give the closed form: after k entries, l holds what its last writer
  left, with the writers of that value in the program's order (`Content`), and `ValidateSchedule` has recorded the writer and the entries that used l since (`InfoOf`).
  The locs of the result are those of the plan as `FinalizeSchedule` recomputes them (`LocAt`). TLC checked `IsCorrect`, `AreInputsApart`, `ValuesHeld`,
  `ValuesKept` and `ResultKept` on the run `fifo` as well.

## 5. What is only model-checked

Liveness (`EveryRequestAnswered`, `FreeTerminates`, `EverythingCompletes`) is out of the prover's reach.
Of `Runtime` and of `Fifo` every safety property is proved; `Distance` is an arbitrary value to the proofs:
no theorem depends on how urgent a step is. The modules of the Tile and Stripe compilers are recursive over
trees and sequences, which the prover cannot take: they stay with TLC. So does `StripeMemory` (`SameOutputs`,
`DepsPointBack`, `EntriesDisjoint`): it takes the dependencies of a block that is not scheduled from `StripeDeps`,
which reaches the recursive alias maps, and one turn of its scheduler is a chain of folds over sequences, whose
results can only be had by induction over the sequence.

## 6. Where the code and its documentation disagree

* `runtime_refused`: when a step cannot be queued, `RunRequest::Run` drops the shim while earlier steps are on
  the device: temporaries return to the cache and are handed out while a kernel uses them (hal.h:161).
* `stripe_fuse`: the comment at `CG/fuse.cc:243` says "If constraints don't match, fail", but `FuseBlocks` returns true there: its caller takes
  the blocks for fused and erases the second one, whose outputs are then never computed.
* `kernel_broadcast`: `GenContract` (gen_contract.cc:480 and 658) gives elementwise operands the vector width of the output, but `Vectorize` leaves
  an operand that does not run along the vector with width 1: in A[4, 4] + B[4, 1], row i adds the four elements from B[4 i].

Smaller observations that the models take into account, without a run of their own:
`vai_cancel_ctx` may return while a callback that another thread has claimed is still to run (plaidml.cc:392, context.cc:39), base.h:187 says
that callbacks are completed first;
only writers are recorded in `MemDeps`, so that an application that overwrites a buffer which a
launched kernel still has to read changes what the kernel reads (run_request.cc:66 against plaidml.h:541; the runs assume one
that does not, `Polite`); a buffer that is bound to two inputs of a function and to an output becomes two allocs of one piece of memory
(plaidml.cc:1554), whose steps no schedule orders: `NoConflict` and `MapSeesLogical` fail for such calls, and the runs and theorems leave them out (`SeparateInputs`); shim.cc:85 says that a failed launch poisons all output buffers, it poisons the new
chunks, which the buffers were never given; `IsBetterPlan` (fifo_scheduler.cc:507) falls through to
the ages of inputs when it is `lhs` that exceeds the budget by more;
`MemDeps::Poison` replaces the exception that it is said to keep (mem_deps.cc:40); `AddDataflowDeps` returns from the
whole walk at an empty input (scheduler.cc:167); a zero step's work groups are subtracted but never added; a step that reads a zero
step's output directly would wait forever (fifo_scheduler.cc:959), and `FinalizeSchedule` would pop the wrong step if a kernel
that nobody needs came last (691): `IsProgram` excludes both. Outside of the models: `Rundown`'s defaulted move assignment forgets a gate it had entered (gate.h:61), a
callback that destroyed its own rundown would wait for itself (gate.cc:88), `TileCache` keeps a best entry that got worse
(tile_cache.cc:74), `CLMemBuffer::base_` is shared by all mappings of a buffer.

In the compiler of the Tile language (the jobs of `MCKernel` keep clear of the cases that give other values):

* `reduce.cc`, `flat.cc`: an index that only a constraint mentions, once the output polynomials are reduced, loses its range: the sum in
  `O[i + k : 7] = +(I[i + k]), k < 3` counts each element once, although docs/writing_tile_code.rst:187 adds over all valid indices.
* generate.cc:640: the aliases of an output are decided for each operation; a kernel of several groups whose reshaped input an other group
  still reads could be given that input's memory by `BlockPlacement` (`Fifo` only uses aliases for its estimate).
* generate.cc:539 and 675: a reshape of a kernel's input inside of that kernel makes the input itself be taken for an output.
* gen_contract.cc:566: the `index` function uses the place in the tile without that of the tile. Elements that a product or a minimum does not touch are 1 or
  the greatest number; docs/writing_tile_code.rst:207 says zero.
* simplifier.cc folds `||` of two constants as `&&` and drops `!`; `CacheKeyString` omits `index_mapping`; with `use_global` the CPU reads (and drops) elements over
  the edge of a tile; tile_opt.cc:119 divides signed strides by unsigned numbers.

In the Stripe passes (but for `deps.cc`, the actions' guards name the cases; `AnyBlock = TRUE` brings them back):

* `deps.cc` leaves conflicting statements unordered, although stripe.h:103 says that `deps` are "the set of statements within the same Block
  that must complete before this statement is evaluated". A write to a part of a buffer drops all its readers (line 84), so that with a reader of
  `X`, a write to one half of `X` and a write to the other half, the last one does not wait for the reader; of several views that a statement writes
  only the first is kept (line 83); a statement that reads a buffer after having written another part of it (by the order of its refinements)
  does not wait for the writers of what it reads (line 93). `alias.cc` compares views without the accesses of the outer blocks, so it takes views that overlap for disjoint ones, or the
  other way round. `Forgotten` in `StripeDriver` states these cases, the run `stripe` reaches all of them, and
  `OnlyForgottenUnordered` says that its programs have no others; that everything is ordered is false of them.
* `unroll.cc`: indexes with an affine are evaluated as 0, constraints of the unrolled block are dropped, names of views collide.
* `localize.cc`: a buffer moved into a loop that adds to it keeps the sum of the turn before. `cache.cc`: an aggregated output, or a view that overhangs
  its buffer, is copied as a whole. `tidy.cc:18`: `prune_idxs` removes nothing. `tile.cc`: local buffers of a tiled block are lost.
* `gen_stripe.cc`: a tensor that is used twice in a statement gets two refinements of one name. `transpose.cc:31` checks
  the tags of the wrong block; `partition.cc:318` takes the first index that will do; `thread_inner.cc` has its preference inverted.

In the scheduler (`Sane` names the cases; `AnyPlan = TRUE` brings them back):

* `TryMakeFallbackPlan` (schedule.cc:1336) ignores the entries there are: a buffer with a live entry gets a second one, and the swap-in of
  the old one is made after the swap-out was decided on (727 against 829).
* On a machine that runs statements in any order, a statement that uses an entry again, or its late swap-out, is not waited for by writers of memory
  that the entry covered when it was made (938; the comment at 771 says it is).
* Aggregation through a view that was first written through another one is not preceded by a swap-in; two writers of an entry do not wait for each
  other; a partly covered input gets a second swap-in at the end (1026); `SubtractRange` leaves an empty range when a high end is cut off exactly (202).
* `placer.cc`: statements inside of a block count as accessors that wait for nothing, so that buffers that blocks use never share memory.

## 7. What is not modelled, and the plan

The hazards of `PROJECT.json` that have a note and no property are the work list. In this order:

1. **Devices**: `CpuExecutor` (the thread pool in `Executable::Run`), `OclEvent` (callback, self reference and future of an
   `Event`; which events may be left out of a wait list of an in-order queue; the mapped copy), each shown
   to implement the device that `Runtime` assumes.
2. **Language**: composition of functions and types, which make the programs that `Generate` and `Fifo` take.
3. **Program cache**: `LruCache` against an abstract cache, and an entry's two once-flags against each other.
4. **Event log** and `TileCache`'s file.

Each of these becomes a further theorem, or a run that shares an MC module with a present one where the question is the same
(the variants of `Runtime` are candidates to be merged).

Not worth a model: code printers (OpenCL, LLVM, CUDA, Metal), bindings, configuration, vendored code.
