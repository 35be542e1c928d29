---------------------------- MODULE StripeMemory ----------------------------
(***************************************************************************)
(* A block on its way to a machine: scheduled into the small memory of its *)
(* units (schedule.cc), or only given dependencies (deps.cc) if there is   *)
(* none; its temporaries placed in the large memory (placer.cc); and       *)
(* executed, a statement being started when those that its dependencies    *)
(* name are complete (stripe.h).                                           *)
(*                                                                         *)
(* The execution is the judge of the two passes.  A memory cell holds the  *)
(* number of the statement of the program that wrote it, 0 from the        *)
(* beginning, or Junk: while it is being written, when it never was, or    *)
(* when the statement that wrote it did not read what it should.           *)
(***************************************************************************)
EXTENDS StripeSchedule, Functions, TLC

P == INSTANCE StripePlacer
D == INSTANCE StripeDeps

CONSTANTS
  Programs,    \* the programs
  MemBytes,    \* sizes of the memory of a unit
  Alignment,   \* the alignment of both passes
  AnyPlan      \* also plans that the scheduler does not carry out properly

ASSUME MemoryAssumption == MemBytes \subseteq Nat /\ Alignment \in Nat \ {0} /\ AnyPlan \in BOOLEAN

VARIABLES
  program,     \* the block
  inOrder,     \* a synchronous machine: the statements run one after the other
  memBytes,    \* the size of the memory of each unit
  scheduler,   \* the Scheduler
  left,        \* so many of the statements are still to be scheduled; -1 when Run has returned
  offsets,     \* where the temporaries were placed; <<>> before
  cells,       \* the contents of all memory, by address
  running,     \* what the statements that have started have read
  done         \* the statements that are complete

vars == <<program, inOrder, memBytes, scheduler, left, offsets, cells, running, done>>

Junk == -1
NoCells == [a \in {} |-> Junk]

Bases(p) == {p.refs[r].base : r \in DOMAIN p.refs}
Temporary(p, base) == \A r \in DOMAIN p.refs : p.refs[r].base = base => p.refs[r].dir = {}
ElemsOf(p, base) == UNION {ToSet(p.refs[r].elems) : r \in {x \in DOMAIN p.refs : p.refs[x].base = base}}

\* deps.cc: the dependencies of a block that is not scheduled.
View(ref) ==
  [base |-> ref.base, shape |-> ref.elems, access |-> <<>>, location |-> [unit |-> D!Zero],
   extents |-> <<[min |-> Min(ToSet(ref.elems)), max |-> Max(ToSet(ref.elems))]>>]
Named(stmt, Is(_)) == [i \in DOMAIN SelectSeq(stmt.ios, Is) |-> SelectSeq(stmt.ios, Is)[i].ref]
WithDeps(p) ==
  LET special(stmt) == D!Special("", Named(stmt, LAMBDA io : IsReadDir(io.dir)), Named(stmt, LAMBDA io : IsWriteDir(io.dir)))
      block == [D!EmptyBlock EXCEPT !.stmts = [k \in DOMAIN p.stmts |-> special(p.stmts[k])]]
  IN  [NewScheduler(p) EXCEPT !.deps = D!ComputeDeps(block, [info |-> [r \in DOMAIN p.refs |-> View(p.refs[r])]])]

Init ==
  /\ program \in Programs
  /\ inOrder \in (IF program.anyOrder THEN BOOLEAN ELSE {TRUE})
  /\ memBytes \in (IF program.scheduled THEN MemBytes ELSE {0})
  /\ scheduler = (IF program.scheduled THEN NewScheduler(program) ELSE WithDeps(program))
  /\ left = (IF program.scheduled THEN Len(program.stmts) ELSE -1)
  /\ offsets = <<>> /\ cells = NoCells /\ running = NoCells /\ done = {}

-----------------------------------------------------------------------------
(* The scheduler.                                                           *)

\* Plans that the scheduler carries out properly.  Two kinds are not.  A plan that ignores the entries
\* there are leaves the old entry of a ref to a swap-in made too late for the swap-out it waits for, or
\* to nobody.  And parts of a ref are read from and written to the buffer behind it by statements that
\* wait for nobody and that nobody waits for.
Sane(s, plan) ==
  /\ \A x \in plan : x.entry = 0 /\ Continues(s, x.ref) => EarliestWriter(program, x.ref) = 0
  /\ \A x \in plan : ~inOrder /\ x.entry # 0 => \A f \in DOMAIN s.entries :
       RangesOverlap(x.range, s.entries[f].range) => OverlapsAny(x.range, s.entries[f].uncovered)
  /\ \A x \in plan : x.internal =>
       \A k \in DOMAIN program.stmts \ {left} : RefsOf(program.stmts[k]) \cap (Aliases(program, x.ref) \cup {x.ref}) = {}

Aliased == FoldSet(LAMBDA r, s : SwapInAliases(program, s, left, r), scheduler, Writes(program.stmts[left]))
ScheduleBy(s, made) ==
  /\ made.ok
  /\ AnyPlan \/ Sane(s, made.plan)
  /\ \E order \in SetToSeqs(made.plan) : scheduler' = ScheduleStatement(program, s, left, made.plan, order)

\* One turn of the loop of Scheduler::Run.  The order in which the code applies the placements is
\* that of the addresses of some objects.
Schedule ==
  /\ left > 0
  /\ LET s == Aliased IN ScheduleBy(s, MakePlan(program, s, program.stmts[left], memBytes, Alignment))
  /\ left' = left - 1
  /\ UNCHANGED <<program, inOrder, memBytes, offsets, cells, running, done>>

\* The rest of Run.
FinishSchedule ==
  /\ left = 0
  /\ scheduler' = RebuildTransitiveDeps(FinalSwapIns(program, scheduler))
  /\ left' = -1
  /\ UNCHANGED <<program, inOrder, memBytes, offsets, cells, running, done>>

-----------------------------------------------------------------------------
(* The placer, and memory as the machine then finds it.                     *)

\* The entries a statement works on, and the refs it uses that are not in one.
Bound(k) == {b \in scheduler.bound[k] : ~scheduler.entries[b.entry].internal}
Behind(k) ==
  IF k > Len(program.stmts) THEN {scheduler.entries[scheduler.swaps[k - Len(program.stmts)].entry].ref}
  ELSE RefsOf(program.stmts[k]) \ {b.ref : b \in Bound(k)}
Uses == [k \in ToSet(scheduler.order) |-> {program.refs[r].base : r \in Behind(k)}]

Blocks == {k \in ToSet(scheduler.order) : k > Len(program.stmts) \/ program.stmts[k].block}

Temporaries == SetToSeq({b \in Bases(program) : Temporary(program, b)})
Chunks == [i \in DOMAIN Temporaries |->
             [name |-> Temporaries[i], size |-> Cardinality(ElemsOf(program, Temporaries[i])), location |-> "large"]]

Address(placed, base, elem) ==
  IF base \in DOMAIN placed THEN <<"arena", placed[base] + elem>> ELSE <<base, elem>>
Unit(u) == "unit" \o ToString(u)

\* The cells of a ref, and those of an entry, in the order of its elements.
CellsOf(placed, r) == [i \in DOMAIN program.refs[r].elems |-> Address(placed, program.refs[r].base, program.refs[r].elems[i])]
CellsOfEntry(e) ==
  [i \in 1..(scheduler.entries[e].range.hi - scheduler.entries[e].range.lo) |->
     <<Unit(program.refs[scheduler.entries[e].ref].unit), scheduler.entries[e].range.lo + i - 1>>]

Fresh(placed) ==
  LET large == UNION {ToSet(CellsOf(placed, r)) : r \in DOMAIN program.refs}
      small == UNION {ToSet(CellsOfEntry(e)) : e \in DOMAIN scheduler.entries}
  IN  [a \in large \cup small |-> IF a \in small \/ a[1] = "arena" THEN Junk ELSE 0]

Place ==
  /\ left = -1 /\ cells = NoCells
  /\ offsets' = P!PlaceRefinements(Chunks, Uses, Blocks, scheduler.order, scheduler.deps, Alignment)
  /\ cells' = Fresh(offsets')
  /\ UNCHANGED <<program, inOrder, memBytes, scheduler, left, running, done>>

-----------------------------------------------------------------------------
(* The execution.                                                           *)

\* What the program itself leaves in an element before statement k.
Before(k, base, elem) ==
  LET hits(j) == \E i \in DOMAIN program.stmts[j].ios :
                   LET io == program.stmts[j].ios[i]
                   IN  /\ IsWriteDir(io.dir) /\ program.refs[io.ref].base = base
                       /\ elem \in {program.refs[io.ref].elems[n] : n \in io.ranks}
      last == SelectLastInSeq([j \in 1..(k - 1) |-> j], hits)
  IN  IF last = 0 /\ Temporary(program, base) THEN Junk ELSE last

\* What a statement works on: the cells of an entry, or the buffer itself, if need be part by part.
Where(k, r) ==
  IF r \in Behind(k) THEN CellsOf(offsets, r) ELSE CellsOfEntry((CHOOSE b \in Bound(k) : b.ref = r).entry)
Scratch(k) ==
  UNION {ToSet(CellsOfEntry(b.entry)) : b \in scheduler.bound[k] \ Bound(k)}

IsSwap(k) == k > Len(program.stmts)
SwapOf(k) == scheduler.swaps[k - Len(program.stmts)]
From(k) == IF SwapOf(k).in THEN CellsOf(offsets, scheduler.entries[SwapOf(k).entry].ref) ELSE CellsOfEntry(SwapOf(k).entry)
To(k) == IF SwapOf(k).in THEN CellsOfEntry(SwapOf(k).entry) ELSE CellsOf(offsets, scheduler.entries[SwapOf(k).entry].ref)

\* The cells a statement of the program writes.
Written(k) ==
  UNION {{Where(k, io.ref)[n] : n \in io.ranks} : io \in {x \in ToSet(program.stmts[k].ios) : IsWriteDir(x.dir)}}
ReadsRight(k) ==
  \A io \in ToSet(program.stmts[k].ios) : IsReadDir(io.dir) \/ io.agg =>
    \A n \in io.ranks : cells[Where(k, io.ref)[n]] = Before(k, program.refs[io.ref].base, program.refs[io.ref].elems[n])

Spoil(spoiled) == cells' = [a \in DOMAIN cells |-> IF a \in spoiled THEN Junk ELSE cells[a]]

\* A statement starts: it reads, and what it is going to write is in no state to be read.
Start(k) ==
  /\ cells # NoCells /\ k \notin done \cup DOMAIN running
  /\ scheduler.deps[k] \subseteq done
  /\ inOrder => \A i \in DOMAIN scheduler.order : scheduler.order[i] \in done
                  \/ i >= SelectInSeq(scheduler.order, LAMBDA x : x = k)
  /\ IF IsSwap(k)
     THEN /\ running' = (k :> [i \in DOMAIN From(k) |-> cells[From(k)[i]]]) @@ running
          /\ Spoil(ToSet(To(k)))
     ELSE /\ running' = (k :> <<IF ReadsRight(k) THEN k ELSE Junk>>) @@ running
          /\ Spoil(Written(k) \cup Scratch(k))
  /\ UNCHANGED <<program, inOrder, memBytes, scheduler, left, offsets, done>>

\* A statement is complete.
Complete(k) ==
  /\ k \in DOMAIN running
  /\ cells' = IF IsSwap(k) THEN [i \in ToSet(To(k)) |-> running[k][SelectInSeq(To(k), LAMBDA a : a = i)]] @@ cells
              ELSE [a \in Written(k) |-> running[k][1]] @@ cells
  /\ running' = Restrict(running, DOMAIN running \ {k})
  /\ done' = done \cup {k}
  /\ UNCHANGED <<program, inOrder, memBytes, scheduler, left, offsets>>

AllDone == left = -1 /\ done = ToSet(scheduler.order) /\ cells # NoCells

\* The end: everything has run, or Run has thrown ResourceExhausted (or has made a plan it does not
\* carry out properly).
Stopped ==
  \/ AllDone
  \/ left > 0 /\ LET made == MakePlan(program, Aliased, program.stmts[left], memBytes, Alignment)
                 IN  ~made.ok \/ ~(AnyPlan \/ Sane(Aliased, made.plan))
Stop == Stopped /\ UNCHANGED vars

Next ==
  \/ Schedule \/ FinishSchedule \/ Place \/ Stop
  \/ cells # NoCells /\ \E k \in ToSet(scheduler.order) : Start(k) \/ Complete(k)

Spec == Init /\ [][Next]_vars

-----------------------------------------------------------------------------
(* Properties.                                                              *)

\* schedule.cc, placer.cc: when all statements have run, on a synchronous machine in their order and
\* on an asynchronous one in any order that the dependencies allow, the outputs hold what the block
\* would have left in them without a small memory.
SameOutputs ==
  AllDone =>
    \A base \in Bases(program) : ~Temporary(program, base) =>
      \A elem \in ElemsOf(program, base) :
        cells[<<base, elem>>] = Before(Len(program.stmts) + 1, base, elem)

\* schedule.cc: a dependency names an earlier statement, so that a synchronous machine need not look
\* at dependencies, and the transitive closures of Run and of the placer, which go through the
\* statements in order, miss nothing.
DepsPointBack ==
  left = -1 => \A i \in DOMAIN scheduler.order : \A d \in scheduler.deps[scheduler.order[i]] :
                 SelectInSeq(scheduler.order, LAMBDA x : x = d) < i

\* schedule.cc: what a statement works on at a time lies within the memory of its unit, in ranges
\* that do not overlap, and that are still its own when the turn is over.
EntriesDisjoint ==
  \A k \in DOMAIN scheduler.bound :
    LET used == {b.entry : b \in scheduler.bound[k]}
        range(e) == scheduler.entries[e].range
        unit(e) == program.refs[scheduler.entries[e].ref].unit
    IN  0 \notin used /\
        \A e \in used : /\ 0 <= range(e).lo /\ range(e).hi <= memBytes
                        /\ \A f \in used \ {e} : unit(e) = unit(f) => ~RangesOverlap(range(e), range(f))
=============================================================================
