--------------------------- MODULE StripeSchedule ---------------------------
(***************************************************************************)
(* tile/codegen/schedule.cc: the scheduler of a block for a machine whose  *)
(* compute units see only a small memory.  It walks the statements from    *)
(* the last to the first, gives each buffer that a statement uses a range  *)
(* of the memory (a cache entry), and adds the swaps that fill entries     *)
(* from and write them back to the buffers behind them.                    *)
(*                                                                         *)
(* A program is [refs, stmts].  A ref is [base, elems, dir, unit]: the     *)
(* elements of an allocation it shows, in order, each of one byte; refs    *)
(* come in the order of their names.  A statement is [block, ios], an io   *)
(* [ref, dir, part, agg]: what the statement does with the whole ref (part *)
(* is the size of the view of one turn of a block, and agg says that it    *)
(* adds to what is there).  A statement is known by its number: the        *)
(* program's come first, then the swaps in the order of their making.      *)
(***************************************************************************)
EXTENDS Integers, FiniteSets, SequencesExt

IsReadDir(dir) == "in" \in dir
IsWriteDir(dir) == "out" \in dir

\* AliasInfo::Compare for views without indexes: views of different sizes are never told apart.
Compare(a, b) ==
  CASE a.base # b.base -> "none"
    [] Len(a.elems) # Len(b.elems) -> "partial"
    [] a.elems = b.elems -> "exact"
    [] OTHER -> IF ToSet(a.elems) \cap ToSet(b.elems) = {} THEN "none" ELSE "partial"

-----------------------------------------------------------------------------
(* Ranges of memory: [lo, hi), in lists, as the code keeps them.            *)

Range_(lo, hi) == [lo |-> lo, hi |-> hi]
RangesOverlap(a, b) == a.lo < b.hi /\ b.lo < a.hi
OverlapsAny(a, ranges) == \E i \in DOMAIN ranges : RangesOverlap(a, ranges[i])

\* One range of a list without another.  A range whose high end is cut off leaves an empty one.
SubtractAt(sub, ranges, i) ==
  LET r == ranges[i]
  IN  CASE sub.lo <= r.lo /\ sub.hi < r.hi -> [ranges EXCEPT ![i].lo = sub.hi]
        [] sub.lo <= r.lo /\ sub.hi >= r.hi -> RemoveAt(ranges, i)
        [] sub.lo > r.lo /\ r.hi < sub.hi -> [ranges EXCEPT ![i].hi = sub.lo]
        [] OTHER -> <<Range_(r.lo, sub.lo)>> \o [ranges EXCEPT ![i].lo = sub.hi]

\* Every range of the list without it.
SubtractRange(sub, ranges) ==
  FoldLeft(LAMBDA rs, r : IF RangesOverlap(sub, r) THEN SubtractAt(sub, rs, SelectInSeq(rs, LAMBDA x : x = r)) ELSE rs,
           ranges, ranges)

\* The smallest range that is large enough, the first of equals; 0 when there is none.
BestFit(ranges, size, memBytes) ==
  LET waste(i) == ranges[i].hi - ranges[i].lo - size
      fits == {i \in DOMAIN ranges : waste(i) >= 0 /\ waste(i) < memBytes}
  IN  IF fits = {} THEN 0
      ELSE CHOOSE i \in fits : \A j \in fits : waste(i) < waste(j) \/ (waste(i) = waste(j) /\ i <= j)

-----------------------------------------------------------------------------
(* The Scheduler: order, the statements of the block as they stand; deps,  *)
(* the statements each one waits for; swaps, the swaps made; entries, all  *)
(* cache entries; info, a RefInfo for each ref; active, the entries of     *)
(* each unit that the future expects; bound, what a statement works on.    *)

NewRefInfo == [entry |-> 0, swapIns |-> {}, sawFinalWrite |-> FALSE]
NewScheduler(p) ==
  [order |-> [i \in DOMAIN p.stmts |-> i], deps |-> [i \in DOMAIN p.stmts |-> {}],
   swaps |-> <<>>, entries |-> <<>>, info |-> [r \in DOMAIN p.refs |-> NewRefInfo],
   active |-> [u \in {p.refs[r].unit : r \in DOMAIN p.refs} |-> <<>>],
   bound |-> [i \in DOMAIN p.stmts |-> {}]]

RefsOf(stmt) == {stmt.ios[i].ref : i \in DOMAIN stmt.ios}
DirOf(stmt, r) == UNION {stmt.ios[i].dir : i \in {j \in DOMAIN stmt.ios : stmt.ios[j].ref = r}}
Writes(stmt) == {r \in RefsOf(stmt) : IsWriteDir(DirOf(stmt, r))}
SizeOf(p, r) == Len(p.refs[r].elems)

\* The first statement that writes the ref itself; 0 when there is none.
EarliestWriter(p, r) == SelectInSeq(p.stmts, LAMBDA s : r \in Writes(s))
Aliases(p, r) == {a \in DOMAIN p.refs : a # r /\ Compare(p.refs[r], p.refs[a]) # "none"}

AddDeps(s, stmts, on) == [s EXCEPT !.deps = [d \in DOMAIN @ |-> IF d \in stmts THEN @[d] \cup {on} ELSE @[d]]]
NewSwap(s, order, swap, deps) == [s EXCEPT !.order = order, !.swaps = Append(@, swap), !.deps = Append(@, deps)]

\* The swap-in is a writer of the entry; who reads the entry waits for it.
FillEntry(s, e, id) ==
  [AddDeps(s, s.entries[e].readers, id) EXCEPT
     !.entries[e].writers = @ \cup {id}, !.entries[e].sawEarliestWriter = TRUE,
     !.info[s.entries[e].ref].swapIns = @ \cup {id}]
ScheduleSwapIn(s, position, e) ==
  FillEntry(NewSwap(s, InsertAt(s.order, position, Len(s.order) + 1), [entry |-> e, in |-> TRUE], {}),
            e, Len(s.order) + 1)

\* A mutant: the swap-out comes before the statement.
SwapOutBefore(s, stmt, e, swapIns) ==
  LET id == Len(s.order) + 1
      out == NewSwap(s, InsertAt(s.order, SelectInSeq(s.order, LAMBDA x : x = stmt), id),
                     [entry |-> e, in |-> FALSE], {stmt})
  IN  [AddDeps(out, swapIns, id) EXCEPT !.info[s.entries[e].ref].sawFinalWrite = TRUE]

\* The swap-out of what a statement wrote waits for it; the swap-ins given wait for the swap-out.
ScheduleSwapOut(s, stmt, e, swapIns) ==
  LET id == Len(s.order) + 1
      out == NewSwap(s, InsertAt(s.order, SelectInSeq(s.order, LAMBDA x : x = stmt) + 1, id),
                     [entry |-> e, in |-> FALSE], {stmt})
  IN  [AddDeps(out, swapIns, id) EXCEPT !.info[s.entries[e].ref].sawFinalWrite = TRUE]

After(s, stmt) == SelectInSeq(s.order, LAMBDA x : x = stmt) + 1

-----------------------------------------------------------------------------
(* Placement of what a statement uses.                                      *)

Placement(r, dir, range, internal, entry) ==
  [ref |-> r, dir |-> dir, range |-> range, internal |-> internal, entry |-> entry]

\* GatherPlacementState: a ref has an entry to go on with unless its value begins in the future; the
\* others are to be placed, the largest first.
Continues(s, r) == s.info[r].entry # 0 /\ ~s.entries[s.info[r].entry].sawEarliestWriter
ExistingPlan(s, stmt) ==
  {Placement(r, DirOf(stmt, r), s.entries[s.info[r].entry].range, FALSE, s.info[r].entry) :
     r \in {x \in RefsOf(stmt) : Continues(s, x)}}
Todo(p, s, stmt, unit) ==
  SetToSortSeq({r \in RefsOf(stmt) : ~Continues(s, r) /\ p.refs[r].unit = unit},
               LAMBDA a, b : SizeOf(p, a) > SizeOf(p, b) \/ (SizeOf(p, a) = SizeOf(p, b) /\ a > b))

Failed == [ok |-> FALSE, plan |-> {}]

\* TryPlaceInRanges: each to the range it wastes least of.
PlaceInRanges(p, stmt, plan, todo, free, memBytes) ==
  LET Put(acc, r, i) ==
        IF ~acc.ok \/ i = 0 THEN [acc EXCEPT !.ok = FALSE]
        ELSE LET range == Range_(acc.free[i].lo, acc.free[i].lo + SizeOf(p, r))
             IN  [ok |-> TRUE, free |-> SubtractAt(range, acc.free, i),
                  plan |-> acc.plan \cup {Placement(r, DirOf(stmt, r), range, FALSE, 0)}]
      all == FoldLeft(LAMBDA acc, r : Put(acc, r, BestFit(acc.free, SizeOf(p, r), memBytes)),
                      [ok |-> TRUE, free |-> free, plan |-> plan], todo)
  IN  [ok |-> all.ok, plan |-> all.plan]

\* What is free in a unit: all but the entries to keep.
FreeRanges(s, unit, memBytes, Keep(_)) ==
  FoldLeft(LAMBDA rs, e : IF Keep(s.entries[e]) THEN SubtractRange(s.entries[e].range, rs) ELSE rs,
           <<Range_(0, memBytes)>>, s.active[unit])

\* A mutant: what the statement uses already may be overwritten.
PlanOverOthers(p, s, stmt, memBytes, swapping) ==
  LET units == SetToSortSeq({u \in DOMAIN s.active : Todo(p, s, stmt, u) # <<>>}, <)
  IN  FoldLeft(LAMBDA acc, u :
                 IF acc.ok
                 THEN PlaceInRanges(p, stmt, acc.plan, Todo(p, s, stmt, u),
                                    FreeRanges(s, u, memBytes, LAMBDA entry : ~swapping /\ ~entry.sawEarliestWriter), memBytes)
                 ELSE acc,
               [ok |-> TRUE, plan |-> ExistingPlan(s, stmt)], units)

\* TryMakePlanWithNoSwaps and TryMakePlanWithSwaps.  Whatever the statement uses already stays; the
\* first keeps whatever would have to be swapped in as well.
TryMakePlan(p, s, stmt, memBytes, swapping) ==
  LET InPlan(plan, entry) == \E x \in plan : x.ref = entry.ref
      Keep(plan, entry) == InPlan(plan, entry) \/ (~swapping /\ ~entry.sawEarliestWriter)
      units == SetToSortSeq({u \in DOMAIN s.active : Todo(p, s, stmt, u) # <<>>}, <)
  IN  FoldLeft(LAMBDA acc, u :
                 IF acc.ok
                 THEN PlaceInRanges(p, stmt, acc.plan, Todo(p, s, stmt, u),
                                    FreeRanges(s, u, memBytes, LAMBDA entry : Keep(acc.plan, entry)), memBytes)
                 ELSE acc,
               [ok |-> TRUE, plan |-> ExistingPlan(s, stmt)], units)

\* TryMakeFallbackPlan: everything anew, one after the other; in parts, if so wanted.
Align(size, alignment) == ((size + alignment - 1) \div alignment) * alignment
FallbackPlan(p, stmt, memBytes, alignment, inParts) ==
  LET size(io) == IF inParts THEN io.part ELSE SizeOf(p, io.ref)
      Put(acc, io, unit) ==
        IF \E x \in acc.plan : x.ref = io.ref THEN acc
        ELSE [acc EXCEPT
                !.next[unit] = @ + Align(size(io), alignment),
                !.plan = @ \cup {Placement(io.ref, DirOf(stmt, io.ref),
                                           Range_(acc.next[unit], acc.next[unit] + size(io)),
                                           size(io) # SizeOf(p, io.ref), 0)}]
      all == FoldLeft(LAMBDA acc, io : Put(acc, io, p.refs[io.ref].unit),
                      [next |-> [u \in {p.refs[r].unit : r \in DOMAIN p.refs} |-> 0], plan |-> {}], stmt.ios)
  IN  [ok |-> \A u \in DOMAIN all.next : all.next[u] <= memBytes, plan |-> all.plan]

\* The strategies in their order.
MakePlan(p, s, stmt, memBytes, alignment) ==
  LET plans == <<TryMakePlan(p, s, stmt, memBytes, FALSE), TryMakePlan(p, s, stmt, memBytes, TRUE),
                 FallbackPlan(p, stmt, memBytes, alignment, FALSE),
                 IF stmt.block THEN FallbackPlan(p, stmt, memBytes, alignment, TRUE) ELSE Failed>>
      first == SelectInSeq(plans, LAMBDA x : x.ok)
  IN  IF first = 0 THEN Failed ELSE plans[first]

-----------------------------------------------------------------------------
(* Scheduler::Run.                                                          *)

\* A write makes what the future has of other views of the allocation out of date: they are
\* swapped in behind it.
SwapInAliases(p, s, k, r) ==
  FoldSet(LAMBDA a, t :
            IF t.info[a].entry = 0 THEN t
            ELSE [ScheduleSwapIn(t, After(t, k), t.info[a].entry) EXCEPT !.info[a].entry = 0],
          s, Aliases(p, r))

\* The entry of a placement, made when there is none.
Enter(s, x) ==
  IF x.entry # 0 THEN [s |-> s, e |-> x.entry]
  ELSE [s |-> [s EXCEPT !.entries = Append(@, [ref |-> x.ref, range |-> x.range, internal |-> x.internal,
                                                first |-> 0, writers |-> {}, readers |-> {},
                                                sawEarliestWriter |-> FALSE, uncovered |-> <<x.range>>]),
                        !.info[x.ref].entry = Len(s.entries) + 1],
        e |-> Len(s.entries) + 1]

\* The statement uses an entry that others may use too.  Readers in the future wait for a writer.
Use(p, s, k, x, e) ==
  [AddDeps(s, IF IsWriteDir(x.dir) THEN s.entries[e].readers ELSE {}, k) EXCEPT
     !.entries[e].writers = IF IsWriteDir(x.dir) THEN @ \cup {k} ELSE @,
     !.entries[e].readers = IF IsReadDir(x.dir) THEN @ \cup {k} ELSE @,
     !.entries[e].sawEarliestWriter = @ \/ (IsWriteDir(x.dir) /\ k = EarliestWriter(p, x.ref)),
     !.entries[e].first = k]

\* Must what the statement writes be brought to the buffer behind the entry?
NeedsSwapOut(p, s, x, swapIns) ==
  /\ ~x.internal /\ IsWriteDir(x.dir)
  /\ swapIns # {} \/ (IsWriteDir(p.refs[x.ref].dir) /\ ~s.info[x.ref].sawFinalWrite)

\* A new entry takes memory from entries of the future: they are filled behind it.
Cover(s, e, f, reuse) ==
  LET filled == IF s.entries[f].sawEarliestWriter THEN s ELSE ScheduleSwapIn(s, After(s, reuse), f)
      left == SubtractRange(s.entries[e].range, s.entries[f].uncovered)
      source == s.entries[f].ref
  IN  [filled EXCEPT
         !.entries[f].uncovered = left,
         !.active = [u \in DOMAIN @ |-> IF left = <<>> THEN SelectSeq(@[u], LAMBDA x : x # f) ELSE @[u]],
         !.info[source].entry = IF @ = f THEN 0 ELSE @]

\* Every writer of memory that the entry overlaps waits for the statement, or for its swap-out.
Reuse(s, unit, e, new, reuse) ==
  FoldLeft(LAMBDA t, f :
             IF f = e \/ ~OverlapsAny(t.entries[e].range, t.entries[f].uncovered) THEN t
             ELSE LET covered == IF new THEN Cover(t, e, f, reuse) ELSE t
                  IN  AddDeps(covered, covered.entries[f].writers, reuse),
           s, s.active[unit])

\* One placement of the plan.
ApplyPlacement(p, s, k, x, swapIns) ==
  LET entered == Enter(s, x)
      used == IF x.internal THEN entered.s ELSE Use(p, entered.s, k, x, entered.e)
      Covering(t, reuse) == Reuse(t, p.refs[x.ref].unit, entered.e, x.entry = 0, reuse)
  IN  IF NeedsSwapOut(p, used, x, swapIns)
      THEN Covering(ScheduleSwapOut(used, k, entered.e, swapIns), Len(used.order) + 1)
      ELSE Covering(used, k)

\* The entries made for the statement become active, its refs are bound to their entries, and what
\* only this statement uses is forgotten.
Settle(p, s, k, plan) ==
  LET made == {e \in DOMAIN s.entries : \E x \in plan : x.entry = 0 /\ s.info[x.ref].entry = e}
      shared(u) == {e \in made : ~s.entries[e].internal /\ p.refs[s.entries[e].ref].unit = u}
      Sorted(es) == SortSeq(es, LAMBDA a, b : s.entries[a].range.lo < s.entries[b].range.lo)
  IN  [s EXCEPT
         !.active = [u \in DOMAIN @ |-> Sorted(SetToSeq(shared(u)) \o @[u])],
         !.bound[k] = {[ref |-> x.ref, entry |-> s.info[x.ref].entry] : x \in plan},
         !.info = [r \in DOMAIN @ |->
                     IF (\E x \in plan : x.ref = r) /\ @[r].entry # 0 /\ s.entries[@[r].entry].internal
                     THEN [@[r] EXCEPT !.entry = 0] ELSE @[r]]]

\* The swap-ins that wait for what the statement writes to a ref: those of all views it touches.
SwapInsOf(p, s, r) == UNION {s.info[a].swapIns : a \in Aliases(p, r) \cup {r}}

\* A turn of the loop: statement k is scheduled by a plan, whose placements are applied in an order.
ScheduleStatement(p, s, k, plan, order) ==
  LET swapIns == [r \in Writes(p.stmts[k]) |-> SwapInsOf(p, s, r)]
      For(x) == IF x.ref \in DOMAIN swapIns THEN swapIns[x.ref] ELSE {}
  IN  Settle(p, FoldLeft(LAMBDA t, x : ApplyPlacement(p, t, k, x, For(x)), s, order), k, plan)

\* Behind the loop: what is active and that nobody writes is swapped in just before its first use.
FinalSwapIns(p, s) ==
  LET Fill(t, e) ==
        IF EarliestWriter(p, t.entries[e].ref) # 0 THEN t
        ELSE ScheduleSwapIn(t, SelectInSeq(t.order, LAMBDA x : x = t.entries[e].first), e)
      units == SetToSortSeq(DOMAIN s.active, <)
  IN  FoldLeft(LAMBDA t, u : FoldLeft(Fill, t, s.active[u]), s, units)

\* RebuildTransitiveDeps: the dependencies that no other implies, in the order of the statements.
\* (The code takes the difference of unordered sets, which may keep some of the others as well.)
RebuildTransitiveDeps(s) ==
  LET Put(acc, k, through) ==
        [deps |-> [acc.deps EXCEPT ![k] = @ \ through], all |-> [acc.all EXCEPT ![k] = s.deps[k] \cup through]]
      rebuilt == FoldLeft(LAMBDA acc, k : Put(acc, k, UNION {acc.all[d] : d \in s.deps[k]}),
                          [deps |-> s.deps, all |-> [d \in DOMAIN s.deps |-> {}]], s.order)
  IN  [s EXCEPT !.deps = rebuilt.deps]
=============================================================================
