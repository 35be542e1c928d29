----------------------------- MODULE KernelPlan -----------------------------
(***************************************************************************)
(* tile/lang: how a kernel is spread over groups and threads (out_plan.cc),*)
(* what it reads into shared memory and where each thing lies there        *)
(* (read_plan.cc), and the loops over a tile by several threads (loop.cc). *)
(***************************************************************************)
EXTENDS Semtree

RoundUp(x, y) == (x + y - 1) \div y
RECURSIVE PowerFrom(_, _)
PowerFrom(p, x) == IF p < x THEN PowerFrom(2 * p, x) ELSE p
NearestPo2(x) == PowerFrom(1, x)
IsPo2(x) == x = NearestPo2(x)
Sign(n) == IF n < 0 THEN -1 ELSE IF n = 0 THEN 0 ELSE 1
ProductOf(numbers) == FoldLeft(LAMBDA a, b : a * b, 1, numbers)

\* std::sort of a few elements is insertion sort: equals keep their order.
SortedBy(s, Less(_, _)) ==
  MapSeq(Sorted(DOMAIN s, LAMBDA a, b : Less(s[a], s[b]) \/ (~Less(s[b], s[a]) /\ a < b)), LAMBDA k : s[k])

\* The variables that code makes for an index: its place in the tile, the tile's place, the
\* iteration, the thread's share, whether it is to be computed.
Idx(x) == <<"idx", x>>
Gid(x) == <<"gid", x>>
Lid(x) == <<"lid", x>>
TidOf(x) == <<"tid", x>>
CondOf(x) == <<"cond", x>>
Tid == <<"tid">>
JoinNames(x, y) == x \o <<-1>> \o y

-----------------------------------------------------------------------------
(* loop.cc.  An index is [name, total, tile, thread].                       *)

Score(x) ==
  CASE x.total % x.tile = 0 /\ x.tile % x.thread = 0 -> 0
    [] x.total % x.tile = 0 /\ x.tile % x.thread # 0 -> 1
    [] x.total % x.tile # 0 /\ x.tile % x.thread = 0 -> 2
    [] OTHER -> 3

\* Threads for the indexes in turn, as many as are left.
ThreadLoop(indexes, threads) ==
  LET Next_(a, x) ==
        LET thread == Min({a.left, NearestPo2(x.tile)})
        IN  [left |-> a.left \div thread, done |-> Append(a.done, [x EXCEPT !.thread = thread])]
  IN  FoldLeft(Next_, [left |-> threads, done |-> <<>>], indexes).done

Or(l, r) == Bin("||", l, r)
Loops(x) == RoundUp(x.tile, x.thread)
\* What must hold for an iteration of a thread to be inside the tile, and inside the whole.
Checks(x, skipEdge) ==
  LET edge == x.total % x.tile
      low == edge \div x.thread
      slop == edge % x.thread
      Before(n) == Bin("<", Var(Lid(x.name)), Const(n))
      Within(n) == Bin("<", Var(TidOf(x.name)), Const(n))
      inner == Bin("!=", Var(Gid(x.name)), Const((x.total \div x.tile) * x.tile))
      uneven == IF x.tile % x.thread = 0 THEN <<>> ELSE <<Or(Before(Loops(x) - 1), Within(x.tile % x.thread))>>
  IN  uneven \o
      CASE edge = 0 \/ skipEdge -> <<>>
        [] edge # 0 /\ ~skipEdge /\ slop = 0 -> <<Or(Before(low), inner)>>
        [] edge # 0 /\ ~skipEdge /\ slop # 0 ->
             <<Or(Before(low), Or(inner, Within(slop)))>>
               \o (IF low + 1 = Loops(x) THEN <<>> ELSE <<Or(Before(low + 1), inner)>>)

LoopOrder(indexes) == SortedBy(indexes, LAMBDA a, b : Score(a) > Score(b))
\* The conditions of the loops down to the k-th, and the elements a thread handles from there on.
CondsTo(order, k, skipEdge) ==
  MapSeq(SelectSeq(SubSeq(order, 1, k), LAMBDA x : Checks(x, skipEdge) # <<>>), LAMBDA x : Var(CondOf(x.name)))
Elements(order, k) == ProductOf(MapSeq(SubSeq(order, k, Len(order)), Loops))
AllOf(conds) == FoldLeft(MaybeAnd, Nothing, conds)

\* A loop is checked by a select, which runs the body for element zero instead, when few elements
\* are in it; the innermost such gives the condition that the body must be guarded with.
Selects(order, k, skipEdge, threshold) == Checks(order[k], skipEdge) # <<>> /\ Elements(order, k) <= threshold
InnerCondOf(order, skipEdge, threshold) ==
  LET selecting == {k \in DOMAIN order : Selects(order, k, skipEdge, threshold)}
  IN  IF selecting = {} THEN Nothing ELSE AllOf(CondsTo(order, Max(selecting), skipEdge))
InnerCond(indexes, skipEdge, threshold) == InnerCondOf(LoopOrder(indexes), skipEdge, threshold)

LoopBody(order, k, skipEdge, threshold, cur) ==
  LET x == order[k]
      value == Bin("+", Bin("*", Const(x.thread), Var(Lid(x.name))), Var(TidOf(x.name)))
      Body(init) == Block(<<DeclareIndex(Idx(x.name), init)>> \o StatementsOf(cur))
      Checked(s) == Block(<<DeclareIndex(CondOf(x.name), AllOf(Checks(x, skipEdge)))>> \o s)
  IN  CASE Checks(x, skipEdge) = <<>> -> Body(value)
        [] Selects(order, k, skipEdge, threshold) ->
             Checked(StatementsOf(Body(Select(AllOf(CondsTo(order, k, skipEdge)), value, Const(0)))))
        [] OTHER -> Checked(<<If(Var(CondOf(x.name)), Body(value), Nothing)>>)
WrapLoop(x, body) ==
  IF Loops(x) = 1 THEN Block(<<DeclareIndex(Lid(x.name), Const(0))>> \o StatementsOf(body))
  ELSE Block(<<For(Lid(x.name), Loops(x), 1, body)>>)

ThreadDivs(indexes, div) == [k \in DOMAIN indexes |-> div * ProductOf(MapSeq(SubSeq(indexes, 1, k - 1), LAMBDA x : x.thread))]
ThreadShare(x, div) ==
  DeclareIndex(TidOf(x.name), Bin("%", Bin("/", Var(Tid), Const(div)), Const(x.thread)))
\* The threads beyond those that the indexes use do nothing.
Underrun(inner, used, threads) == IF used < threads THEN If(Bin("<", Var(Tid), Const(used)), inner, Nothing) ELSE inner
GenerateOrdered(order, shares, inner, skipEdge, threshold) ==
  AppendAll(Append(shares,
    FoldRight(LAMBDA k, cur : WrapLoop(order[k], LoopBody(order, k, skipEdge, threshold, cur)),
              [k \in DOMAIN order |-> k] \o <<>>, inner)))
GenerateLoop(indexes, inner, threads, div, skipEdge, threshold) ==
  LET divs == ThreadDivs(indexes, div)
      used == div * ProductOf(MapSeq(indexes, LAMBDA x : x.thread))
  IN  GenerateOrdered(LoopOrder(indexes), [k \in DOMAIN indexes |-> ThreadShare(indexes[k], divs[k])] \o <<>>,
                      Underrun(inner, used, threads), skipEdge, threshold)

-----------------------------------------------------------------------------
(* out_plan.cc                                                              *)

\* The output indexes of a flat contraction, nearest in memory first.
OutIndexes(flat, tile) ==
  LET out == flat.access[1].strides
      Info(k) == [name |-> flat.names[k], place |-> k, range |-> flat.ranges[k], tile |-> tile[k], stride |-> out[k],
                  qout |-> RoundUp(flat.ranges[k], tile[k]), threads |-> 1]
  IN  MapSeq(Sorted({k \in DOMAIN out : out[k] # 0},
                    LAMBDA a, b : \/ AbsOf(out[a]) < AbsOf(out[b])
                                  \/ AbsOf(out[a]) = AbsOf(out[b]) /\ b < a), Info)

\* Who gets twice the threads: one they divide, then the one with fewest.
NicelyDivided(x) == x.tile % (x.threads * 2) = 0
PickIndex(indexes, all) ==
  LET Better(a, x) == (NicelyDivided(x) /\ ~a.nice) \/ x.threads < a.least
      Consider(a, k) ==
        IF indexes[k].threads < indexes[k].tile /\ Better(a, indexes[k])
        THEN [nice |-> NicelyDivided(indexes[k]), least |-> indexes[k].threads, pick |-> k] ELSE a
  IN  FoldLeft(Consider, [nice |-> FALSE, least |-> all, pick |-> 0], [k \in DOMAIN indexes |-> k] \o <<>>).pick
RECURSIVE SpreadThreads(_, _, _), SpreadTo(_, _, _, _)
SpreadThreads(indexes, left, all) ==
  IF left <= 1 THEN indexes ELSE SpreadTo(indexes, PickIndex(indexes, all), left, all)
SpreadTo(indexes, k, left, all) ==
  IF k = 0 THEN indexes ELSE SpreadThreads([indexes EXCEPT ![k].threads = 2 * @], left \div 2, all)
AssignThreads(indexes, threads, memElems) ==
  LET low == NearestPo2(Min({memElems, threads, indexes[1].tile}))
  IN  IF indexes = <<>> THEN indexes ELSE SpreadThreads([indexes EXCEPT ![1].threads = low], threads \div low, threads)

\* Which of the three dimensions of the grid of groups each index goes to: the least so far.
PlaceGroups(indexes) ==
  LET order == SortedBy(SelectSeq([k \in DOMAIN indexes |-> k] \o <<>>, LAMBDA k : indexes[k].qout # 1),
                        LAMBDA a, b : LET x == indexes[a].qout
                                          y == indexes[b].qout
                                      IN  \/ ~IsPo2(x) /\ IsPo2(y)
                                          \/ (IsPo2(x) <=> IsPo2(y)) /\ x < y)
      Least(dims) == Min({d \in 1..3 : \A e \in 1..3 : dims[d] <= dims[e]})
      PlaceIn(a, k, d) == [dims |-> [a.dims EXCEPT ![d] = @ * indexes[k].qout],
                           buckets |-> [a.buckets EXCEPT ![d] = Append(@, k)]]
  IN  FoldLeft(LAMBDA a, k : PlaceIn(a, k, Least(a.dims)),
               [dims |-> <<1, 1, 1>>, buckets |-> << <<>>, <<>>, <<>> >>], order)
GroupIndex(d) == HardwareIndex(<<"group1", "group2", "group3">>[d])
\* The place of a group's tile along an index: the digit that the index has in its dimension.
BaseExpr(indexes, place, d, pos) ==
  LET bucket == place.buckets[d]
      below == ProductOf(MapSeq(SubSeq(bucket, pos + 1, Len(bucket)), LAMBDA k : indexes[k].qout))
      x == indexes[bucket[pos]]
      whole == GroupIndex(d)
      within == IF below * x.qout # place.dims[d] THEN Bin("%", whole, Const(below * x.qout)) ELSE whole
      digit == IF below # 1 THEN Bin("/", within, Const(below)) ELSE within
  IN  IF x.tile > 1 THEN Bin("*", digit, Const(x.tile)) ELSE digit
BaseOf(indexes, place, k) ==
  IF indexes[k].qout = 1 THEN Const(0)
  ELSE LET d == CHOOSE d \in 1..3 : k \in ToSet(place.buckets[d])
       IN  BaseExpr(indexes, place, d, SelectInSeq(place.buckets[d], LAMBDA j : j = k))

OutPlanWith(indexes, place, threads, memElems) ==
  LET Writes(x) == IF x.stride = 1 THEN RoundUp(x.tile, memElems) ELSE x.tile
  IN  [indexes |-> indexes, threads |-> threads, groups |-> place.dims,
       bases |-> [k \in DOMAIN indexes |-> BaseOf(indexes, place, k)] \o <<>>,
       perThread |-> ProductOf(MapSeq(indexes, LAMBDA x : RoundUp(x.tile, x.threads))),
       outputs |-> ProductOf(MapSeq(indexes, Writes))]
OutPlanOf(indexes, threads, memElems) == OutPlanWith(indexes, PlaceGroups(indexes), threads, memElems)
OutPlan(flat, tile, threads, memElems) ==
  OutPlanOf(AssignThreads(OutIndexes(flat, tile), threads, Max({1, memElems})), threads, Max({1, memElems}))
LocalSize(plan) == plan.threads * plan.perThread

InitBases(plan) == [k \in DOMAIN plan.indexes |-> DeclareIndex(Gid(plan.indexes[k].name), plan.bases[k])] \o <<>>
\* Mutant: a tile that reaches over the edge is not checked.
OutLoopsWhole(plan) ==
  MapSeq(plan.indexes, LAMBDA x : [name |-> x.name, total |-> RoundUp(x.range, x.tile) * x.tile, tile |-> x.tile, thread |-> x.threads])
OutLoops(plan) == MapSeq(plan.indexes, LAMBDA x : [name |-> x.name, total |-> x.range, tile |-> x.tile, thread |-> x.threads])
OutThreads(plan) == ProductOf(MapSeq(plan.indexes, LAMBDA x : x.threads))
\* Where a thread keeps the aggregate of its place in the tile.
RegIndex(plan) ==
  LET Term(a, x) == [e |-> Bin("+", a.e, Bin("*", Var(Lid(x.name)), Const(a.mul))),
                     mul |-> a.mul * RoundUp(x.tile, x.threads)]
  IN  FoldLeft(Term, [e |-> Const(0), mul |-> 1], plan.indexes).e

-----------------------------------------------------------------------------
(* read_plan.cc.  Indexes whose strides are multiples of each other and     *)
(* whose ranges overlap are read as one.                                    *)

OrigIndexes(names, strides, tile) ==
  SortedBy(SelectSeq([k \in DOMAIN names |-> [name |-> names[k], stride |-> strides[k], range |-> tile[k]]] \o <<>>,
                     LAMBDA x : x.stride # 0),
           LAMBDA a, b : AbsOf(a.stride) < AbsOf(b.stride))

MergeIndex(a, x) ==
  LET size == AbsOf(x.stride)
      fits == {k \in DOMAIN a.merged : size % a.merged[k].stride = 0
                                       /\ a.merged[k].range >= size \div a.merged[k].stride}
      k == Min(fits)
      quot == size \div a.merged[k].stride
  IN  IF fits = {}
      THEN [orig |-> Append(a.orig, x @@ [scale |-> Sign(x.stride)]),
            merged |-> Append(a.merged, [name |-> x.name, stride |-> size, range |-> x.range])]
      ELSE [orig |-> Append(a.orig, x @@ [scale |-> quot * Sign(x.stride)]),
            merged |-> [a.merged EXCEPT ![k].range = @ + quot * (x.range - 1), ![k].name = JoinNames(@, x.name)]]

\* Odd strides, to spread over the banks of shared memory; the last padding is left out.
LocalStrides(merged) ==
  LET Next_(a, m) ==
        LET size == a.size * m.range
        IN  [size |-> IF size % 2 = 0 THEN size + 1 ELSE size, padded |-> a.padded \/ size % 2 = 0,
             strides |-> Append(a.strides, a.size)]
  IN  FoldLeft(Next_, [size |-> 1, padded |-> FALSE, strides |-> <<>>], merged)

\* The merged index that an index is part of, and how far below its start the negative ones reach.
MergedOf(merged, x) == Max({k \in DOMAIN merged : x.stride = x.scale * merged[k].stride})
ZeroOf(orig, merged, k) ==
  FoldLeft(LAMBDA s, x : IF x.scale < 0 /\ MergedOf(merged, x) = k THEN s - x.scale * (x.range - 1) ELSE s, 0, orig)

TransferOrder(merged, memWidth) ==
  LET Near(m) == m.stride < memWidth \div 2
      Closer(a, b) == a.range * NearestPo2(b.range) > b.range * NearestPo2(a.range)
      Before(a, b) == \/ Near(a) /\ ~Near(b)
                      \/ Near(a) /\ Near(b) /\ a.stride < b.stride
                      \/ ~Near(a) /\ ~Near(b) /\ Closer(a, b)
  IN  SortedBy([k \in DOMAIN merged |-> k] \o <<>>, LAMBDA i, j : Before(merged[i], merged[j]))

ReadPlanWith(orig, merged, local, memWidth) ==
  LET placed == [k \in DOMAIN merged |-> merged[k] @@ [local |-> local.strides[k], zero |-> ZeroOf(orig, merged, k)]] \o <<>>
      Zero(Step(_)) == FoldLeft(LAMBDA s, m : s + Step(m) * m.zero, 0, placed)
  IN  [orig |-> orig, merged |-> placed, memWidth |-> memWidth,
       localSize |-> IF local.padded THEN local.size - 1 ELSE local.size,
       localZero |-> Zero(LAMBDA m : m.local), globalZero |-> Zero(LAMBDA m : m.stride),
       order |-> TransferOrder(merged, memWidth)]
ReadPlanOf(orig, merged, memWidth) == ReadPlanWith(orig, merged, LocalStrides(merged), memWidth)
ReadPlanMerged(a, memWidth) ==
  ReadPlanOf(a.orig, SortedBy(a.merged, LAMBDA x, y : \/ x.range % 2 = 1 /\ y.range % 2 = 0
                                                      \/ x.range % 2 = y.range % 2 /\ x.range > y.range), memWidth)
ReadPlan(names, strides, tile, memWidth) ==
  ReadPlanMerged(FoldLeft(MergeIndex, [orig |-> <<>>, merged |-> <<>>], OrigIndexes(names, strides, tile)), memWidth)

\* The cache lines that a tile takes.
NumLoads(plan) ==
  LET Speedup(m) == Min({plan.memWidth, m.stride * m.range}) \div m.stride
  IN  IF plan.merged = <<>> THEN 1
      ELSE ProductOf(MapSeq(plan.merged, LAMBDA m : m.range)) \div Max({1} \cup {Speedup(m) : m \in ToSet(plan.merged)})

SharedOffset(plan) ==
  SumExpr(Const(plan.localZero),
          MapSeq(plan.orig, LAMBDA x : Bin("*", Const(plan.merged[MergedOf(plan.merged, x)].local * x.scale), Var(Idx(x.name)))))
GlobalOffset(plan) ==
  SumExpr(Const(0), MapSeq(plan.orig, LAMBDA x : Bin("*", Const(x.stride), Bin("+", Var(Idx(x.name)), Var(Gid(x.name))))))

\* The threads of a group copy what the tile reads to shared memory, element by element; an element
\* outside the tensor is read as the nearest inside.
GenerateRead(plan, to, from, threads, limit, offset) ==
  LET ordered == MapSeq(plan.order, LAMBDA k : plan.merged[k])
      At(first, Step(_)) == SumExpr(first, MapSeq(ordered, LAMBDA m : Bin("*", Const(Step(m)), Var(Idx(m.name)))))
      clamped == Clamp(Var(<<"gidx">>), Const(-offset), Const(limit - offset - 1))
      inner == Block(<<DeclareIndex(<<"lidx">>, At(Const(0), LAMBDA m : m.local)),
                       DeclareIndex(<<"gidx">>, At(Var(<<"gbase">>), LAMBDA m : m.stride)),
                       Store(Elem(to, Var(<<"lidx">>)), Elem(from, clamped))>>)
      gbase == SumExpr(Const(-plan.globalZero),
                       MapSeq(plan.orig, LAMBDA x : Bin("*", Var(Gid(x.name)), Const(x.stride))))
      loop == ThreadLoop(MapSeq(ordered, LAMBDA m : [name |-> m.name, total |-> m.range, tile |-> m.range, thread |-> 1]),
                         threads)
  IN  AppendAll(<<DeclareIndex(<<"gbase">>, gbase), GenerateLoop(loop, inner, threads, 1, FALSE, 0)>>)
=============================================================================
