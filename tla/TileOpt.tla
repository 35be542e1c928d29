------------------------------ MODULE TileOpt ------------------------------
(***************************************************************************)
(* tile/lang/tile_opt.cc and the choice that TileOptimizer makes           *)
(* (generate.cc): vectors where memory allows them, and the tiles of a     *)
(* flat contraction from the best score down.                              *)
(*                                                                         *)
(* A flat contraction is [names, ranges, access, constraints, agg, comb,   *)
(* aggVec, contraction, ...]; access[1] is its output and an access is     *)
(* [offset, strides, limit, vector].  The settings of the hardware are     *)
(* [threads, useGlobal, memWidth, vecSize, maxMem, maxRegs, goalGroups,    *)
(* goalFlops, aliasing].  The elements of all tensors take four bytes, and *)
(* memWidth holds a vector of them (the code throws when it does not).     *)
(***************************************************************************)
EXTENDS KernelPlan, Contraction

ElemBytes == 4
ElemSize(access) == ElemBytes * access.vector

-----------------------------------------------------------------------------
(* Vectors along the indexes of stride one in the output.                   *)

Vectorized(flat) == {k \in DOMAIN flat.ranges : flat.access[1].strides[k] = 1}
IsVectorizable(flat, a, n) ==
  LET vec == Vectorized(flat)
      alongVector == {k \in vec : a.strides[k] # 0}
  IN  /\ a.offset % n = 0 /\ a.limit % n = 0
      /\ \A k \in alongVector : a.strides[k] = 1 /\ flat.ranges[k] % n = 0
      /\ alongVector # {} => \A k \in DOMAIN flat.ranges \ vec : a.strides[k] % n = 0
AdjustAccess(flat, a, n) ==
  LET vec == Vectorized(flat)
      Shrunk(k) == IF k \in vec THEN a.strides[k] ELSE Quot(a.strides[k], n)
  IN  IF \A k \in vec : a.strides[k] # 1 THEN a
      ELSE [offset |-> Quot(a.offset, n), limit |-> a.limit \div n, vector |-> n,
            strides |-> [k \in DOMAIN a.strides |-> Shrunk(k)] \o <<>>]
VectorizeBy(flat, n) ==
  [flat EXCEPT !.ranges = [k \in DOMAIN @ |-> IF k \in Vectorized(flat) THEN @[k] \div n ELSE @[k]] \o <<>>,
               !.access = MapSeq(@, LAMBDA a : AdjustAccess(flat, a, n)),
               !.postInputs = MapSeq(@, LAMBDA p : [p EXCEPT !.access = AdjustAccess(flat, @, n)]),
               !.aggVec = AdjustAccess(flat, flat.access[1], n).vector]
AllAccesses(flat) == ToSet(flat.access) \cup {p.access : p \in ToSet(flat.postInputs)}
Vectorize(flat, n) ==
  IF \/ Vectorized(flat) = {}
     \/ flat.constraints # <<>>
     \/ \E a \in AllAccesses(flat) : ~IsVectorizable(flat, a, n)
  THEN flat ELSE VectorizeBy(flat, n)

\* The widest vectors first, down to two.
RECURSIVE VectorizeFrom(_, _)
VectorizeFrom(flat, n) ==
  IF n <= 1 \/ flat.aggVec # 1 THEN flat ELSE VectorizeFrom(Vectorize(flat, n), n \div 2)

-----------------------------------------------------------------------------
(* What a tile costs.                                                       *)

OutPlanFor(flat, tile, threads, settings) == OutPlan(flat, tile, threads, settings.memWidth \div ElemSize(flat.access[1]))
ReadPlanFor(flat, i, tile, settings) ==
  ReadPlan(flat.names, flat.access[i].strides, tile, settings.memWidth \div ElemSize(flat.access[i]))
SumOver(S, f(_)) == FoldSet(LAMBDA x, s : s + f(x), 0, S)
InputsOf(flat) == 2..Len(flat.access)
IsOut(flat, k) == flat.access[1].strides[k] # 0

StatsOf(settings, flat, tile, out, reads) ==
  LET indexes == DOMAIN flat.ranges
      Over(S, f(_)) == FoldSet(LAMBDA k, p : p * f(k), 1, S)
      Tiles(k) == RoundUp(flat.ranges[k], tile[k])
      outIndexes == {k \in indexes : IsOut(flat, k)}
      operations == Min({settings.threads, Over(indexes, LAMBDA k : tile[k])})
      merging == Over(outIndexes, LAMBDA k : tile[k]) < operations
      Shared(i) == reads[i].localSize * ElemSize(flat.access[i])
      groups == Over(outIndexes, Tiles)
  IN  [outRegs |-> LocalSize(out) * ElemSize(flat.access[1]),
       memWrite |-> out.outputs * settings.memWidth * Len(flat.outputs),
       memRead |-> SumOver(InputsOf(flat), LAMBDA i : NumLoads(reads[i]) * settings.memWidth)
                     + out.outputs * ElemBytes * Len(flat.postInputs),
       sharedMem |-> (IF settings.useGlobal THEN 0 ELSE SumOver(InputsOf(flat), Shared))
                       + (IF merging THEN settings.threads * ElemSize(flat.access[1]) ELSE 0),
       groups |-> groups, innerLoops |-> Over(indexes, Tiles) \div groups,
       threadsUsed |-> Max({operations, OutThreads(out)}),
       trueOps |-> Over(indexes, LAMBDA k : flat.ranges[k]) * flat.aggVec
                     * (Len(flat.postOps) + (IF flat.contraction THEN 2 ELSE 0))]
ComputeTileStats(settings, flat, tile) ==
  StatsOf(settings, flat, tile, OutPlanFor(flat, tile, settings.threads, settings),
          [i \in InputsOf(flat) |-> ReadPlanFor(flat, i, tile, settings)])

\* The score times the settings' goals and threads, which orders the tiles as the score does.
ComputeScore(settings, perf) ==
  LET bytes == perf.groups * (perf.innerLoops * perf.memRead + perf.memWrite)
      roof == MinQ(Lowest(perf.trueOps, bytes), Q(settings.goalFlops))
  IN  IF perf.sharedMem > settings.maxMem \/ perf.outRegs > settings.maxRegs THEN Q(-1)
      ELSE roof ** Q(Min({perf.groups, settings.goalGroups}) * perf.threadsUsed)

-----------------------------------------------------------------------------
(* The search: from tiles of one element, doubling an index at a time.      *)

RECURSIVE TileLess(_, _)
TileLess(s, t) == s # <<>> /\ (s[1] < t[1] \/ (s[1] = t[1] /\ TileLess(Tail(s), Tail(t))))
Worse(a, b) == a.score \prec b.score \/ (a.score = b.score /\ TileLess(a.tile, b.tile))
Scored(settings, flat, tile) == [tile |-> tile, score |-> ComputeScore(settings, ComputeTileStats(settings, flat, tile))]

Known(search, tile) == \E i \in DOMAIN search.found : search.found[i].tile = tile
AddTile(search, t) ==
  [found |-> Append(search.found, t), score |-> t.score,
   todo |-> IF Q(0) \prec t.score THEN search.todo \cup {t} ELSE search.todo]
Expand(settings, flat, search, tile) ==
  LET Doubled(k) == [tile EXCEPT ![k] = Min({2 * @, flat.ranges[k]})]
      TryTile(a, t) == IF Known(a, t) THEN a ELSE AddTile(a, Scored(settings, flat, t))
  IN  FoldLeft(TryTile, search, [k \in DOMAIN tile |-> Doubled(k)] \o <<>>)
RECURSIVE Search(_, _, _, _), SearchFrom(_, _, _, _, _)
Search(settings, flat, search, fast) ==
  IF search.todo = {} THEN search.found
  ELSE SearchFrom(settings, flat, search, fast, CHOOSE t \in search.todo : \A u \in search.todo : ~Worse(t, u))
SearchFrom(settings, flat, search, fast, best) ==
  IF fast /\ best.score \prec search.score THEN search.found
  ELSE Search(settings, flat,
              Expand(settings, flat, [search EXCEPT !.todo = @ \ {best}, !.score = best.score], best.tile), fast)
SearchAll(settings, flat, first, fast) ==
  Search(settings, flat, [found |-> <<first>>, todo |-> {first}, score |-> first.score], fast)
TileOptimize(settings, flat, fast) ==
  SearchAll(settings, flat, Scored(settings, flat, [k \in DOMAIN flat.ranges |-> 1] \o <<>>), fast)

\* The best tiles first, the latest found of equals; the search is fast when only one is wanted.
BestFirst(found) == SortedBy(Reverse(found), LAMBDA a, b : b.score \prec a.score)
OptionsFor(settings, flat, maxOptions) ==
  LET found == BestFirst(TileOptimize(settings, flat, maxOptions = 1))
  IN  MapSeq(SubSeq(found, 1, Min({maxOptions, Len(found)})), LAMBDA t : t.tile)
=============================================================================
