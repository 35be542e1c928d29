----------------------------- MODULE StripeTile -----------------------------
(***************************************************************************)
(* The passes of tile/codegen that split a block in two: ApplyTile and the *)
(* stencil pass (tile.cc), the search for a tile (autotile.cc) and the     *)
(* threads of an inner block (thread_inner.cc).                            *)
(***************************************************************************)
EXTENDS StripeAlias

HasConstraints(b, x) == \E c \in ToSet(b.constraints) : Coef(c, x.name) # 0
HasAffines(b, x) ==
  \E s \in ToSet(b.stmts) : IsBlock(s) /\ \E y \in ToSet(s.idxs) : Coef(y.affine, x.name) # 0

SubstituteIdxs(stmt, v, by) ==
  IF IsBlock(stmt)
  THEN [stmt EXCEPT !.idxs = MapSeq(@, LAMBDA y : [y EXCEPT !.affine = Substitute(@, v, by)])]
  ELSE stmt

\* Is tiling a block by these sizes trivial: all ones, or each the whole range?
TrivialTile(b, shape) ==
  (\A i \in DOMAIN shape : shape[i] = 1) \/ (\A i \in DOMAIN shape : shape[i] = b.idxs[i].range)

\* The block split into an outer one that steps over tiles and an inner one that runs over a
\* tile.  An index whose tile is uneven, or that a constraint or an inner block uses, is passed
\* on to the inner block under a new name; an uneven one gets a constraint there.
Tile(outer, shape, copyTags) ==
  LET uneven(i) == outer.idxs[i].range % shape[i] # 0
      passed == SelectSeq([i \in 1..Len(outer.idxs) |-> i], LAMBDA i :
                  /\ outer.idxs[i].range # 1
                  /\ uneven(i) \/ HasConstraints(outer, outer.idxs[i])
                               \/ HasAffines(outer, outer.idxs[i]))
      name(i) == outer.idxs[i].name
      passName(i) == UniqueIdxName(outer, name(i))
      whole(i) == Plus(Var(name(i)), Var(passName(i)))
      limit(i) == Minus(Const(outer.idxs[i].range - 1), whole(i))
      inner ==
        [outer EXCEPT
           !.tags = IF copyTags THEN @ ELSE {},
           !.stmts = FoldLeft(LAMBDA ss, i : MapSeq(ss, LAMBDA s : SubstituteIdxs(s, name(i), whole(i))),
                              @, passed),
           !.constraints =
             FoldLeft(LAMBDA cs, i : MapSeq(cs, LAMBDA c : Substitute(c, name(i), whole(i)))
                                     \o (IF uneven(i) THEN <<limit(i)>> ELSE <<>>), @, passed),
           !.idxs = [i \in 1..Len(@) |-> IF @[i].range = 1 THEN [@[i] EXCEPT !.affine = Var(name(i))]
                                         ELSE [@[i] EXCEPT !.range = shape[i]]]
                    \o MapSeq(passed, LAMBDA i : Index(passName(i), 1, Term(name(i), shape[i])))]
      Step(a) == [v \in Vars(a) |-> a[v] * shape[IdxByName(outer, v)]] @@ Zero
  IN  [outer EXCEPT
         !.constraints = <<>>,
         !.stmts = <<inner>>,
         !.idxs = [i \in 1..Len(@) |-> IF @[i].range = 1 THEN @[i]
                                       ELSE [@[i] EXCEPT !.range = RoundUp(@, shape[i])]] \o <<>>,
         !.refs = MapSeq(SelectSeq(@, LAMBDA r : r.dir # None), LAMBDA r :
                    [r EXCEPT !.shape = ExteriorShape(inner, r.into),
                              !.into = r.from,
                              !.access = MapSeq(@, Step)])]

\* ApplyTile, which leaves the block alone when the tile is trivial and elide asks for that.
Tiles(b, shape, elide) == ~(elide /\ TrivialTile(b, shape))
ApplyTile(b, shape, elide, copyTags) ==
  IF Tiles(b, shape, elide) THEN Tile(b, shape, copyTags) ELSE b

\* What a pass puts on the two blocks after a tiling: tags on the outer and on the inner one.
AddTags(b, tags) == [b EXCEPT !.tags = @ \cup tags]
OnInner(b, F(_)) == [b EXCEPT !.stmts[1] = F(@)]

-----------------------------------------------------------------------------
(* The stencil pass.  A stencil is [startup, idxs], an index of it [name,   *)
(* size, outs, ins]: its size, -1 when flexible, and the stride each output *)
(* and input must have in it, -1 when any will do.                          *)

IsLegal(rule, stride) == rule = -1 \/ stride = rule

\* The names a stencil index can be matched to; virtual ones make up for missing indexes.
StencilNames(b, spec) ==
  {b.idxs[i].name : i \in DOMAIN b.idxs} \cup
  {UniqueIdxName(b, "$" \o ToString(k)) : k \in Len(b.idxs)..(Len(spec.idxs) - 1)}

LegalIndex(b, rule, v) ==
  /\ Len(rule.outs) = Len(RefOuts(b)) /\ Len(rule.ins) = Len(RefIns(b))
  /\ \A k \in DOMAIN rule.outs : IsLegal(rule.outs[k], Coef(FlatAccess(RefOuts(b)[k]), v))
  /\ \A k \in DOMAIN rule.ins : IsLegal(rule.ins[k], Coef(FlatAccess(RefIns(b)[k]), v))

\* The matches of a stencil: the cost of each and, for each index of the block, the stencil
\* index it is matched to ("*" for none) and the size of its tile.
StencilMatches(b, spec) ==
  LET Maps == {m \in [DOMAIN spec.idxs -> StencilNames(b, spec)] :
                 IsInjective(m) /\ \A k \in DOMAIN m : LegalIndex(b, spec.idxs[k], m[k])}
      Match(m) ==
        LET rule(x) == CHOOSE k \in DOMAIN m : m[k] = x.name
            One(x) == IF x.name \notin Range(m) THEN [idx |-> x.name, stencil |-> "*", value |-> 1]
                      ELSE [idx |-> x.name, stencil |-> spec.idxs[rule(x)].name,
                            value |-> IF spec.idxs[rule(x)].size = -1 THEN x.range
                                      ELSE spec.idxs[rule(x)].size]
            idxs == MapSeq(b.idxs, One)
            tiles(i) == RoundUp(b.idxs[i].range, idxs[i].value)
            product(F(_)) == FoldLeftDomain(LAMBDA p, i : p * F(i), 1, b.idxs)
        IN  [idxs |-> idxs,
             cost |-> product(LAMBDA i : tiles(i) * idxs[i].value) + spec.startup * product(tiles)]
  IN  {Match(m) : m \in Maps}

\* The cheapest matches; the code breaks a tie by the names.
BestStencils(b, specs) ==
  LET all == UNION {StencilMatches(b, s) : s \in specs}
  IN  {m \in all : \A o \in all : m.cost <= o.cost}

ApplyIndexTags(b, match) ==
  [b EXCEPT !.idxs = MapSeq(@, LAMBDA x :
     LET m == SelectInSeq(match.idxs, LAMBDA y : y.idx = x.name)
     IN  IF m = 0 \/ match.idxs[m].stencil = "*" THEN x
         ELSE [x EXCEPT !.tags = @ \cup {"stencil_" \o match.idxs[m].stencil}])]

\* Inner blocks first; a block with the tags is tiled to its cheapest match.
RECURSIVE StencilPass(_, _)
StencilPass(b, o) ==
  LET done == [b EXCEPT !.stmts = MapSeq(@, LAMBDA s : IF IsBlock(s) THEN StencilPass(s, o) ELSE s)]
      best == BestStencils(done, o.stencils)
      match == CHOOSE m \in best : TRUE
      tiled == Tile(done, MapSeq(match.idxs, LAMBDA x : x.value), FALSE)
  IN  IF ~HasTags(b, o.reqs) \/ best = {} THEN done
      ELSE AddTags(OnInner(ApplyIndexTags(tiled, match),
                           LAMBDA i : AddTags(ApplyIndexTags(i, match), o.innerSet)), o.outerSet)

-----------------------------------------------------------------------------
(* The search for a tile.  A cost is a fraction <<n, d>>, d > 0, or         *)
(* Infinite; a tile is the size of each index.                              *)

Infinite == <<1, 0>>
Less(c, d) == IF d = Infinite THEN c # Infinite ELSE c # Infinite /\ c[1] * d[2] < d[1] * c[2]

Counts(b, tile) == [i \in 1..Len(tile) |-> RoundUp(b.idxs[i].range, tile[i])] \o <<>>
Product(s) == FoldLeft(LAMBDA p, n : p * n, 1, s)

\* The cache lines a shape touches, over the width of a line in elements to the power of the
\* number of dimensions (TensorShape::memory_io).
MemoryIO(shape, width) ==
  LET abs(d) == Larger(d.stride, -d.stride)
      dims == SortSeq(shape, LAMBDA d, e : abs(d) < abs(e))
      Add(acc, d) ==
        LET gap == abs(d) - acc.max
            shared == IF width # 0 /\ gap < width THEN width - gap ELSE 0
        IN  [lines |-> acc.lines * d.size * Larger(width, 1)
                         - shared * (d.size - 1) * acc.scale,
             scale |-> acc.scale * Larger(width, 1),
             max |-> acc.max + abs(d) * (d.size - 1)]
  IN  FoldLeft(Add, [lines |-> 1, scale |-> 1, max |-> 0], dims)

FracPlus(c, d) == <<c[1] * d[2] + d[1] * c[2], c[2] * d[2]>>

\* The cost model of the autotile pass; o holds its options.
DensityCost(b, tile, o) ==
  LET counted == SelectSeq(b.refs, LAMBDA r :
                   /\ r.dir # None
                   /\ ~(o.skip1d /\ Len(r.shape) = 1)
                   /\ o.locName \in {"", r.location.name})
      tiled(r) == TileShape(r, ByName(b, tile))
      Bytes(rs) == FoldLeft(LAMBDA n, r : n + SizesProduct(tiled(r)) * o.elemBytes, 0, rs)
      Bandwidth(rs) == FoldLeft(LAMBDA c, r :
                         LET io == MemoryIO(tiled(r), o.cacheWidth \div o.elemBytes)
                         IN  FracPlus(c, <<io.lines, io.scale>>), <<0, 1>>, rs)
      ins == SelectSeq(counted, LAMBDA r : r.dir = In)
      outs == SelectSeq(counted, LAMBDA r : r.dir = Out)
      Over(max, n) == max # 0 /\ n > max
      io == FracPlus(Bandwidth(ins), Bandwidth(outs))
      padded == Product([i \in 1..Len(tile) |-> tile[i] * Counts(b, tile)[i]])
  IN  IF \/ Over(o.maxOutput, Bytes(outs)) \/ Over(o.maxInput, Bytes(ins))
         \/ Over(o.maxTotal, Bytes(counted)) \/ Over(o.maxSizes, Product(tile))
      THEN Infinite
      ELSE FracPlus(<<padded * io[1], IdxsProduct(b) * io[2] * Product(tile)>>,
                    <<Product(Counts(b, tile)), 1>>)

\* The cost model of the partitioning of work over a number of parts.
PartitionCost(b, tile, parts) ==
  LET counts == Product(Counts(b, tile))
  IN  IF counts * parts < IdxsProduct(b) THEN Infinite ELSE <<counts, 1>>

\* The order of the tiles on the search's list: by cost, then by size and count of each index.
TileBefore(b, s, t) ==
  \/ Less(s.cost, t.cost)
  \/ /\ ~Less(t.cost, s.cost)
     /\ \E i \in DOMAIN s.tile : /\ s.tile[i] < t.tile[i]
                                /\ \A j \in 1..(i - 1) : s.tile[j] = t.tile[j]

\* PickBestTile: from the smallest tile, the cheapest one on the list is grown by a step in each
\* free index; a tile already seen is not looked at again, an infinite one not grown.  A fast
\* search stops when the list has nothing as cheap as the last cost computed.
RECURSIVE SearchTiles(_, _, _, _, _, _, _)
SearchTiles(b, free, po2, fast, Cost, todo, st) ==
  LET first == CHOOSE s \in todo : \A t \in todo \ {s} : TileBefore(b, s, t)
      Grown(i) == [first.tile EXCEPT ![i] =
                     Smaller(IF po2 THEN 2 * @ ELSE @ + 1, b.idxs[i].range)]
      Try(acc, i) ==
        IF i \notin free \/ \E k \in DOMAIN acc.found : acc.found[k].tile = Grown(i) THEN acc
        ELSE [found |-> Append(acc.found, [tile |-> Grown(i), cost |-> Cost[Grown(i)]]),
              last |-> Cost[Grown(i)]]
      next == FoldLeftDomain(Try, [st EXCEPT !.last = first.cost], b.idxs)
      new == {next.found[k] : k \in (Len(st.found) + 1)..Len(next.found)}
  IN  IF todo = {} \/ (fast /\ Less(st.last, first.cost)) THEN st.found
      ELSE SearchTiles(b, free, po2, fast, Cost,
                       (todo \ {first}) \cup {s \in new : s.cost # Infinite}, next)

\* The first found of the cheapest tiles; changed: of those that are no dearer than the first tile,
\* the one found last.
CheapestOfFirst(found) == found[SelectLastInSeq(found, LAMBDA s : ~Less(found[1].cost, s.cost))]
Cheapest(found) == found[SelectInSeq(found, LAMBDA s : \A k \in DOMAIN found : ~Less(found[k].cost, s.cost))]
PickBestTile(b, free, po2, fast, Cost) ==
  LET start == [i \in 1..Len(b.idxs) |-> IF i \in free THEN 1 ELSE b.idxs[i].range] \o <<>>
      first == [tile |-> start, cost |-> Cost[start]]
  IN  Cheapest(SearchTiles(b, free, po2, fast, Cost,
                           IF first.cost = Infinite THEN {} ELSE {first},
                           [found |-> <<first>>, last |-> first.cost]))

AllTiles(b) ==
  {t \in [1..Len(b.idxs) -> 1..FoldLeft(LAMBDA m, x : Larger(m, x.range), 1, b.idxs)] :
     \A i \in DOMAIN t : t[i] <= b.idxs[i].range}
FreeIdxs(b, accToo) ==
  {i \in DOMAIN b.idxs : accToo \/ b.idxs[i].name \notin AccumulationIdxs(b)}

Autotile(b, o) ==
  LET Outer(tiled) == [tiled EXCEPT !.tags = (IF o.clearOuter THEN {} ELSE @) \cup o.outerSet,
                                    !.location = IF o.clearLocation THEN NoLocation ELSE @]
      Inner(i) == [i EXCEPT !.tags = (IF o.copyTags THEN b.tags ELSE @) \cup o.innerSet]
      With(best) == IF best.cost = Infinite \/ ~Tiles(b, best.tile, TRUE) THEN b
                    ELSE OnInner(Outer(Tile(b, best.tile, FALSE)), Inner)
  IN  With(PickBestTile(b, FreeIdxs(b, o.accIdxs), o.onlyPo2, o.fast,
                        [t \in AllTiles(b) |-> DensityCost(b, t, o)]))
AutotilePass(root, o) == RunOnBlocks(root, o.reqs, LAMBDA b, path : Autotile(b, o))

PartitionCompute(b, o) ==
  LET best == PickBestTile(b, FreeIdxs(b, FALSE), FALSE, FALSE,
                           [t \in AllTiles(b) |-> PartitionCost(b, t, o.numParts)])
      tiled == OnInner(Tile(b, Counts(b, best.tile), FALSE), LAMBDA i : [i EXCEPT !.tags = b.tags])
      Mark(x) == [x EXCEPT !.tags = (@ \cup (IF x.range > 1 THEN {o.idxTag} ELSE {})) \ {"bank"}]
  IN  [tiled EXCEPT !.tags = o.setTags,
                    !.idxs = IF o.idxTag = "" THEN @ ELSE MapSeq(@, Mark)]
PartitionComputePass(root, o) == RunOnBlocks(root, o.reqs, LAMBDA b, path : PartitionCompute(b, o))

-----------------------------------------------------------------------------
(* Threads: a tile of at most o.threads elements, taken from the indexes in *)
(* order: those of the output first (the comparison the code calls is_out   *)
(* is of the others), nearest to a power of two from above, then largest.   *)

ThreadOrder(b) ==
  LET flat == FlatAccess(RefOuts(b)[1])
      notOut(x) == Coef(flat, x.name) = 0
      Before(i, j) ==
        LET x == b.idxs[i]
            y == b.idxs[j]
            a == x.range * NearestPo2(y.range)
            c == y.range * NearestPo2(x.range)
        IN  IF notOut(x) # notOut(y) THEN notOut(y)
            ELSE IF a # c THEN a > c ELSE x.range > y.range
  IN  SortSeq([i \in 1..Len(b.idxs) |-> i], Before)

ThreadInner(b, o) ==
  LET Take(acc, i) ==
        LET split == Smaller(acc.threads, NearestPo2(b.idxs[i].range))
        IN  IF acc.threads <= 1 THEN acc
            ELSE [threads |-> acc.threads \div split, tile |-> [acc.tile EXCEPT ![i] = split]]
      tile == FoldLeft(Take, [threads |-> o.threads, tile |-> MapSeq(b.idxs, LAMBDA x : 1)],
                       ThreadOrder(b)).tile
  IN  Tile(b, tile, FALSE)
\* It throws when a block has not exactly one output.
ThreadInnerRuns(root, o) ==
  \A p \in ToSet(MatchingPaths(root, o.reqs)) : Len(RefOuts(BlockAt(root, p))) = 1
ThreadInnerPass(root, o) == RunOnBlocks(root, o.reqs, LAMBDA b, path : ThreadInner(b, o))
=============================================================================
