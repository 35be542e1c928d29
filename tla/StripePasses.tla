---------------------------- MODULE StripePasses ----------------------------
(***************************************************************************)
(* The passes of tile/codegen that move buffers and statements: localize,  *)
(* locate, scalarize, transpose, cache, unroll and tidy.                   *)
(***************************************************************************)
EXTENDS StripeTile

RenameBlocks(b, F(_)) == [b EXCEPT !.stmts = MapSeq(@, LAMBDA s : IF IsBlock(s) THEN F(s) ELSE s)]

-----------------------------------------------------------------------------
(* localize.cc                                                              *)

\* The layout of a buffer handed to the views of it in the inner blocks.
RECURSIVE FixupRefs(_, _)
FixupRefs(b, name) ==
  LET ref == b.refs[RefByInto(b, name)]
      Fix(r) == [r EXCEPT !.location = ref.location, !.offset = ref.offset,
                          !.shape = [i \in 1..Len(@) |-> [@[i] EXCEPT !.stride = ref.shape[i].stride]]
                                    \o <<>>]
      Inner(s) ==
        FoldLeftDomain(LAMBDA x, i : IF x.refs[i].from # name THEN x
                                     ELSE FixupRefs([x EXCEPT !.refs[i] = Fix(@)], x.refs[i].into),
                       s, s.refs)
  IN  IF RefByInto(b, name) = 0 THEN b ELSE RenameBlocks(b, Inner)

\* A view becomes a buffer of its own, as large as the view.
LocalizeRef(b, name) ==
  FixupRefs([b EXCEPT !.refs[RefByInto(b, name)] =
               [@ EXCEPT !.shape = SimpleShape(Sizes(@)), !.dir = None, !.from = "",
                         !.access = MapSeq(@, LAMBDA a : Zero)]], name)

\* A buffer of the block, or one tagged tmp, that only one statement uses moves into it.
RECURSIVE Localize(_)
Localize(b) ==
  LET uses == RefUseCounts(b)
      Into(acc, k) ==
        LET inner == acc.stmts[k]
            outer(r) == RefByInto(acc, r.from)
            moved == {r \in ToSet(inner.refs) :
                        /\ outer(r) # 0
                        /\ acc.refs[outer(r)].dir = None \/ HasTags(acc.refs[outer(r)], {"tmp"})
                        /\ uses[r.from] = 1}
            intos == SelectSeq(MapSeq(inner.refs, LAMBDA r : r.into), LAMBDA n : n \in {r.into : r \in moved})
        IN  IF ~IsBlock(inner) THEN acc
            ELSE [acc EXCEPT
                    !.refs = SelectSeq(@, LAMBDA r : r.into \notin {m.from : m \in moved}),
                    !.stmts[k] = Localize(FoldLeft(LocalizeRef, @, intos))]
  IN  FoldLeftDomain(Into, b, b.stmts)
LocalizePass(root, o) == RunOnBlocks(root, o.reqs, LAMBDA b, path : Localize(b))

\* The memory a block declares, or the block itself, gets a location.
LocateMemoryPass(root, o) ==
  LET Locate(b) ==
        FoldLeftDomain(LAMBDA x, i :
          IF x.refs[i].dir # None THEN x
          ELSE FixupRefs([x EXCEPT !.refs[i].location = o.loc], x.refs[i].into), b, b.refs)
  IN  RunOnBlocks(root, o.reqs, LAMBDA b, path : Locate(b))
LocateBlockPass(root, o) ==
  RunOnBlocks(root, o.reqs, LAMBDA b, path : [b EXCEPT !.location = o.loc])

RECURSIVE LocateInnerBlock(_, _)
LocateInnerBlock(b, o) ==
  RenameBlocks(b, LAMBDA s :
    LocateInnerBlock(IF HasTags(s, o.innerReqs) THEN [s EXCEPT !.location = o.loc] ELSE s, o))
LocateInnerBlockPass(root, o) == RunOnBlocks(root, o.reqs, LAMBDA b, path : LocateInnerBlock(b, o))

-----------------------------------------------------------------------------
(* scalarize.cc: buffers of one element that only loads and stores use      *)
(* become scalars.                                                          *)

RECURSIVE Scalarize(_)
Scalarize(b) ==
  LET shared == UNION {ToSet(BufferReads(s)) \cup ToSet(BufferWrites(s)) :
                         s \in {t \in ToSet(b.stmts) : t.kind \in {"special", "block"}}}
      single == {r.into : r \in {x \in ToSet(b.refs) : x.dir = None /\ ElemSize(x.shape) = 1}} \ shared
      Keep(acc, s) == [acc EXCEPT !.stmts = Append(@, s)]
      Step(acc, s) ==
        LET alias(n) == IF n \in DOMAIN acc.alias THEN acc.alias[n] ELSE n
            held(n) == IF n \in DOMAIN acc.held THEN acc.held[n] ELSE ""
        IN  CASE s.kind = "store" /\ s.into \in single ->
                   [acc EXCEPT !.held = (s.into :> alias(s.from)) @@ @]
              [] s.kind = "store" /\ s.into \notin single -> Keep(acc, Store(alias(s.from), s.into))
              [] s.kind = "load" /\ s.from \in single ->
                   [acc EXCEPT !.alias = (s.into :> held(s.from)) @@ @]
              [] s.kind = "intrinsic" -> Keep(acc, [s EXCEPT !.inputs = MapSeq(@, alias)])
              [] OTHER -> Keep(acc, s)
      done == FoldLeft(Step, [stmts |-> <<>>, held |-> Zero, alias |-> Zero], b.stmts)
  IN  RenameBlocks([b EXCEPT !.refs = SelectSeq(@, LAMBDA r : r.into \notin single),
                             !.stmts = done.stmts], Scalarize)
ScalarizePass(root, o) == RunOnBlocks(root, o.reqs, LAMBDA b, path : Scalarize(b))

-----------------------------------------------------------------------------
(* transpose.cc: the dimension the accumulation indexes use most becomes    *)
(* the contiguous one, the others follow from the largest to the smallest.  *)

\* What the matching blocks read: buffer -> [path, ref, shape], shape being how much of each
\* dimension the accumulation indexes run over.
CollectUsage(root, o) ==
  LET summed(b, a) == MapThenSumSet(LAMBDA v : b.idxs[IdxByName(b, v)].range, AccumulationIdxs(b) \cap Vars(a))
      Read(us, b, r, i) ==
        LET old == IF i.base \in DOMAIN us THEN us[i.base].shape ELSE MapSeq(r.access, LAMBDA a : 0)
        IN  IF ~HasTags(BlockAt(root, i.path), o.allocReqs) THEN us
            ELSE (i.base :> [path |-> i.path, ref |-> i.ref,
                             shape |-> [d \in 1..Len(old) |-> old[d] + summed(b, r.access[d])] \o <<>>])
                 @@ us
      InBlock(usages, b, info) == FoldLeft(LAMBDA us, r : Read(us, b, r, info[r.into]), usages, RefIns(b))
  IN  FoldLeft(LAMBDA us, path : InBlock(us, BlockAt(root, path), AliasAt(root, path).info),
               Zero, MatchingPaths(root, o.reqs))

\* The first dimension used most; the first one when none is used.
StrideOneDim(usage) ==
  CHOOSE d \in DOMAIN usage.shape :
    \A e \in DOMAIN usage.shape : /\ usage.shape[e] <= usage.shape[d]
                                  /\ e < d => usage.shape[e] < usage.shape[d]

Restride(shape, first) ==
  LET Before(i, j) ==
        \/ i = first /\ j # first
        \/ i # first /\ j # first /\ \/ shape[i].size > shape[j].size
                                     \/ shape[i].size = shape[j].size /\ shape[i].stride < shape[j].stride
      order == SortSeq([i \in 1..Len(shape) |-> i], Before)
      place(i) == SelectInSeq(order, LAMBDA k : k = i)
  IN  [i \in 1..Len(shape) |->
         Dim(FoldLeft(LAMBDA p, k : p * shape[k].size, 1, SubSeq(order, 1, place(i) - 1)), shape[i].size)]
      \o <<>>

TransposePass(root, o) ==
  LET Put(r, u, b, new) ==
        IF new = b.refs[u.ref].shape \/ new = <<>> THEN r
        ELSE PutBlock(r, u.path, FixupRefs([b EXCEPT !.refs[u.ref].shape = new], b.refs[u.ref].into))
      Transposed(r, u, b) == Put(r, u, b, Restride(b.refs[u.ref].shape, StrideOneDim(u)))
      All(usages) ==
        FoldSet(LAMBDA base, r : Transposed(r, usages[base], BlockAt(r, usages[base].path)), root, DOMAIN usages)
  IN  All(CollectUsage(root, o))

-----------------------------------------------------------------------------
(* cache.cc: a view is replaced by a buffer of its size, filled before the  *)
(* statements of the block and written back after them.                     *)

ApplyCache(b, name, memLoc, xferLoc) ==
  LET old == b.refs[RefByInto(b, name)]
      raw == UniqueRefName(b, name \o "_raw")
      dims == DOMAIN old.shape
      index(i) == "i" \o ToString(i - 1)
      view(dir, into, from, shape, loc) ==
        [Refinement(dir, from, into,
                    [i \in 1..Len(old.shape) |-> IF old.shape[i].size > 1 THEN Var(index(i)) ELSE Zero] \o <<>>,
                    WithSizes(shape, 1), "")
         EXCEPT !.location = loc, !.offset = old.offset]
      cached == SimpleShape(Sizes(old.shape))
      xfer(tags, refs) ==
        [EmptyBlock EXCEPT
           !.location = xferLoc, !.tags = tags, !.refs = refs,
           !.idxs = SelectSeq([i \in 1..Len(old.shape) |-> Index(index(i), old.shape[i].size, Zero)],
                              LAMBDA x : x.range > 1),
           !.stmts = <<Load("src", "$X"), Store("$X", "dst")>>]
      load == xfer({"cache", "cache_load"}, <<view(In, "src", raw, old.shape, old.location),
                                              view(Out, "dst", name, cached, memLoc)>>)
      store == xfer({"cache", "cache_store"}, <<view(In, "src", name, cached, memLoc),
                                                view(Out, "dst", raw, old.shape, old.location)>>)
      local == [Refinement(None, "", name, MapSeq(old.access, LAMBDA a : Zero), cached, "")
                EXCEPT !.location = memLoc]
  IN  FixupRefs([b EXCEPT
        !.refs = Append([@ EXCEPT ![RefByInto(b, name)].into = raw], local),
        !.stmts = (IF "in" \in old.dir THEN <<load>> ELSE <<>>) \o @
                  \o (IF "out" \in old.dir THEN <<store>> ELSE <<>>)], name)

CachePass(root, o) ==
  RunOnBlocks(root, o.reqs, LAMBDA b, path :
    FoldLeft(LAMBDA x, r : IF r.dir \in o.dirs THEN ApplyCache(x, r.into, o.memLoc, o.xferLoc) ELSE x,
             b, b.refs))

-----------------------------------------------------------------------------
(* unroll.cc: a block that loops over blocks becomes the blocks, once for   *)
(* each index state.                                                        *)

\* Indexes with these values put in place, in the block and in those below it.  o.expandIdx is
\* handed down as well when it is a tag (o.expandTag).
RECURSIVE EvalWithValues(_, _, _)
EvalWithValues(b, fixed, o) ==
  LET In_(a) == PartialEval(a, fixed)
      Inner(s) ==
        LET idxs == MapSeq(s.idxs, LAMBDA x : [x EXCEPT !.affine = In_(@)])
            known(x) == x.range = 1 /\ IsConstant(x.affine)
            values == FoldLeft(LAMBDA m, x : IF known(x) THEN m @@ (x.name :> Coef(x.affine, "")) ELSE m,
                               IF o.expandTag THEN Restrict(fixed, DOMAIN fixed \cap {o.expandIdx}) @@ Zero
                               ELSE Zero, idxs)
        IN  [EvalWithValues([s EXCEPT !.idxs = idxs], values, o)
             EXCEPT !.idxs = SelectSeq(@, LAMBDA x : ~known(x))]
  IN  RenameBlocks(
        [b EXCEPT
           !.location.unit = In_(@),
           !.refs = MapSeq(@, LAMBDA r : [r EXCEPT !.location.unit = In_(@), !.access = MapSeq(@, In_),
                                                   !.cacheUnit = MapSeq(@, In_)]),
           !.constraints = MapSeq(@, In_)], Inner)

\* The mixed-radix number of the indexes the expansion is made of.
ExpandValue(b, values, o) ==
  LET counts(x) == IF o.expandTag THEN HasTags(x, {o.expandOf}) ELSE x.name = o.expandIdx
      Add(acc, x) == IF ~counts(x) THEN acc
                     ELSE [value |-> acc.value + acc.stride * values[x.name],
                           stride |-> acc.stride * x.range]
  IN  FoldLeft(Add, [value |-> 0, stride |-> 1], b.idxs).value

\* A block at one of its index states: [outer, stmts, sound], outer with the views it adds.  A view
\* that is there under its name is taken as it is, and a view of a buffer that outer declares is a
\* buffer of its own: sound says that it is the same view, and a view.
EvalInner(outer, b, values, o) ==
  LET fixed == IF o.expandIdx = "" THEN values
               ELSE values @@ (o.expandIdx :> ExpandValue(b, values, o))
      suffix == FoldLeft(LAMBDA s, x : s \o "_" \o x.name \o "_" \o ToString(values[x.name]),
                         "%" \o o.partName, b.idxs)
      PutRef(acc, r, mid, out) ==
        LET constant(i) == Const(Coef(mid.access[i], ""))
            viewed == o.makeViews /\ mid.shape # out.shape
            name == out.into \o suffix
            view == [mid EXCEPT
                       !.from = out.from, !.into = name,
                       !.cacheUnit = IF r.cacheUnit # <<>> \/ out.cacheUnit # <<>> THEN out.cacheUnit ELSE @,
                       !.access = [i \in 1..Len(@) |-> Plus(out.access[i], constant(i))] \o <<>>]
            new == [r EXCEPT
                      !.from = IF viewed THEN name ELSE mid.from,
                      !.access = [i \in 1..Len(@) |->
                        Minus(Plus(r.access[i], mid.access[i]), IF viewed THEN constant(i) ELSE Zero)] \o <<>>]
            there == SelectSeq(acc.outer.refs, LAMBDA x : x.into = name)
            Same(x, y) == x.from = y.from /\ x.access = y.access /\ x.shape = y.shape
        IN  [acc EXCEPT
               !.outer.refs = IF viewed /\ there = <<>> THEN Append(@, view) ELSE @,
               !.refs = Append(@, new),
               !.sound = @ /\ (viewed => out.from # "" /\ \A x \in ToSet(there) : Same(x, view))]
      PutInner(acc, r, mid) == PutRef(acc, r, mid, acc.outer.refs[RefByInto(acc.outer, mid.from)])
      PutStmts(here) ==
        LET Ref(acc, r) == IF r.from = "" THEN [acc EXCEPT !.refs = Append(@, r)]
                           ELSE PutInner(acc, r, here.refs[RefByInto(here, r.from)])
            Put(done, s) == [done EXCEPT !.stmts = Append(@, [s EXCEPT !.refs = done.refs])]
            Stmt(acc, s) == IF IsBlock(s) THEN Put(FoldLeft(Ref, [acc EXCEPT !.refs = <<>>], s.refs), s)
                            ELSE [acc EXCEPT !.stmts = Append(@, s)]
        IN  FoldLeft(Stmt, [outer |-> outer, refs |-> <<>>, stmts |-> <<>>, sound |-> TRUE], here.stmts)
  IN  PutStmts(EvalWithValues(b, fixed, o))

\* The index states of a block counted from zero, in the order of its loops.
IndexStates(b) ==
  FoldLeft(LAMBDA vs, x : FlattenSeq(MapSeq(vs, LAMBDA v :
             [i \in 1..x.range |-> (x.name :> i - 1) @@ v] \o <<>>)), <<Zero>>, b.idxs)

\* Blocks with the tags are replaced by their clones, the others searched: [block, sound].
RECURSIVE Unroll(_, _)
Unroll(outer, o) ==
  LET Add(acc, one) == [outer |-> one.outer, stmts |-> acc.stmts \o one.stmts, sound |-> acc.sound /\ one.sound]
      Keep(acc, in) == Add(acc, [outer |-> acc.outer, stmts |-> <<in.block>>, sound |-> in.sound])
      Stmt(acc, s) ==
        CASE ~IsBlock(s) -> [acc EXCEPT !.stmts = Append(@, s)]
          [] IsBlock(s) /\ HasTags(s, o.reqs) ->
               FoldLeft(LAMBDA a, v : Add(a, EvalInner(a.outer, s, v, o)), acc, IndexStates(s))
          [] OTHER -> Keep(acc, Unroll(s, o))
      Result(done) == [block |-> [done.outer EXCEPT !.stmts = done.stmts], sound |-> done.sound]
  IN  Result(FoldLeft(Stmt, [outer |-> outer, stmts |-> <<>>, sound |-> TRUE], outer.stmts))

\* It throws when a statement it moves uses a buffer that the unrolled block declares itself.
RECURSIVE UnrollRuns(_, _)
UnrollRuns(outer, o) ==
  \A s \in {t \in ToSet(outer.stmts) : IsBlock(t)} :
    IF HasTags(s, o.reqs)
    THEN \A t \in {u \in ToSet(s.stmts) : IsBlock(u)} : \A r \in ToSet(t.refs) :
           r.from # "" => /\ RefByInto(s, r.from) # 0
                          /\ RefByInto(outer, s.refs[RefByInto(s, r.from)].from) # 0
    ELSE UnrollRuns(s, o)

-----------------------------------------------------------------------------
(* tidy.cc.  An index is removed unless it has all of the tags to exclude:  *)
(* with no such tags, as in the pass, none is.                              *)

PruneIndexes(b, exclude) ==
  LET gone(x) == ~HasTags(x, exclude) /\ x.range = 1 /\ x.affine = Zero
      names == {x.name : x \in {y \in ToSet(b.idxs) : gone(y)}}
      Drop(a) == Without(a, names)
  IN  RenameBlocks(
        [b EXCEPT !.refs = MapSeq(@, LAMBDA r : [r EXCEPT !.access = MapSeq(@, Drop)]),
                  !.constraints = MapSeq(@, Drop),
                  !.idxs = SelectSeq(@, LAMBDA x : ~gone(x))],
        LAMBDA s : [s EXCEPT !.idxs = MapSeq(@, LAMBDA x : [x EXCEPT !.affine = Drop(@)])])
PruneIndexesPass(root, o) == RunOnBlocks(root, o.reqs, LAMBDA b, path : PruneIndexes(b, {}))

RECURSIVE PruneRefinements(_)
PruneRefinements(b) ==
  LET done == RenameBlocks(b, PruneRefinements)
  IN  [done EXCEPT !.refs = SelectSeq(@, LAMBDA r : r.into \in DOMAIN RefUseCounts(done))]
PruneRefinementsPass(root, o) == RunOnBlocks(root, o.reqs, LAMBDA b, path : PruneRefinements(b))

-----------------------------------------------------------------------------
(* partition.cc: a block is split so that each part uses one bank of its    *)
(* largest input.                                                           *)

\* The first of the elements that no other exceeds, 0 when there are none or all are zero.
FirstBest(s) == SelectInSeq(s, LAMBDA n : n > 0 /\ \A i \in DOMAIN s : s[i] <= n)

\* What one block says of its largest input: [base, dim, idx]; dim is 0 when it is skipped.
BankUse(root, path, b, info) ==
  LET ins == RefIns(b)
      size(r) == ElemSize(BlockAt(root, info[r.into].path).refs[info[r.into].ref].shape)
      usable(big, x) == /\ Coef(FlatAccess(big), x.name) # 0
                        /\ Coef(FlatAccess(RefOuts(b)[1]), x.name) # 0
                        /\ x.range # 1
      Along(big, dims, name) ==
        IF Cardinality(dims) # 1 THEN [dim |-> 0]
        ELSE [base |-> info[big.into].base, dim |-> CHOOSE d \in dims : TRUE, idx |-> name, path |-> path]
      Split(big, idx) ==
        IF idx = 0 THEN [dim |-> 0]
        ELSE Along(big, {d \in DOMAIN big.access : Coef(big.access[d], b.idxs[idx].name) # 0}, b.idxs[idx].name)
      Largest(n) == IF Len(RefOuts(b)) # 1 \/ n = 0 THEN [dim |-> 0]
                    ELSE Split(ins[n], SelectInSeq(b.idxs, LAMBDA x : usable(ins[n], x)))
  IN  Largest(FirstBest(MapSeq(ins, size)))

BankUses(root, o) ==
  LET use(p) == BankUse(root, p, BlockAt(root, p), AliasAt(root, p).info)
  IN  SelectSeq(MapSeq(MatchingPaths(root, o.reqs), use), LAMBDA u : u.dim # 0)

BiggestIndexForDim(b, ref, dim) ==
  FirstBest(MapSeq(b.idxs, LAMBDA x : IF x.name \in Vars(ref.access[dim]) THEN x.range ELSE 0))

\* The index each refinement of a block to a banked buffer is split along: position in refs -> index.
BankIndexes(root, path, info, uses) ==
  LET b == BlockAt(root, path)
      of(r) == SelectInSeq(uses, LAMBDA u : u.base = info[r.into].base)
      own(r) == SelectInSeq(uses, LAMBDA u : u.base = info[r.into].base /\ u.path = path)
      index(r) == IF own(r) # 0 THEN IdxByName(b, uses[own(r)].idx)
                  ELSE BiggestIndexForDim(b, r, uses[of(r)].dim)
  IN  [i \in {k \in DOMAIN b.refs : of(b.refs[k]) # 0} |->
         [idx |-> index(b.refs[i]), primary |-> own(b.refs[i]) # 0]] @@ Zero

\* The tags of a primary index are set on the first index of its name; all the split ones are
\* tagged $part, which keeps them from being removed.
PartitionBuffer(b, banked, o) ==
  LET split == {banked[i].idx : i \in DOMAIN banked}
      primary == {banked[i].idx : i \in {k \in DOMAIN banked : banked[k].primary}}
      tile == [i \in 1..Len(b.idxs) |->
                 IF i \in split THEN RoundUp(b.idxs[i].range, o.numParts) ELSE b.idxs[i].range] \o <<>>
      marked == [b EXCEPT !.idxs = [i \in 1..Len(@) |->
                   IF i \in split THEN [@[i] EXCEPT !.tags = @ \cup {"$part"}] ELSE @[i]] \o <<>>]
      tiled == Tile(marked, tile, TRUE)
  IN  PruneIndexes(
        [tiled EXCEPT
           !.refs = [i \in 1..Len(@) |->
             IF i \in DOMAIN banked THEN [@[i] EXCEPT !.cacheUnit = <<Var(b.idxs[banked[i].idx].name)>>]
             ELSE @[i]] \o <<>>,
           !.tags = o.setTags,
           !.idxs = [i \in 1..Len(@) |->
             IF i \in primary THEN [@[i] EXCEPT !.tags = @ \cup {o.idxTag}] ELSE @[i]] \o <<>>],
        {"$part"})

PartitionMemoryPass(root, o) ==
  LET Banked(uses) ==
        RunOnBlocks(root, o.reqs, LAMBDA b, path :
          PartitionBuffer(b, BankIndexes(root, path, AliasAt(root, path).info, uses), o))
  IN  Banked(BankUses(root, o))

\* It throws when two blocks differ about the dimension, or a block has no index to split along.
PartitionMemoryRuns(root, o) ==
  LET Agree(uses) == \A i, j \in DOMAIN uses : uses[i].base = uses[j].base => uses[i].dim = uses[j].dim
      Split(banked) == \A i \in DOMAIN banked : banked[i].idx # 0
      Runs(uses) == /\ Agree(uses)
                    /\ \A p \in ToSet(MatchingPaths(root, o.reqs)) :
                         Split(BankIndexes(root, p, AliasAt(root, p).info, uses))
  IN  Runs(BankUses(root, o))
=============================================================================
