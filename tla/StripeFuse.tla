----------------------------- MODULE StripeFuse -----------------------------
(***************************************************************************)
(* tile/codegen/fuse.cc: two neighbouring blocks, the second reading what  *)
(* the first writes, become one.  The code sorts the indexes of the blocks *)
(* it fuses by name; here they keep their order and are compared as sets.  *)
(***************************************************************************)
EXTENDS StripeTile

\* The one index an access is a multiple of; "" when it is anything else.
SimpleIndex(a) == IF Cardinality(DOMAIN a) = 1 THEN CHOOSE v \in DOMAIN a : TRUE ELSE ""

\* ComputeFusionPlan: which index of b runs with which of a, and the tile of b that makes their
\* steps equal; ok is false when there is no plan.
FusionPlan(a, b, buffer) ==
  LET refA == a.refs[RefByFrom(a, buffer)]
      refB == b.refs[RefByFrom(b, buffer)]
      dims == SelectSeq([i \in 1..Len(refA.access) |-> i],
                        LAMBDA i : ~(refA.access[i] = Zero /\ refB.access[i] = Zero))
      idxA(i) == SimpleIndex(refA.access[i])
      idxB(i) == SimpleIndex(refB.access[i])
      mulA(i) == refA.access[i][idxA(i)]
      mulB(i) == refB.access[i][idxB(i)]
      Named(b_) == UNION {DOMAIN c : c \in ToSet(b_.constraints)}
      ok == /\ RefByFrom(a, buffer) # 0 /\ RefByFrom(b, buffer) # 0
            /\ \A d \in DOMAIN dims :
                 /\ idxA(dims[d]) # "" /\ idxB(dims[d]) # ""
                 /\ \A e \in 1..(d - 1) : idxA(dims[e]) # idxA(dims[d])
                 /\ mulA(dims[d]) % mulB(dims[d]) = 0
            /\ a.constraints = b.constraints
      First(v, idx(_)) == dims[SelectInSeq(dims, LAMBDA i : idx(i) = v)]
      Last_(v, idx(_)) == dims[SelectLastInSeq(dims, LAMBDA i : idx(i) = v)]
      Mapped(idx(_)) == {idx(dims[d]) : d \in DOMAIN dims}
  IN  IF ~ok THEN [ok |-> FALSE]
      ELSE [ok |-> TRUE,
            remapA |-> [v \in Mapped(idxA) \cup Named(a) |-> v] @@ Zero,
            remapB |-> [v \in Mapped(idxB) \cup Named(b) |->
                          IF v \in Mapped(idxB) THEN idxA(First(v, idxB)) ELSE v] @@ Zero,
            tileB |-> MapSeq(b.idxs, LAMBDA x :
                        IF x.name \in Mapped(idxB)
                        THEN mulA(Last_(x.name, idxB)) \div mulB(Last_(x.name, idxB)) ELSE 1)]

\* Inner blocks that loop over nothing and rename nothing are dissolved into the outer one; the
\* indexes handed down through them are handed down directly.
FlattenTrivial(outer) ==
  LET Trivial(s) ==
        /\ IsBlock(s)
        /\ IdxsProduct(s) = 1
        /\ \A r \in ToSet(s.refs) : r.from = "" \/ r.into = r.from
      Through(inner, a) ==
        FoldSet(LAMBDA v, r : Substitute(r, v, inner.idxs[IdxByName(inner, v)].affine), a, Vars(a))
      Lift(inner, s) ==
        IF IsBlock(s)
        THEN [s EXCEPT !.idxs = MapSeq(@, LAMBDA x : [x EXCEPT !.affine = Through(inner, @)])]
        ELSE s
  IN  [outer EXCEPT !.stmts = FlattenSeq(MapSeq(@, LAMBDA s :
         IF Trivial(s) THEN MapSeq(s.stmts, LAMBDA t : Lift(s, t)) ELSE <<s>>))]

\* A tiled block split for fusion: the mapped indexes, renamed, stay outside, the others go inside.
FusionSplit(tiled, mapping) ==
  LET mapped(x) == x.name \in DOMAIN mapping
      Outside(a) ==
        FoldSet(LAMBDA v, r : IF v \in DOMAIN mapping THEN Plus(r, Term(mapping[v], a[v])) ELSE r,
                Const(Coef(a, "")), DOMAIN a)
      Span(ref, i) ==
        ref.shape[i].size + MapThenSumSet(LAMBDA v :
          (tiled.idxs[IdxByName(tiled, v)].range - 1) * ref.access[i][v],
          Vars(ref.access[i]) \ DOMAIN mapping)
      outside == MapSeq(SelectSeq(tiled.idxs, mapped), LAMBDA x : [x EXCEPT !.name = mapping[x.name]])
      inner ==
        [EmptyBlock EXCEPT
           !.idxs = MapSeq(tiled.idxs, LAMBDA x :
                      IF mapped(x) THEN Index(x.name, 1, Var(mapping[x.name])) ELSE x),
           !.constraints = tiled.constraints,
           !.stmts = tiled.stmts,
           !.refs = MapSeq(tiled.refs, LAMBDA r :
                      [r EXCEPT !.from = r.into,
                                !.access = MapSeq(@, LAMBDA a :
                                             Without(a, DOMAIN mapping \cup {""}))])]
      outer ==
        [EmptyBlock EXCEPT
           !.tags = tiled.tags,
           !.constraints = tiled.constraints,
           !.idxs = outside,
           !.stmts = <<inner>>,
           !.refs = MapSeq(tiled.refs, LAMBDA r :
                      [r EXCEPT !.shape = [i \in 1..Len(@) |-> [@[i] EXCEPT !.size = Span(r, i)]] \o <<>>,
                                !.access = MapSeq(@, Outside)])]
  IN  FlattenTrivial(outer)
FusionRefactor(orig, mapping, tile) == FusionSplit(ApplyTile(orig, tile, TRUE, TRUE), mapping)

-----------------------------------------------------------------------------

\* FuseBlocks, the second block moved into the first.  "thrown" is what the code does about a
\* block in b with a buffer of its own, which has no from to rename.  "lost": when the constraints
\* differ the code says that it fused, and has not, so that its caller erases the second block.
FuseBlocks(scope, a, b) ==
  LET mapA == AliasMap(scope, a, <<>>)
      mapB == AliasMap(scope, b, <<>>)
      Loops(x) == {[y EXCEPT !.tags = {}] : y \in ToSet(x.idxs)}
      PutRef(acc, new, alias, same, name) ==
        LET conflict == \E i \in 1..(IF same = 0 THEN Len(a.refs) ELSE same - 1) :
                           alias[i] = "partial" /\ "out" \in new.dir \cup acc.dirs[i]
        IN  [ok |-> acc.ok /\ ~conflict,
             dirs |-> IF same = 0 THEN acc.dirs ELSE [acc.dirs EXCEPT ![same] = @ \cup new.dir],
             refs |-> IF same = 0 THEN Append(acc.refs, [new EXCEPT !.into = name]) ELSE acc.refs,
             renamed |-> (new.into :> IF same = 0 THEN name ELSE a.refs[same].into) @@ acc.renamed]
      MoveRef(acc, new) ==
        LET alias == [i \in 1..Len(a.refs) |-> Compare(mapA.info[a.refs[i].into], mapB.info[new.into])]
        IN  PutRef(acc, new, alias, SelectInSeq(alias, LAMBDA t : t = "exact"),
                   UniqueName(new.into, {acc.refs[i].into : i \in DOMAIN acc.refs}))
      moved == FoldLeft(MoveRef, [ok |-> TRUE, dirs |-> MapSeq(a.refs, LAMBDA r : r.dir),
                                  refs |-> a.refs, renamed |-> Zero], b.refs)
      Define(acc, n) ==
        LET new == UniqueName(n, acc.taken)
        IN  [acc EXCEPT !.taken = @ \cup {new}, !.names = (n :> new) @@ @]
      PutStmt(acc, next, renamed, s) ==
        LET used(n) == acc.names[n]
            new(n) == next.names[n]
            ref(n) == renamed[n]
            stmt == CASE s.kind = "load" -> Load(ref(s.from), new(s.into))
                      [] s.kind = "store" -> Store(used(s.from), ref(s.into))
                      [] s.kind = "special" -> Special(s.name, MapSeq(s.inputs, ref), MapSeq(s.outputs, ref))
                      [] s.kind = "block" ->
                           [s EXCEPT !.refs = MapSeq(@, LAMBDA r : [r EXCEPT !.from = ref(@)])]
                      [] s.kind = "constant" -> Constant(new(s.name), s.value)
                      [] s.kind = "intrinsic" ->
                           Intrinsic(s.name, MapSeq(s.inputs, used), MapSeq(s.outputs, new))
        IN  [next EXCEPT !.stmts = Append(@, stmt)]
      scalars == UNION {ToSet(ScalarDefs(s)) : s \in ToSet(a.stmts)}
      Fused(refs, renamed) ==
        [a EXCEPT !.refs = refs,
                  !.stmts = FoldLeft(LAMBDA acc, s : PutStmt(acc, FoldLeft(Define, acc, ScalarDefs(s)), renamed, s),
                                     [taken |-> scalars, names |-> Zero, stmts |-> @], b.stmts).stmts]
      Decide(to) ==
        CASE Loops(a) # Loops(b) -> [result |-> "failed"]
          [] a.constraints # b.constraints -> [result |-> "lost", block |-> a]
          [] ~to.ok -> [result |-> "failed"]
          [] \E s \in ToSet(b.stmts) : IsBlock(s) /\ \E r \in ToSet(s.refs) : r.from = "" ->
               [result |-> "thrown"]
          [] OTHER -> [result |-> "fused", block |-> Fused(to.refs, to.renamed)]
  IN  Decide(moved)

\* FusionInner from a statement on: a block is fused with its neighbour as often as that goes.
\* With o.recursive (AlwaysFuseRecursive) the statements of the fused block are fused as well.  The
\* result is [ok, sound, block]: was nothing thrown; was no block lost, and had no index that is put
\* in the inner block a value from around the outer one, whose indexes it is now counted in?
RECURSIVE FusionInner(_, _, _, _)
FusionInner(scope, b, k, o) ==
  LET first == b.stmts[k]
      second == b.stmts[k + 1]
      written == {r.from : r \in ToSet(RefOuts(first))}
      shared == SelectInSeq(RefIns(second), LAMBDA r : r.from \in written)
      wanted == /\ HasTags(b, o.parentReqs) /\ HasTags(first, o.aReqs) /\ HasTags(second, o.bReqs)
                /\ shared # 0
      Next_ == FusionInner(scope, b, k + 1, o)
      Fuse(plan) ==
        FuseBlocks(scope,
                   FusionRefactor(first, plan.remapA, MapSeq(first.idxs, LAMBDA x : 1)),
                   FusionRefactor(second, plan.remapB, plan.tileB))
      Own(x, mapping) == \A i \in ToSet(x.idxs) : i.name \in DOMAIN mapping \/ i.affine = Zero
      InFused(tagged) ==
        IF o.recursive
        THEN FusionInner(AliasMap(scope, tagged, <<>>), [tagged EXCEPT !.location = first.location], 1, o)
        ELSE [ok |-> TRUE, sound |-> TRUE, block |-> tagged]
      Replaced(new, sound) ==
        IF ~new.ok THEN [new EXCEPT !.block = b]
        ELSE [FusionInner(scope, [b EXCEPT !.stmts = RemoveAt([@ EXCEPT ![k] = new.block], k + 1)], k, o)
                EXCEPT !.sound = @ /\ new.sound /\ sound]
      Decide(fused, plan) ==
        CASE fused.result = "failed" -> Next_
          [] fused.result = "thrown" -> [ok |-> FALSE, sound |-> TRUE, block |-> b]
          [] fused.result \in {"fused", "lost"} ->
               Replaced(InFused(AddTags(fused.block, o.fusedSet)),
                        fused.result = "fused" /\ Own(first, plan.remapA) /\ Own(second, plan.remapB))
      Try(plan) == IF plan.ok THEN Decide(Fuse(plan), plan) ELSE Next_
  IN  CASE k > Len(b.stmts) -> [ok |-> TRUE, sound |-> TRUE, block |-> b]
        [] k < Len(b.stmts) /\ IsBlock(first) /\ IsBlock(second) /\ wanted ->
             Try(FusionPlan(first, second, RefIns(second)[shared].from))
        [] OTHER -> Next_

\* Outer blocks first, then the blocks in them.
RECURSIVE FusionRecurse(_, _, _)
FusionRecurse(scope, b, o) ==
  LET Put(acc, k, in) == [ok |-> in.ok, sound |-> acc.sound /\ in.sound,
                          block |-> [acc.block EXCEPT !.stmts[k] = in.block]]
      Inner(acc, k) ==
        LET s == acc.block.stmts[k]
        IN  IF ~acc.ok \/ ~IsBlock(s) THEN acc
            ELSE Put(acc, k, FusionRecurse(AliasMap(scope, s, <<>>), s, o))
      Within(here) == FoldLeftDomain(Inner, here, here.block.stmts)
  IN  Within(FusionInner(scope, b, 1, o))

FusionPass(root, o) == FusionRecurse(AliasMap(NoAliases, root, <<>>), root, o)
=============================================================================
