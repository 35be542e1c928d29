---------------------------- MODULE StripeAlias ----------------------------
(***************************************************************************)
(* tile/codegen/alias.h and alias.cc: for each buffer a block knows, the   *)
(* allocation it is a view of, the access to it summed over the blocks     *)
(* around, and the extents of that access.                                 *)
(*                                                                         *)
(* An alias map is [depth, info]; info gives for each name [base, path,    *)
(* ref, access, extents, location, shape], path and ref being where the    *)
(* allocation is declared.                                                 *)
(***************************************************************************)
EXTENDS Stripe

NoAliases == [depth |-> 0, info |-> Zero]

Uniqify(a, prefix) ==
  FoldSet(LAMBDA v, r : Plus(r, Term(prefix \o v, a[v])), Const(Coef(a, "")), Vars(a))

\* The range of an access in the block: an index with a constant in its affine counts as that
\* constant, any other from zero.
Extents(b, ref) ==
  LET from(x) == Coef(x.affine, "")
      to(x) == IF from(x) # 0 THEN from(x) ELSE x.range - 1
      env(f(_)) == ByName(b, MapSeq(b.idxs, f))
  IN  [i \in 1..Len(ref.access) |->
         [min |-> Eval(ref.access[i], env(from)),
          max |-> Eval(ref.access[i], env(to)) + ref.shape[i].size - 1]] \o <<>>

AliasMap(outer, b, path) ==
  LET depth == outer.depth + 1
      prefix == "d" \o ToString(depth) \o ":"
      Info(k) ==
        LET ref == b.refs[k]
            view == outer.info[ref.from]
            new == [base |-> prefix \o ref.into, path |-> path, ref |-> k,
                    access |-> MapSeq(ref.access, LAMBDA a : Zero), location |-> ref.location]
            base == IF ref.dir = None THEN new
                    ELSE [f \in DOMAIN new |->
                            IF f = "location"
                            THEN [view.location EXCEPT !.unit = Plus(@, ref.location.unit)]
                            ELSE view[f]]
        IN  [base |-> base.base, path |-> base.path, ref |-> base.ref, location |-> base.location,
             access |-> [i \in 1..Len(ref.access) |->
                           Plus(base.access[i], Uniqify(ref.access[i], prefix))] \o <<>>,
             extents |-> Extents(b, ref), shape |-> ref.shape]
  IN  [depth |-> depth,
       info |-> [n \in {b.refs[k].into : k \in DOMAIN b.refs} |-> Info(RefByInto(b, n))] @@ Zero]

CheckOverlap(a, b) ==
  \A i \in DOMAIN a : b[i].min <= a[i].max /\ a[i].min <= b[i].max

\* Do two views share no element, some, or are they the same at every index state?
Compare(a, b) ==
  LET banked == /\ IsConstant(a.location.unit) /\ IsConstant(b.location.unit)
                /\ a.location # b.location
  IN  CASE a.base # b.base -> "none"
        [] a.shape = b.shape /\ banked -> "none"
        [] a.shape = b.shape /\ a.access = b.access -> "exact"
        [] a.shape = b.shape /\ ~CheckOverlap(a.extents, b.extents) -> "none"
        [] OTHER -> "partial"

\* How many statements of the block use each buffer; a name not there is not used.
RefUseCounts(b) ==
  LET uses(s) == ToSet(BufferReads(s)) \cup ToSet(BufferWrites(s))
      used == UNION {uses(b.stmts[k]) : k \in DOMAIN b.stmts}
  IN  [n \in used |-> Cardinality({k \in DOMAIN b.stmts : n \in uses(b.stmts[k])})] @@ Zero

\* The alias map of the block at a path.
RECURSIVE AliasAt(_, _)
AliasAt(root, path) ==
  AliasMap(IF path = <<>> THEN NoAliases ELSE AliasAt(root, Front(path)), BlockAt(root, path), path)

\* The outermost blocks that have the tags.
RECURSIVE MatchingPaths(_, _)
MatchingPaths(b, reqs) ==
  IF HasTags(b, reqs) THEN <<<<>>>>
  ELSE FoldLeftDomain(LAMBDA ps, k :
         IF IsBlock(b.stmts[k])
         THEN ps \o MapSeq(MatchingPaths(b.stmts[k], reqs), LAMBDA p : <<k>> \o p)
         ELSE ps, <<>>, b.stmts)

\* Each of them rewritten in turn, with the path it is at.
RunOnBlocks(root, reqs, Rewrite(_, _)) ==
  FoldLeft(LAMBDA r, p : PutBlock(r, p, Rewrite(BlockAt(r, p), p)), root, MatchingPaths(root, reqs))
=============================================================================
