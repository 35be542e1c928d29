------------------------------- MODULE Stripe -------------------------------
(***************************************************************************)
(* The intermediate representation of tile/stripe: affine polynomials,     *)
(* indexes, refinements (views of a buffer), statements and blocks, and    *)
(* the queries the passes of tile/codegen make of them.                    *)
(*                                                                         *)
(* An affine polynomial is a function from the names of its terms, "" for  *)
(* the constant, to their nonzero coefficients.  A direction is the set of *)
(* what a refinement does, so that UnionDir is a union.  A cache unit is a *)
(* sequence of at most one polynomial.  Element types and the names of     *)
(* blocks are left out.                                                    *)
(***************************************************************************)
EXTENDS Integers, Sequences, SequencesExt, TLC

\* A sequence whose elements are computed once: appending nothing makes a tuple of it.
MapSeq(s, Op(_)) == [i \in 1..Len(s) |-> Op(s[i])] \o <<>>

\* The largest and the smallest of two numbers.
Larger(a, b) == IF a > b THEN a ELSE b
Smaller(a, b) == IF a < b THEN a ELSE b

-----------------------------------------------------------------------------
(* Affine polynomials (math/polynomial.cc, over int64).                     *)

Zero == [v \in {} |-> 0]
Term(v, c) == IF c = 0 THEN Zero ELSE v :> c
Const(c) == Term("", c)
Var(v) == Term(v, 1)

Coef(a, v) == IF v \in DOMAIN a THEN a[v] ELSE 0
Vars(a) == DOMAIN a \ {""}
IsConstant(a) == Vars(a) = {}
Without(a, names) == Restrict(a, DOMAIN a \ names) @@ Zero

\* The sum of two polynomials: a term that becomes zero is erased.
Plus(a, b) ==
  LET sum == [v \in DOMAIN a \cup DOMAIN b |-> Coef(a, v) + Coef(b, v)]
  IN  Without(sum, {v \in DOMAIN sum : sum[v] = 0})
Times(c, a) == IF c = 0 THEN Zero ELSE [v \in DOMAIN a |-> c * a[v]] @@ Zero
Minus(a, b) == Plus(a, Times(-1, b))
SetConstant(a, c) == Const(c) @@ Without(a, {""})

Substitute(a, v, by) ==
  IF v \in DOMAIN a THEN Plus(Without(a, {v}), Times(a[v], by)) ELSE a

\* eval throws when a name has no value: the callers ask CanEval first.
CanEval(a, env) == Vars(a) \subseteq DOMAIN env
Eval(a, env) == Coef(a, "") + MapThenSumSet(LAMBDA v : a[v] * env[v], Vars(a))
PartialEval(a, env) ==
  Plus(Without(a, DOMAIN env),
       Const(MapThenSumSet(LAMBDA v : Coef(a, v) * env[v], DOMAIN env)))

-----------------------------------------------------------------------------
(* Shapes: one [stride, size] per dimension.                                *)

Dim(stride, size) == [stride |-> stride, size |-> size]

\* A shape of these sizes, the last dimension contiguous.
SimpleShape(sizes) ==
  [i \in 1..Len(sizes) |->
     Dim(FoldLeft(LAMBDA p, s : p * s, 1, SubSeq(sizes, i + 1, Len(sizes))), sizes[i])] \o <<>>

Sizes(shape) == MapSeq(shape, LAMBDA d : d.size)
WithSizes(shape, size) == MapSeq(shape, LAMBDA d : [d EXCEPT !.size = size])
SizesProduct(shape) == FoldLeft(LAMBDA p, d : p * d.size, 1, shape)

\* The elements a buffer of this shape holds.
ElemSize(shape) ==
  IF \E i \in DOMAIN shape : shape[i].size = 0 THEN 0
  ELSE 1 + FoldLeft(LAMBDA n, d : n + (d.size - 1) * Larger(d.stride, 0), 0, shape)

\* Changed: the last tile is forgotten when it is not a whole one.
RoundDown(x, y) == x \div y
RoundUp(x, y) == (x + y - 1) \div y
NearestPo2(x) == CHOOSE p \in {2^k : k \in 0..x} : p >= x /\ (p = 1 \/ p \div 2 < x)

-----------------------------------------------------------------------------
(* Indexes, refinements, statements and blocks.                             *)

None == {}
In == {"in"}
Out == {"out"}
InOut == {"in", "out"}

NoLocation == [name |-> "", unit |-> Zero]

Index(name, range, affine) == [name |-> name, range |-> range, affine |-> affine, tags |-> {}]

Refinement(dir, from, into, access, shape, agg) ==
  [dir |-> dir, from |-> from, into |-> into, access |-> access, shape |-> shape,
   agg |-> agg, tags |-> {}, location |-> NoLocation, offset |-> 0, cacheUnit |-> <<>>]

Load(from, into) == [kind |-> "load", from |-> from, into |-> into]
Store(from, into) == [kind |-> "store", from |-> from, into |-> into]
Constant(name, value) == [kind |-> "constant", name |-> name, value |-> value]
Intrinsic(name, inputs, outputs) ==
  [kind |-> "intrinsic", name |-> name, inputs |-> inputs, outputs |-> outputs]
Special(name, inputs, outputs) ==
  [kind |-> "special", name |-> name, inputs |-> inputs, outputs |-> outputs]

EmptyBlock ==
  [kind |-> "block", tags |-> {}, idxs |-> <<>>, constraints |-> <<>>,
   refs |-> <<>>, stmts |-> <<>>, location |-> NoLocation]

IsBlock(stmt) == stmt.kind = "block"
HasTags(x, tags) == tags \subseteq x.tags

-----------------------------------------------------------------------------
(* What a statement reads, writes, uses and defines.                        *)

FromsOf(refs, way) == MapSeq(SelectSeq(refs, LAMBDA r : way \in r.dir), LAMBDA r : r.from)

BufferReads(stmt) ==
  CASE stmt.kind = "load" -> <<stmt.from>>
    [] stmt.kind = "special" -> stmt.inputs
    [] stmt.kind = "block" -> FromsOf(stmt.refs, "in")
    [] OTHER -> <<>>

BufferWrites(stmt) ==
  CASE stmt.kind = "store" -> <<stmt.into>>
    [] stmt.kind = "special" -> stmt.outputs
    [] stmt.kind = "block" -> FromsOf(stmt.refs, "out")
    [] OTHER -> <<>>

ScalarUses(stmt) ==
  CASE stmt.kind = "store" -> <<stmt.from>>
    [] stmt.kind = "intrinsic" -> stmt.inputs
    [] OTHER -> <<>>

ScalarDefs(stmt) ==
  CASE stmt.kind = "load" -> <<stmt.into>>
    [] stmt.kind = "constant" -> <<stmt.name>>
    [] stmt.kind = "intrinsic" -> stmt.outputs
    [] OTHER -> <<>>

-----------------------------------------------------------------------------
(* Queries of a block.                                                      *)

RefIns(b) == SelectSeq(b.refs, LAMBDA r : r.dir = In)
RefOuts(b) == SelectSeq(b.refs, LAMBDA r : r.dir = Out)

\* The position of the first refinement or index with the name, 0 when there is none.
RefByInto(b, name) == SelectInSeq(b.refs, LAMBDA r : r.into = name)
RefByFrom(b, name) == SelectInSeq(b.refs, LAMBDA r : r.from = name)
IdxByName(b, name) == SelectInSeq(b.idxs, LAMBDA x : x.name = name)

\* name, or the first of name_0, name_1, ... that is not taken.
UniqueName(name, taken) ==
  LET Numbered(i) == name \o "_" \o ToString(i)
      i == CHOOSE k \in 0..Cardinality(taken) :
             Numbered(k) \notin taken /\ \A m \in 0..(k - 1) : Numbered(m) \in taken
  IN  IF name \in taken THEN Numbered(i) ELSE name
UniqueRefName(b, name) == UniqueName(name, {b.refs[i].into : i \in DOMAIN b.refs})
UniqueIdxName(b, name) == UniqueName(name, {b.idxs[i].name : i \in DOMAIN b.idxs})

\* The indexes no written refinement is addressed with.
AccumulationIdxs(b) ==
  {b.idxs[i].name : i \in DOMAIN b.idxs}
    \ UNION {UNION {DOMAIN r.access[d] : d \in DOMAIN r.access} : r \in ToSet(RefOuts(b))}

IdxsProduct(b) == FoldLeft(LAMBDA p, x : p * x.range, 1, b.idxs)

\* The offset in elements that an access adds.
FlatAccess(ref) ==
  FoldLeftDomain(LAMBDA a, i : Plus(a, Times(ref.shape[i].stride, ref.access[i])),
                 Zero, ref.access)

\* Changed: the steps of the indexes without the extent of the view itself.
TileShapeOfSteps(ref, tile) ==
  [i \in 1..Len(ref.shape) |->
     [ref.shape[i] EXCEPT !.size =
        MapThenSumSet(LAMBDA v : (tile[v] - 1) * ref.access[i][v], Vars(ref.access[i]))]] \o <<>>

\* The shape the refinement covers while every index runs over its tile (Refinement::ApplyTile).
TileShape(ref, tile) ==
  [i \in 1..Len(ref.shape) |->
     [ref.shape[i] EXCEPT !.size =
        @ + MapThenSumSet(LAMBDA v : (tile[v] - 1) * Larger(ref.access[i][v], -ref.access[i][v]),
                          Vars(ref.access[i]))]] \o <<>>

ByName(b, values) == [v \in {b.idxs[i].name : i \in DOMAIN b.idxs} |-> values[IdxByName(b, v)]]
ExteriorShape(b, name) ==
  TileShape(b.refs[RefByInto(b, name)], ByName(b, MapSeq(b.idxs, LAMBDA x : x.range)))

-----------------------------------------------------------------------------
(* Blocks within blocks: a path gives the position of each nested block.    *)

RECURSIVE BlockAt(_, _)
BlockAt(b, path) == IF path = <<>> THEN b ELSE BlockAt(b.stmts[Head(path)], Tail(path))

RECURSIVE PutBlock(_, _, _)
PutBlock(b, path, new) ==
  IF path = <<>> THEN new
  ELSE [b EXCEPT !.stmts[Head(path)] = PutBlock(@, Tail(path), new)]

\* The blocks of a block, itself first, in the order of the program.
RECURSIVE BlockPaths(_)
BlockPaths(b) ==
  FoldLeftDomain(LAMBDA ps, k : IF IsBlock(b.stmts[k])
                                THEN ps \o MapSeq(BlockPaths(b.stmts[k]), LAMBDA p : <<k>> \o p)
                                ELSE ps, <<<<>>>>, b.stmts)
=============================================================================
