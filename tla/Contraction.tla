---------------------------- MODULE Contraction ----------------------------
(***************************************************************************)
(* tile/lang: how a contraction becomes a loop nest (compile.cc), by exact *)
(* arithmetic on its index polynomials (bound.cc, reduce.cc, defract.cc)   *)
(* and on the memory they address (flat.cc).                               *)
(*                                                                         *)
(* A contraction is [specs, cons, agg, comb, noDefract]: the index         *)
(* polynomials of its tensors, the output first, and its range             *)
(* constraints.  A shape is a sequence of dimensions [size, stride].       *)
(*                                                                         *)
(* What the code throws an exception for is a result with ok FALSE.        *)
(***************************************************************************)
EXTENDS IntegerProgram

CONSTANT Width_   \* the range a variable is given when it is made an integer; the code's is a billion
ASSUME WidthAssumption == Width_ \in Nat /\ Width_ % 2 = 0

Refused == [ok |-> FALSE]
ConsList(cons) == [ok |-> TRUE, cons |-> cons]
PolysOf(c) == FlattenSeq(c.specs)
VarsOfAll(polys) == UNION {VarsOf(polys[i]) : i \in DOMAIN polys}
IndexVars(c) == VarsOfAll(PolysOf(c))
MapPolys(c, Op(_)) ==
  [c EXCEPT !.specs = MapSeq(@, LAMBDA spec : MapSeq(spec, Op)),
            !.cons = MapSeq(@, LAMBDA r : Range_(Op(r.poly), r.range))]

-----------------------------------------------------------------------------
(* bound.cc                                                                 *)

ConstrainIndexVarsToInts(c) ==
  [c EXCEPT !.cons = @ \o MapSeq(InOrder(IndexVars(c)), LAMBDA v :
     Range_(Plus(Monomial(v, Q(1)), Constant(Q(Width_ \div 2))), Width_))]

\* The constraints, and each index within its dimension; those with the smallest range first.
GatherConstraints(c, shapes) ==
  LET Of(i) == [j \in DOMAIN c.specs[i] |-> Range_(c.specs[i][j], shapes[i][j].size)] \o <<>>
      all == c.cons \o FlattenSeq([i \in DOMAIN c.specs |-> Of(i)] \o <<>>)
      order == Sorted(DOMAIN all, LAMBDA a, b : \/ all[a].range < all[b].range
                                                \/ all[a].range = all[b].range /\ a < b)
  IN  MapSeq(order, LAMBDA k : all[k])

\* d such that q + d is whole where n1 q + c1 and n2 q + c2 both are.
UnifiedOffset(c1, c2, n1, n2) ==
  LET Fracs(c, n) == [k \in 0..(AbsOf(n) - 1) |-> FracPart((c ++ Q(k)) // Q(n))]
      first == {Fracs(c1, n1)[k] : k \in 0..(AbsOf(n1) - 1)}
      second == Fracs(c2, n2)
      common == {k \in DOMAIN second : second[k] \in first}
  IN  IF common = {} THEN Refused ELSE [ok |-> TRUE, d |-> second[Min(common)]]

\* One constraint for two whose polynomials are n1 q + c1 and n2 q + c2.
IntersectParallel(a, b) ==
  LET ratio == TryDivide(a.poly, b.poly, TRUE)
      n1 == Numerator(ratio)
      n2 == Denominator(ratio)
      c1 == ConstantOf(a.poly)
      c2 == ConstantOf(b.poly)
      Ends(c, n, range) == {Neg(c) // Q(n), (Q(range - 1) -- c) // Q(n)}
      Low(ends) == CHOOSE x \in ends : \A y \in ends : x \preceq y
      High(ends) == CHOOSE x \in ends : \A y \in ends : y \preceq x
      Bounded(d) ==
        LET e1 == Ends(c1, n1, a.range)
            e2 == Ends(c2, n2, b.range)
            lower == Max({Ceil(Low(e1) ++ d), Ceil(Low(e2) ++ d)})
            upper == Min({Floor(High(e1) ++ d), Floor(High(e2) ++ d)})
        IN  IF upper < lower THEN Refused
            ELSE ConsList(<<Range_(WithConstant(Times(Invert(Q(n1)), a.poly), d -- Q(lower)), upper - lower + 1)>>)
      offset == UnifiedOffset(c1, c2, n1, n2)
  IN  IF offset.ok THEN Bounded(offset.d) ELSE Refused

\* Constraints on constants are checked and dropped, parallel ones become one.
RECURSIVE MergeParallelConstraints(_), MergeAfter(_, _)
MergeParallelConstraints(cons) ==
  IF cons = <<>> THEN ConsList(<<>>)
  ELSE LET first == cons[1]
           const == ConstantOf(first.poly)
           parallel == SelectSeq(Tail(cons), LAMBDA c : IsParallel(first, c))
           Intersect(a, c) == IF a.ok THEN IntersectParallel(a.cons[1], c) ELSE a
       IN  IF VarsOf(first.poly) # {}
           THEN MergeAfter(FoldLeft(Intersect, ConsList(<<first>>), parallel),
                           SelectSeq(Tail(cons), LAMBDA c : ~IsParallel(first, c)))
           ELSE IF Q(0) \preceq const /\ const \prec Q(first.range) THEN MergeParallelConstraints(Tail(cons))
           ELSE Refused
MergeAfter(merged, others) ==
  LET rest == MergeParallelConstraints(others)
  IN  IF merged.ok /\ rest.ok THEN ConsList(merged.cons \o rest.cons) ELSE Refused

\* The greatest value that the bounds allow a polynomial is within the constraint.
IsImplied(c, bounds) ==
  LET Worst(v) == c.poly[v] ** Q(IF c.poly[v] \prec Q(0) THEN bounds[v].min ELSE bounds[v].max)
  IN  FoldSet(LAMBDA v, s : s ++ Worst(v), ConstantOf(c.poly), VarsOf(c.poly)) \preceq Q(c.rhs)

\* The least and the greatest value of each variable, and the constraints they do not imply.
Remaining(cons, bounds) ==
  [ok |-> TRUE, bounds |-> bounds,
   cons |-> SelectSeq(FlattenSeq(MapSeq(cons, LAMBDA c : <<LowerBound(c), UpperBound(c)>>)),
                      LAMBDA s : ~IsImplied(s, bounds))]
BoundsFrom(result, vars) ==
  [v \in vars |-> [min |-> Floor(result[Monomial(v, Q(1))].obj), max |-> Floor(Neg(result[Monomial(v, Q(-1))].obj))]]
BoundedBy(cons, vars, result) ==
  IF \A o \in DOMAIN result : result[o].ok THEN Remaining(cons, BoundsFrom(result, vars)) ELSE Refused
BoundVars(cons, vars) == BoundedBy(cons, vars, BatchSolve(cons, {Monomial(v, Q(s)) : v \in vars, s \in {1, -1}}))
ComputeBounds(cons) == BoundVars(cons, VarsOfAll(MapSeq(cons, LAMBDA c : c.poly)))

-----------------------------------------------------------------------------
(* reduce.cc                                                                *)

\* Variables for the independent output polynomials, and as many constraints as it takes.
Basis(c, cons) ==
  LET n == Cardinality(IndexVars(c))
      outputs == FoldLeft(AddEquation, EmptyBasis, c.specs[1])
  IN  FoldLeft(LAMBDA b, r : IF Len(b.added) = n THEN b ELSE AddEquation(b, r.poly), outputs, cons).added

RewrittenPoly(p, vars, inverses) ==
  Sum([i \in DOMAIN vars |-> Times(Coef(p, vars[i]), inverses[i])] \o <<Constant(ConstantOf(p))>>)
Rewritten(c, vars, inverses) == [ok |-> TRUE, op |-> MapPolys(c, LAMBDA p : RewrittenPoly(p, vars, inverses))]
PolysFrom(matrix) == MapSeq(matrix, LAMBDA row : Sum([j \in DOMAIN row |-> Monomial(<<j>>, row[j])] \o <<>>))
ReduceTo(c, vars, forms) ==
  IF Len(forms) < Len(vars) THEN Refused ELSE Rewritten(c, vars, PolysFrom(Inverse_(FromPolynomials(forms))))
ReduceOutputPolynomials(c, cons) == ReduceTo(c, InOrder(IndexVars(c)), Basis(c, cons))

-----------------------------------------------------------------------------
(* defract.cc                                                               *)

IsWhole(p) == \A v \in DOMAIN p : Denominator(p[v]) = 1
SplitName(v, k) == (IF v = <<>> THEN <<0>> ELSE v) \o <<k>>

\* The constraints' coefficients; when a constant is a fraction, the constants are a last column,
\* of a variable that is one.
DefractMatrix(cons, vars) ==
  LET polys == MapSeq(cons, LAMBDA c : c.poly)
      withOne == MatrixOf(polys, Append(vars, <<>>)) \o <<Append(Zeros(Len(vars)), Q(1))>>
  IN  IF \A i \in DOMAIN polys : Denominator(ConstantOf(polys[i])) = 1
      THEN [names |-> vars, mat |-> MatrixOf(polys, vars)]
      ELSE [names |-> Append(vars, <<>>), mat |-> withOne]

\* The parts a variable is split into: the moduli that its row of the dual needs.
Splits(d, i) == Sorted({1} \cup {Denominator(d[i][j] // d[j][j]) : j \in (i + 1)..Len(d[1])}, <)
SplitPoly(v, splits, n) == Sum([k \in 1..n |-> Monomial(SplitName(v, k - 1), Q(splits[k]))] \o <<>>)
\* The variable modulo one of its splits (all of it for zero).
Modulo(v, splits, modof) ==
  IF modof = 0 THEN SplitPoly(v, splits, Len(splits))
  ELSE LET k == {j \in 2..Len(splits) : splits[j] = modof}
       IN  IF k = {} THEN ZeroPoly ELSE SplitPoly(v, splits, Min(k) - 1)
SplitConstraints(v, splits) ==
  [k \in 1..(Len(splits) - 1) |->
     Range_(Monomial(SplitName(v, k - 1), Q(1)), splits[k + 1] \div splits[k])] \o <<>>

\* What takes the place of each variable: a sum over the columns of the dual.
Replacements(d, names, splits) ==
  LET Part(j, i) == Times(d[j][i], Modulo(names[j], splits[j],
                                          IF j = i THEN 0 ELSE Denominator(d[j][i] // d[i][i])))
  IN  [i \in DOMAIN names |-> Sum([j \in 1..i |-> Part(j, i)] \o <<>>)]

DefractBy(c, names, d, splits) ==
  LET polys == Replacements(d, names, splits)
      constants == <<>> \in ToSet(names)
      By(v) == IF v = <<>> /\ ~constants THEN Constant(Q(1)) ELSE polys[SelectInSeq(names, LAMBDA n : n = v)]
      Convert(p) == FoldSet(LAMBDA v, s : Plus(s, Times(p[v], By(v))), ZeroPoly, DOMAIN p)
      one == IF constants THEN <<Range_(Minus(By(<<>>), Constant(Q(1))), 1)>> ELSE <<>>
      divisible == \A i \in DOMAIN splits : \A k \in 2..Len(splits[i]) : splits[i][k] % splits[i][k - 1] = 0
  IN  IF ~divisible THEN Refused
      ELSE [ok |-> TRUE,
            op |-> [MapPolys(c, Convert) EXCEPT
                      !.cons = @ \o one \o FlattenSeq([i \in DOMAIN names |-> SplitConstraints(names[i], splits[i])]
                                                      \o <<>>)]]

DefractDual(c, names, dual) == DefractBy(c, names, dual, [i \in DOMAIN names |-> Splits(dual, i)] \o <<>>)
DefractInverse(c, names, mat, p) ==
  IF p = <<>> THEN Refused ELSE DefractDual(c, names, HermiteNormalForm(Product(mat, p)))
DefractMat(c, names, mat) == DefractInverse(c, names, mat, Inverse_(Product(Transposed(mat), mat)))

DefractWith(c, m) ==
  IF Len(m.mat) < Len(m.names) THEN Refused ELSE DefractMat(c, m.names, HermiteNormalForm(m.mat))

\* Variables that must not be whole for the constraints to be become variables that must.
Defract(c, cons) ==
  IF \A i \in DOMAIN cons : IsWhole(cons[i].poly) THEN [ok |-> TRUE, op |-> c]
  ELSE DefractWith(c, DefractMatrix(cons, InOrder(VarsOfAll(MapSeq(cons, LAMBDA r : r.poly)))))

-----------------------------------------------------------------------------
(* flat.cc                                                                  *)

\* The elements from the first of a tensor to its last.
ElemCount(shape) ==
  IF \E j \in DOMAIN shape : shape[j].size = 0 THEN 0
  ELSE FoldLeft(LAMBDA s, d : IF d.stride > 0 THEN s + (d.size - 1) * d.stride ELSE s, 1, shape)
Truncated(x) == IF x \prec Q(0) THEN Ceil(x) ELSE Floor(x)
Spread(bounds, v) == bounds[v].max - bounds[v].min

\* The loop nest: indexes that count from zero, the stride of each in each tensor, and the
\* constraints left.  A variable with one value goes into the offsets.
FlatLoops(c, shapes, bounds, cons) ==
  LET fixed == {v \in IndexVars(c) : Spread(bounds, v) = 0}
      names == InOrder(IndexVars(c) \ fixed)
      FixedPart(p) == FoldSet(LAMBDA v, s : s ++ (p[v] ** Q(bounds[v].min)), ConstantOf(p), VarsOf(p) \cap fixed)
      Folded(p) == FoldSet(LAMBDA v, q : Substitute(q, v, Constant(Q(bounds[v].min))), p, fixed)
      whole == \A i \in DOMAIN c.specs : \A j \in DOMAIN c.specs[i] : Denominator(FixedPart(c.specs[i][j])) = 1
      Weighted(i, Op(_)) ==
        FoldLeft(++, Q(0), [j \in DOMAIN c.specs[i] |-> Q(shapes[i][j].stride) ** Op(c.specs[i][j])] \o <<>>)
      Stride(i, v) == Weighted(i, LAMBDA p : Coef(p, v))
      strides == [i \in DOMAIN c.specs |-> MapSeq(names, LAMBDA v : Stride(i, v))] \o <<>>
      Shift(row) == FoldLeft(+, 0, [k \in DOMAIN names |-> Floor(row[k]) * bounds[names[k]].min] \o <<>>)
      Access(i) == [offset |-> Floor(Weighted(i, FixedPart)) + Shift(strides[i]),
                    strides |-> MapSeq(strides[i], Floor), limit |-> ElemCount(shapes[i]), vector |-> 1]
      simple == MapSeq(cons, LAMBDA s : Simple(Folded(s.poly), s.rhs))
      Row(s) == MapSeq(names, LAMBDA v : Coef(s.poly, v))
      Constraint(s) == [lhs |-> MapSeq(Row(s), Truncated),
                        rhs |-> s.rhs - Shift(Row(s)) - Floor(ConstantOf(s.poly))]
  IN  IF \/ ~whole
         \/ \E i \in DOMAIN simple : Denominator(ConstantOf(simple[i].poly)) # 1
         \/ \E i \in DOMAIN strides : \E k \in DOMAIN names : Denominator(strides[i][k]) # 1
      THEN Refused
      ELSE [ok |-> TRUE, names |-> names, ranges |-> MapSeq(names, LAMBDA v : Spread(bounds, v) + 1),
            access |-> [i \in DOMAIN c.specs |-> Access(i)] \o <<>>,
            constraints |-> MapSeq(simple, Constraint), agg |-> c.agg, comb |-> c.comb, outPoly |-> c.specs[1]]

FlattenIn(c, shapes, result) == IF result.ok THEN FlatLoops(c, shapes, result.bounds, result.cons) ELSE Refused
\* Parallel constraints that Defract made are merged here.
FlattenMerged(c, shapes, merged) == IF merged.ok THEN FlattenIn(c, shapes, ComputeBounds(merged.cons)) ELSE Refused
Flatten(c, shapes) == FlattenMerged(c, shapes, MergeParallelConstraints(GatherConstraints(c, shapes)))

-----------------------------------------------------------------------------
(* compile.cc                                                               *)

\* An output index that is not one variable with an offset.
Fancy(c) ==
  \E j \in DOMAIN c.specs[1] :
    LET p == c.specs[1][j]
    IN  Cardinality(DOMAIN p) > 2 \/ (Cardinality(DOMAIN p) = 2 /\ ConstantOf(p) = Q(0))

CompileDefracted(defracted, shapes) == IF defracted.ok THEN Flatten(defracted.op, shapes) ELSE Refused
\* Mutant: variables that must not be whole are left as they are.
CompileUnsplit(reduced, shapes, merged) == IF merged.ok THEN Flatten(reduced, shapes) ELSE Refused
CompileMerged(reduced, shapes, merged) ==
  IF merged.ok THEN CompileDefracted(Defract(reduced, merged.cons), shapes) ELSE Refused
CompileReduced(reduced, shapes) ==
  IF reduced.ok
  THEN CompileMerged(reduced.op, shapes, MergeParallelConstraints(GatherConstraints(reduced.op, shapes)))
  ELSE Refused
Reduced(c, cons) == IF Fancy(c) /\ ~c.noDefract THEN ReduceOutputPolynomials(c, cons) ELSE [ok |-> TRUE, op |-> c]
CompileWhole(c, shapes) == CompileReduced(Reduced(c, GatherConstraints(c, shapes)), shapes)
Compile(c, shapes) == CompileWhole(ConstrainIndexVarsToInts(c), shapes)
=============================================================================
