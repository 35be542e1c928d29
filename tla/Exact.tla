------------------------------- MODULE Exact -------------------------------
(***************************************************************************)
(* The exact arithmetic of tile/math: rational numbers (bignum.cc), linear *)
(* polynomials with rational coefficients (polynomial.cc), matrices with   *)
(* their inverse and Hermite normal form (matrix.cc) and the builder of a  *)
(* basis (basis.cc).  The integers of the code have no bounds.             *)
(*                                                                         *)
(* A rational is a pair <<numerator, denominator>> in lowest terms, the    *)
(* denominator positive.  The name of a variable is a sequence of numbers  *)
(* that sorts as the string does, <<>> standing for the constant's "".  A  *)
(* polynomial is a function from the names of its non-zero terms to their  *)
(* coefficients; a matrix is a sequence of rows.                           *)
(***************************************************************************)
EXTENDS Integers, SequencesExt

MapSeq(s, Op(_)) == [i \in DOMAIN s |-> Op(s[i])] \o <<>>
AbsOf(n) == IF n < 0 THEN -n ELSE n

-----------------------------------------------------------------------------
(* Rationals.                                                               *)

RECURSIVE GCD(_, _)
GCD(a, b) == IF b = 0 THEN a ELSE GCD(b, a % b)

Q(n) == <<n, 1>>
Numerator(x) == x[1]
Denominator(x) == x[2]
Scaled(n, d, g) == <<n \div g, d \div g>>
Lowest(n, d) == IF d = 1 THEN <<n, 1>> ELSE Scaled(n, d, GCD(d, AbsOf(n)))

Neg(x) == <<-x[1], x[2]>>
x ++ y == IF x[2] = y[2] THEN Lowest(x[1] + y[1], x[2]) ELSE Lowest(x[1] * y[2] + y[1] * x[2], x[2] * y[2])
x -- y == x ++ Neg(y)
x ** y == Lowest(x[1] * y[1], x[2] * y[2])
Invert(x) == IF x[1] < 0 THEN <<-x[2], -x[1]>> ELSE <<x[2], x[1]>>
x // y == x ** Invert(y)
x \prec y == x[1] * y[2] < y[1] * x[2]
x \preceq y == x[1] * y[2] <= y[1] * x[2]

Floor(x) == x[1] \div x[2]
Ceil(x) == -Floor(Neg(x))
FracPart(x) == x -- Q(Floor(x))
AbsQ(x) == <<AbsOf(x[1]), x[2]>>
MinQ(x, y) == IF x \prec y THEN x ELSE y

\* The greatest number that both are whole multiples of.
CommonUnit(x, y) ==
  LET m == x[2] * y[2]
  IN  Lowest(GCD(AbsOf(x[1] * y[2]), AbsOf(y[1] * x[2])), m)

-----------------------------------------------------------------------------
(* Polynomials.                                                             *)

\* Names sort as strings do: a prefix first.
RECURSIVE NameLess(_, _)
NameLess(a, b) ==
  /\ b # <<>>
  /\ a # <<>> => \/ Head(a) < Head(b)
                 \/ Head(a) = Head(b) /\ NameLess(Tail(a), Tail(b))
Sorted(S, Less(_, _)) ==
  [k \in 1..Cardinality(S) |-> CHOOSE x \in S : Cardinality({y \in S : Less(y, x)}) = k - 1] \o <<>>
InOrder(names) == Sorted(names, NameLess)

ZeroPoly == [v \in {} |-> Q(0)]
Monomial(v, c) == IF c = Q(0) THEN ZeroPoly ELSE [x \in {v} |-> c]
Constant(c) == Monomial(<<>>, c)
Coef(p, v) == IF v \in DOMAIN p THEN p[v] ELSE Q(0)
ConstantOf(p) == Coef(p, <<>>)
VarsOf(p) == DOMAIN p \ {<<>>}

Nonzero(p) == [v \in {x \in DOMAIN p : p[x] # Q(0)} |-> p[v]]
Plus(p, q) == Nonzero([v \in DOMAIN p \cup DOMAIN q |-> Coef(p, v) ++ Coef(q, v)])
Times(c, p) == IF c = Q(0) THEN ZeroPoly ELSE [v \in DOMAIN p |-> c ** p[v]]
Minus(p, q) == Plus(p, Times(Q(-1), q))
WithConstant(p, c) == Plus([v \in VarsOf(p) |-> p[v]], Constant(c))
Sum(polys) == FoldLeft(Plus, ZeroPoly, polys)
Eval(p, at) == FoldSet(LAMBDA v, s : s ++ (p[v] ** at[v]), ConstantOf(p), VarsOf(p))
Substitute(p, v, by) ==
  IF v \in DOMAIN p THEN Plus([x \in DOMAIN p \ {v} |-> p[x]], Times(p[v], by)) ELSE p

\* p / q when they are proportional, zero otherwise; constants may be left out.
TryDivide(p, q, ignoreConst) ==
  LET vars(r) == IF ignoreConst THEN VarsOf(r) ELSE DOMAIN r
      ratios == {p[v] // q[v] : v \in vars(p)}
  IN  IF vars(p) = vars(q) /\ Cardinality(ratios) = 1 THEN CHOOSE r \in ratios : TRUE ELSE Q(0)

\* A constraint poly <= rhs, and one 0 <= poly < range where poly is whole.
Simple(poly, rhs) == [poly |-> poly, rhs |-> rhs]
Range_(poly, range) == [poly |-> poly, range |-> range]
IsParallel(c, d) == TryDivide(c.poly, d.poly, TRUE) # Q(0)
LowerBound(c) == Simple(Times(Q(-1), c.poly), 0)
UpperBound(c) == Simple(c.poly, c.range - 1)

-----------------------------------------------------------------------------
(* Matrices.                                                                *)

AddMult(row, c, other) == IF c = Q(0) THEN row ELSE [k \in DOMAIN row |-> row[k] ++ (c ** other[k])] \o <<>>
AddRowMultToRow(m, d, s, c) == [m EXCEPT ![d] = AddMult(@, c, m[s])]
MultRow(m, r, c) == [m EXCEPT ![r] = MapSeq(@, LAMBDA x : c ** x)]
SwapRows(m, r, s) == [m EXCEPT ![r] = m[s], ![s] = m[r]]
MakePivotAt(m, r, c) ==
  LET Cleared(row) == AddMult(row, Neg(row[c] // m[r][c]), m[r])
  IN  [i \in DOMAIN m |-> IF i = r THEN MapSeq(m[r], LAMBDA x : x // m[r][c]) ELSE Cleared(m[i])] \o <<>>

Transposed(m) == [j \in DOMAIN m[1] |-> [i \in DOMAIN m |-> m[i][j]] \o <<>>] \o <<>>
Dot(a, b) == FoldLeft(++, Q(0), [k \in DOMAIN a |-> a[k] ** b[k]] \o <<>>)
ProductWith(a, columns) == MapSeq(a, LAMBDA row : MapSeq(columns, LAMBDA col : Dot(row, col)))
Product(a, b) == ProductWith(a, Transposed(b))

\* One row per polynomial, one column per variable of any of them.
MatrixOf(polys, vars) == MapSeq(polys, LAMBDA p : MapSeq(vars, LAMBDA v : Coef(p, v)))
FromPolynomials(polys) == MatrixOf(polys, InOrder(UNION {VarsOf(polys[i]) : i \in DOMAIN polys}))

\* The inverse, by elimination on the matrix beside the identity; <<>> when there is none.
Unit(n, i) == [k \in 1..n |-> Q(IF k = i THEN 1 ELSE 0)] \o <<>>
Inverse_(m) ==
  LET n == Len(m)
      PivotRow(dm, i) == CHOOSE j \in i..n : dm[j][i] # Q(0) /\ \A k \in i..(j - 1) : dm[k][i] = Q(0)
      Eliminate(dm, i) ==
        IF dm = <<>> \/ \A j \in i..n : dm[j][i] = Q(0) THEN <<>>
        ELSE MakePivotAt(SwapRows(dm, i, PivotRow(dm, i)), i, i)
      reduced == FoldLeft(Eliminate, [i \in 1..n |-> m[i] \o Unit(n, i)] \o <<>>, [i \in 1..n |-> i] \o <<>>)
  IN  MapSeq(reduced, LAMBDA row : SubSeq(row, n + 1, 2 * n))

\* Euclid's algorithm on the entries a >= b > 0 that the rows i and j have in one column.
RECURSIVE Euclid(_, _, _, _, _)
Euclid(m, i, j, a, b) ==
  LET q == Floor(a // b)
      r == a -- (Q(q) ** b)
      reduced == SwapRows(AddRowMultToRow(m, i, j, Q(-q)), i, j)
  IN  IF r = Q(0) THEN reduced ELSE Euclid(reduced, i, j, b, r)

Positive(m, r, c) == IF m[r][c] \prec Q(0) THEN MultRow(m, r, Q(-1)) ELSE m
EuclideanReduce(m, i, j, c) ==
  LET signed == Positive(Positive(m, i, c), j, c)
      sorted == IF signed[i][c] \prec signed[j][c] THEN SwapRows(signed, i, j) ELSE signed
  IN  Euclid(sorted, i, j, sorted[i][c], sorted[j][c])

\* Column i of row j becomes zero, and that of row i the common unit of both.
EliminateBelow(m, i, j) ==
  LET unit == CommonUnit(m[i][i], m[j][i])
      combined == IF unit = m[i][i] THEN m
                  ELSE IF unit = AbsQ(m[j][i]) THEN Positive(SwapRows(m, i, j), i, i)
                  ELSE EuclideanReduce(m, i, j, i)
  IN  IF m[j][i] = Q(0) THEN m
      ELSE AddRowMultToRow(combined, j, i, Q(Numerator(Neg(combined[j][i] // unit))))
NormalizeAbove(m, i, j) == AddRowMultToRow(m, j, i, Q(-Floor(m[j][i] // m[i][i])))

HermiteColumn(m, i) ==
  LET rows == {j \in i..Len(m) : m[j][i] # Q(0)}
      pivoted == Positive(SwapRows(m, i, Min(rows)), i, i)
      below == FoldLeft(LAMBDA a, j : EliminateBelow(a, i, j), pivoted, [k \in 1..(Len(m) - i) |-> i + k] \o <<>>)
  IN  IF rows = {} THEN m
      ELSE FoldLeft(LAMBDA a, j : NormalizeAbove(a, i, j), below, [j \in 1..(i - 1) |-> j] \o <<>>)
\* The Hermite normal form of a matrix with at least as many rows as columns.
HermiteNormalForm(m) == FoldLeft(HermiteColumn, m, [i \in 1..Len(m[1]) |-> i] \o <<>>)

-----------------------------------------------------------------------------
(* BasisBuilder.                                                            *)

EmptyBasis == [added |-> <<>>, reduced |-> <<>>, vars |-> <<>>]

AddEquation(b, orig) ==
  LET nc == WithConstant(orig, Q(0))
      ReduceBy(p, i) == Minus(p, Times(Coef(p, b.vars[i]) // b.reduced[i][b.vars[i]], b.reduced[i]))
      p == FoldLeft(ReduceBy, nc, [i \in DOMAIN b.reduced |-> i] \o <<>>)
      vars == b.vars \o InOrder(DOMAIN p \ ToSet(b.vars))
      i == Len(b.added) + 1
      j == Min({k \in i..Len(vars) : Coef(p, vars[k]) # Q(0)})
  IN  IF p = ZeroPoly THEN b
      ELSE [added |-> Append(b.added, nc), reduced |-> Append(b.reduced, p),
            vars |-> [vars EXCEPT ![i] = vars[j], ![j] = vars[i]]]
=============================================================================
