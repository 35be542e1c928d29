--------------------------- MODULE IntegerProgram ---------------------------
(***************************************************************************)
(* tile/bilp: the least integral value of a linear objective over points   *)
(* that obey range constraints, by the simplex algorithm (tableau.cc) and  *)
(* Gomory cuts (ilp_solver.cc).                                            *)
(*                                                                         *)
(* A tableau is [mat, names, basic]: row 1 is the objective, column 1 the  *)
(* objective's own and the last one the constants; names are the variables *)
(* of columns 2, 3, ...; basic maps a row to the column of its variable.   *)
(* A variable of the problem is the difference of two that are not         *)
(* negative.                                                               *)
(***************************************************************************)
EXTENDS Exact

Tableau(mat, names) == [mat |-> mat, names |-> names, basic |-> <<>>]
RowsOf(t) == 2..Len(t.mat)
Width(t) == Len(t.mat[1])
Infeasible == [ok |-> FALSE]
Optimal(t) == [ok |-> TRUE, tableau |-> t]
Zeros(n) == [k \in 1..n |-> Q(0)] \o <<>>

-----------------------------------------------------------------------------
(* Tableau.                                                                 *)

PriceOut(t) ==
  [t EXCEPT !.mat = FoldSet(LAMBDA r, m : AddRowMultToRow(m, 1, r, Neg(m[1][t.basic[r]] // m[r][t.basic[r]])),
                            @, DOMAIN t.basic)]

\* Each row's first column that is a unit vector; the code throws when a row has none.
SelectBasicVars(t) ==
  LET IsUnit(r, c) == \A i \in RowsOf(t) : t.mat[i][c] = Q(IF i = r THEN 1 ELSE 0)
  IN  PriceOut([t EXCEPT !.basic = [r \in RowsOf(t) |-> Min({c \in 2..(Width(t) - 1) : IsUnit(r, c)})]])

\* The simplex algorithm on a tableau in canonical form: the column with the greatest coefficient
\* enters, the row with the least ratio leaves; the first of equals.
Entering(t) ==
  LET columns == (2..(Width(t) - 1)) \ {t.basic[r] : r \in DOMAIN t.basic}
      Better(c, d) == LET x == t.mat[1][c] y == t.mat[1][d] IN y \prec x \/ (x = y /\ c < d)
      positive == {c \in columns : Q(0) \prec t.mat[1][c]}
  IN  IF positive = {} THEN 0 ELSE CHOOSE c \in positive : \A d \in positive \ {c} : Better(c, d)
Leaving(t, c) ==
  LET Ratio(r) == t.mat[r][Width(t)] // t.mat[r][c]
      Better(r, s) == Ratio(r) \prec Ratio(s) \/ (Ratio(r) = Ratio(s) /\ r < s)
      positive == {r \in RowsOf(t) : Q(0) \prec t.mat[r][c]}
  IN  IF positive = {} THEN 0 ELSE CHOOSE r \in positive : \A s \in positive \ {r} : Better(r, s)
PivotTo(t, r, c) ==
  [mat |-> MakePivotAt(t.mat, r, c), names |-> t.names, basic |-> [t.basic EXCEPT ![r] = c]]

RECURSIVE MakeOptimal(_), PivotIn(_, _, _)
MakeOptimal(t) == PivotIn(t, Entering(t), 0)
PivotIn(t, c, r) ==
  IF c = 0 THEN Optimal(t)
  ELSE IF r > 0 THEN MakeOptimal(PivotTo(t, r, c))
  ELSE IF Leaving(t, c) = 0 THEN Infeasible
  ELSE PivotIn(t, c, Leaving(t, c))

\* Phase one: an artificial variable for each row, in the columns before those of the tableau,
\* and the least sum of them all.
PhaseOne(t) ==
  LET n == Len(t.mat) - 1
      Row(r) == <<Q(0)>> \o Unit(n, r - 1) \o t.mat[r]
      objective == <<Q(1)>> \o [k \in 1..n |-> Q(-1)] \o Zeros(Width(t))
  IN  PriceOut([mat |-> [r \in DOMAIN t.mat |-> IF r = 1 THEN objective ELSE Row(r)] \o <<>>,
                names |-> t.names, basic |-> [r \in RowsOf(t) |-> r]])

\* Artificial variables that are still basic (at zero) give way to others.
RECURSIVE DriveOut(_, _)
DriveOut(t, n) ==
  LET stuck == {r \in DOMAIN t.basic : t.basic[r] <= n}
      row == Min(stuck)
  IN  IF stuck = {} THEN t
      ELSE DriveOut(PivotTo(t, row, Min({c \in (n + 1)..(Width(t) - 1) : t.mat[row][c] # Q(0)})), n)

\* The rows of an optimal first phase without the artificial columns, under the tableau's objective.
Canonical(t, phase1) ==
  LET n == Len(t.mat)
      Rows(driven) == [r \in DOMAIN t.mat |-> IF r = 1 THEN t.mat[1]
                                              ELSE SubSeq(driven.mat[r], n + 1, Len(driven.mat[r]))] \o <<>>
  IN  IF ~phase1.ok \/ phase1.tableau.mat[1][Width(phase1.tableau)] # Q(0) THEN Infeasible
      ELSE Optimal(SelectBasicVars(Tableau(Rows(DriveOut(phase1.tableau, n)), t.names)))
ConvertToCanonicalForm(t) == Canonical(t, MakeOptimal(PhaseOne(t)))

-----------------------------------------------------------------------------
(* ILPSolver.                                                               *)

Pos(v) == <<"pos", v>>
Neg_(v) == <<"neg", v>>
Slack(k) == <<"slack", <<k>>>>

\* 0 <= poly and poly <= range - 1, each an equation with a slack variable, its constant not negative.
StandardForm(cons) ==
  LET Parts(seen, c) ==
        FlattenSeq(MapSeq(SelectSeq(InOrder(VarsOf(cons[c].poly)), LAMBDA v : Pos(v) \notin seen),
                          LAMBDA v : <<Pos(v), Neg_(v)>>)) \o <<Slack(2 * c - 2), Slack(2 * c - 1)>>
      names == FoldLeft(LAMBDA a, c : a \o Parts(ToSet(a), c), <<>>, [c \in DOMAIN cons |-> c] \o <<>>)
      Entry(p, slack, sign, name) ==
        IF name = slack THEN Q(sign)
        ELSE CASE name[1] = "pos" -> Coef(p, name[2])
               [] name[1] = "neg" -> Neg(Coef(p, name[2]))
               [] OTHER -> Q(0)
      Signed(const, row) == IF const \preceq Q(0) THEN row \o <<Neg(const)>>
                            ELSE MapSeq(row, Neg) \o <<const>>
      Equation(p, const, slack, sign) ==
        Signed(const, <<Q(0)>> \o MapSeq(names, LAMBDA name : Entry(p, slack, sign, name)))
      Rows(c) == <<Equation(cons[c].poly, ConstantOf(cons[c].poly), Slack(2 * c - 2), -1),
                   Equation(cons[c].poly, ConstantOf(cons[c].poly) -- Q(cons[c].range - 1), Slack(2 * c - 1), 1)>>
  IN  Tableau(<<Zeros(Len(names) + 2)>> \o FlattenSeq([c \in DOMAIN cons |-> Rows(c)] \o <<>>), names)

WithObjective(t, obj) ==
  LET Entry(name) == CASE name[1] = "pos" -> Neg(Coef(obj, name[2]))
                       [] name[1] = "neg" -> Coef(obj, name[2])
                       [] OTHER -> Q(0)
      given == <<Q(1)>> \o MapSeq(t.names, Entry)
  IN  PriceOut([t EXCEPT !.mat[1] = [k \in DOMAIN @ |-> IF k <= Len(given) THEN given[k] ELSE @[k]]])

\* A cut along a row with a fractional constant: what is fractional in the row adds up to at least it.
AddGomoryCut(t, row) ==
  LET n == Width(t)
      Widened(r) == SubSeq(r, 1, n - 1) \o <<Q(0), r[n]>>
      fracs == MapSeq(t.mat[row], FracPart)
  IN  Tableau(Append(MapSeq(t.mat, Widened), SubSeq(fracs, 1, n - 1) \o <<Q(-1), fracs[n]>>), t.names)

ObjectiveValue(t) == t.mat[1][Width(t)]
SymbolicSolution(t) ==
  [k \in DOMAIN t.names |->
     FoldSet(LAMBDA r, x : IF t.basic[r] = k + 1 THEN t.mat[r][Width(t)] ELSE x, Q(0), DOMAIN t.basic)]
Solution(t) ==
  LET soln == SymbolicSolution(t)
      At(name) == soln[SelectInSeq(t.names, LAMBDA n : n = name)]
  IN  [v \in {t.names[k][2] : k \in {i \in DOMAIN t.names : t.names[i][1] = "pos"}} |->
         At(Pos(v)) -- At(Neg_(v))]

\* The row with the greatest fractional constant, the first of equals; 0 when all are whole.
FractionalRow(t) ==
  LET Frac(r) == FracPart(t.mat[r][Width(t)])
      Better(r, s) == Frac(s) \prec Frac(r) \/ (Frac(r) = Frac(s) /\ r < s)
      rows == {r \in RowsOf(t) : Frac(r) # Q(0)}
  IN  IF rows = {} THEN 0 ELSE CHOOSE r \in rows : \A s \in rows \ {r} : Better(r, s)

RECURSIVE SolveStep(_), CutAndSolve(_, _), SolveFrom(_)
SolveStep(optimal) == IF optimal.ok THEN CutAndSolve(optimal.tableau, FractionalRow(optimal.tableau)) ELSE Infeasible
CutAndSolve(t, row) ==
  IF row = 0 THEN [ok |-> TRUE, obj |-> ObjectiveValue(t), soln |-> Solution(t)]
  ELSE SolveFrom(ConvertToCanonicalForm(AddGomoryCut(t, row)))
SolveFrom(canonical) == IF canonical.ok THEN SolveStep(MakeOptimal(canonical.tableau)) ELSE Infeasible

SolveCanonical(t, obj) == SolveStep(MakeOptimal(WithObjective(t, obj)))
SolveAll(canonical, objectives) ==
  IF canonical.ok THEN [o \in objectives |-> SolveCanonical(canonical.tableau, o)]
  ELSE [o \in objectives |-> Infeasible]
\* The canonical form is computed twice.
CanonicalAgain(canonical) == IF canonical.ok THEN ConvertToCanonicalForm(canonical.tableau) ELSE canonical
BatchSolve(cons, objectives) == SolveAll(CanonicalAgain(ConvertToCanonicalForm(StandardForm(cons))), objectives)
=============================================================================
