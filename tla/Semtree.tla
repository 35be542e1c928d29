------------------------------ MODULE Semtree ------------------------------
(***************************************************************************)
(* tile/lang: the trees that kernels are made of (semtree.h), built as     *)
(* sembuilder.h does, what they mean to a thread that runs them, and the   *)
(* Simplifier that rewrites them (simplifier.cc).                          *)
(*                                                                         *)
(* An expression or a statement is a tuple headed by its kind.  A name is  *)
(* a tuple too, <<"lid", i>> for i_lid: its head tells the memory that an  *)
(* array lies in.  A value is a sequence of lanes, one for a scalar.       *)
(***************************************************************************)
EXTENDS Exact, TLC

Junk == 1009         \* what memory holds that nobody has written
LimitBound == 5003   \* the greatest number of a type; the values are far below

-----------------------------------------------------------------------------
(* The builder.                                                             *)

Const(n) == <<"const", n>>
Var(x) == <<"var", x>>
Elem(array, at) == <<"elem", array, at>>
Limit(which) == <<"limit", which>>
HardwareIndex(kind) == <<"index", kind>>
Cast(width, e) == <<"cast", width, e>>
Call(fn, args) == <<"call", fn, args>>
Negated(e) == <<"neg", e>>
Bin(op, l, r) == <<op, l, r>>
Cond(c, t, f) == <<"cond", c, t, f>>
Select(c, t, f) == <<"select", c, t, f>>
Clamp(e, low, high) == <<"clamp", e, low, high>>
Nothing == <<>>
MaybeAnd(l, r) == IF l = Nothing THEN r ELSE Bin("&&", l, r)
SumExpr(first, exprs) == FoldLeft(LAMBDA a, e : Bin("+", a, e), first, exprs)

Block(stmts) == <<"block", stmts>>
StatementsOf(s) == IF s[1] = "block" THEN s[2] ELSE <<s>>
\* Block::append merges a block into the one it is appended to; push_back keeps it.
AppendAll(stmts) == Block(FlattenSeq(MapSeq(stmts, StatementsOf)))
AsBlock(s) == Block(StatementsOf(s))
Declare(width, x, e) == <<"declare", width, x, e>>
DeclareArray(x, size, e) == <<"array", x, size, e>>
DeclareIndex(x, e) == Declare(1, x, e)
Store(lval, e) == <<"store", lval, e>>
Kick(pointer, by) == <<"kick", pointer, by>>
If(c, t, f) == <<"if", c, AsBlock(t), IF f = Nothing THEN Nothing ELSE AsBlock(f)>>
For(x, num, step, inner) == <<"for", x, num, step, AsBlock(inner)>>
Barrier == <<"barrier">>

-----------------------------------------------------------------------------
(* What a thread does.  It sees                                             *)
(*   vars    - its variables; a pointer is [buf, at, width]                 *)
(*   arrays  - its own arrays                                               *)
(*   shared  - the arrays that its group shares                             *)
(*   bufs    - the buffers in memory                                        *)
(*   index   - its place: [local, group1, group2, group3]                   *)
(*   stray   - whether it wrote outside an array or a buffer                *)

Bool(b) == IF b THEN 1 ELSE 0
Quot(a, b) == IF a < 0 THEN -((-a) \div b) ELSE a \div b
Apply(op, a, b) ==
  CASE op = "+" -> a + b
    [] op = "*" -> a * b
    [] op = "-" -> a - b
    [] op = "/" -> Quot(a, b)
    [] op = "%" -> a - b * Quot(a, b)
    [] op = "<" -> Bool(a < b)
    [] op = "<=" -> Bool(a <= b)
    [] op = ">" -> Bool(a > b)
    [] op = ">=" -> Bool(a >= b)
    [] op = "==" -> Bool(a = b)
    [] op = "!=" -> Bool(a # b)
    [] op = "&&" -> Bool(a # 0 /\ b # 0)
    [] op = "||" -> Bool(a # 0 \/ b # 0)
\* A function that the kernel calls: any that tells its arguments apart.
Called(fn, args) == FoldLeft(LAMBDA a, k : a + k * args[k], 1, [k \in DOMAIN args |-> k] \o <<>>)

Lane(v, k) == IF Len(v) = 1 THEN v[1] ELSE v[k]
Lanes(a, b) == 1..Max({Len(a), Len(b)})
ApplyLanes(op, a, b) ==
  IF Len(a) = 1 /\ Len(b) = 1 THEN <<Apply(op, a[1], b[1])>>
  ELSE [k \in Lanes(a, b) |-> Apply(op, Lane(a, k), Lane(b, k))] \o <<>>
CondLanes(c, t, f) == [k \in Lanes(t, f) |-> IF Lane(c, k) # 0 THEN Lane(t, k) ELSE Lane(f, k)] \o <<>>
CallLanes(fn, args) ==
  [k \in 1..Max({Len(args[i]) : i \in DOMAIN args}) |-> Called(fn, MapSeq(args, LAMBDA v : Lane(v, k)))] \o <<>>
Widened(v, width) == IF Len(v) = width THEN v ELSE [k \in 1..width |-> v[1]] \o <<>>
LimitValue(which) ==
  CASE which = "zero" -> 0 [] which = "one" -> 1 [] which = "min" -> -LimitBound [] which = "max" -> LimitBound
Between(x, low, high) == Max({low, Min({x, high})})

Region(array) == IF array[1] \in {"shared", "merge"} THEN "shared" ELSE IF array[1] = "agg" THEN "own" ELSE "buffer"
ItemAt(f, i) == IF i \in DOMAIN f THEN f[i] ELSE <<Junk>>
LoadBuffer(f, p, i) ==
  [k \in 1..p.width |-> LET j == (p.at + i) * p.width + k - 1 IN IF j \in DOMAIN f THEN f[j] ELSE Junk] \o <<>>
Load(m, array, i) ==
  CASE Region(array) = "shared" -> ItemAt(m.shared[array], i)
    [] Region(array) = "own" -> ItemAt(m.arrays[array], i)
    [] Region(array) = "buffer" -> LoadBuffer(m.bufs[m.vars[array].buf], m.vars[array], i)

RECURSIVE Value(_, _)
Value(e, m) ==
  CASE e[1] = "const" -> <<e[2]>>
    [] e[1] = "var" -> m.vars[e[2]]
    [] e[1] = "elem" -> Load(m, e[2], Value(e[3], m)[1])
    [] e[1] \in {"cond", "select"} -> CondLanes(Value(e[2], m), Value(e[3], m), Value(e[4], m))
    [] e[1] = "clamp" -> <<Between(Value(e[2], m)[1], Value(e[3], m)[1], Value(e[4], m)[1])>>
    [] e[1] = "limit" -> <<LimitValue(e[2])>>
    [] e[1] = "cast" -> Widened(Value(e[3], m), e[2])
    [] e[1] = "neg" -> MapSeq(Value(e[2], m), LAMBDA x : -x)
    [] e[1] = "call" -> CallLanes(e[2], MapSeq(e[3], LAMBDA a : Value(a, m)))
    [] e[1] = "index" -> <<m.index[e[2]]>>
    [] OTHER -> ApplyLanes(e[1], Value(e[2], m), Value(e[3], m))

SetVar(m, x, v) == [m EXCEPT !.vars = (x :> v) @@ @]
Stray(m) == [m EXCEPT !.stray = TRUE]
StoreLanes(f, at, v) == [i \in DOMAIN f |-> IF i \in at..(at + Len(v) - 1) THEN v[i - at + 1] ELSE f[i]]
StoreBuffer(m, p, i, v) ==
  LET at == (p.at + i) * p.width
  IN  IF at \in DOMAIN m.bufs[p.buf] /\ at + Len(v) - 1 \in DOMAIN m.bufs[p.buf]
      THEN [m EXCEPT !.bufs[p.buf] = StoreLanes(@, at, v)] ELSE Stray(m)
StoreAt(m, array, i, v) ==
  CASE Region(array) = "shared" /\ i \in DOMAIN m.shared[array] -> [m EXCEPT !.shared[array][i] = v]
    [] Region(array) = "own" /\ i \in DOMAIN m.arrays[array] -> [m EXCEPT !.arrays[array][i] = v]
    [] Region(array) = "buffer" -> StoreBuffer(m, m.vars[array], i, Widened(v, m.vars[array].width))
    [] OTHER -> Stray(m)
NewArray(m, x, size, v) == [m EXCEPT !.arrays = (x :> [i \in 0..(size - 1) |-> v]) @@ @]

\* A thread that strays is stopped.
RECURSIVE Execute(_, _), ExecuteAll(_, _), Repeat(_, _, _)
ExecuteAll(stmts, m) == IF stmts = <<>> \/ m.stray THEN m ELSE ExecuteAll(Tail(stmts), Execute(Head(stmts), m))
Repeat(s, k, m) ==
  IF k = s[3] \/ m.stray THEN m ELSE Repeat(s, k + 1, Execute(s[5], SetVar(m, s[2], <<k * s[4]>>)))
Execute(s, m) ==
  CASE s[1] = "block" -> ExecuteAll(s[2], m)
    [] s[1] = "declare" -> SetVar(m, s[3], Widened(Value(s[4], m), s[2]))
    [] s[1] = "array" -> IF s[4] = Nothing THEN m ELSE NewArray(m, s[2], s[3], Value(s[4], m))
    [] s[1] = "store" -> IF s[2][1] = "var" THEN SetVar(m, s[2][2], Value(s[3], m))
                         ELSE StoreAt(m, s[2][2], Value(s[2][3], m)[1], Value(s[3], m))
    [] s[1] = "kick" -> [m EXCEPT !.vars[s[2]].at = @ + s[3]]
    [] s[1] = "if" -> IF Value(s[2], m)[1] # 0 THEN Execute(s[3], m) ELSE IF s[4] = Nothing THEN m ELSE Execute(s[4], m)
    [] s[1] = "for" -> Repeat(s, 0, m)

\* A kernel as the code between its barriers: a loop over barriers is unrolled, as every thread of a
\* group goes through it the same way.
RECURSIVE HasBarrier(_), Phases(_)
HasBarrier(s) ==
  CASE s[1] = "barrier" -> TRUE
    [] s[1] = "block" -> \E i \in DOMAIN s[2] : HasBarrier(s[2][i])
    [] s[1] = "for" -> HasBarrier(s[5])
    [] OTHER -> FALSE
Join(p, q) == Front(p) \o <<Last(p) \o Head(q)>> \o Tail(q)
Phases(s) ==
  CASE s[1] = "barrier" -> << <<>>, <<>> >>
    [] s[1] = "block" /\ HasBarrier(s) -> FoldLeft(LAMBDA p, t : Join(p, Phases(t)), << <<>> >>, s[2])
    [] s[1] = "for" /\ HasBarrier(s) ->
         FoldLeft(LAMBDA p, k : Join(Join(p, << <<DeclareIndex(s[2], Const((k - 1) * s[4]))>> >>), Phases(s[5])),
                  << <<>> >>, [k \in 1..s[3] |-> k] \o <<>>)
    [] OTHER -> << <<s>> >>

\* The arrays that a group shares: those that no thread fills when it declares them.
SharedIn(body) ==
  FoldLeft(LAMBDA f, s : IF s[1] = "array" /\ s[4] = Nothing THEN (s[2] :> s[3]) @@ f ELSE f, <<>>, body[2])

-----------------------------------------------------------------------------
(* Scoping: what a compiler of the kernel asks for.                         *)

RECURSIVE NamesIn(_)
NamesIn(e) ==
  CASE e[1] \in {"const", "limit", "index"} -> {}
    [] e[1] = "var" -> {e[2]}
    [] e[1] = "elem" -> {e[2]} \cup NamesIn(e[3])
    [] e[1] = "call" -> UNION {NamesIn(e[3][i]) : i \in DOMAIN e[3]}
    [] e[1] = "cast" -> NamesIn(e[3])
    [] OTHER -> UNION {NamesIn(e[i]) : i \in 2..Len(e)}

\* The names that are visible after a statement; Unscoped when one is used that is not visible, or is
\* declared where it is visible already.
Unscoped == {<<"unscoped">>}
Declared(x, uses, visible) ==
  IF x \in visible \/ ~(uses \subseteq visible) THEN visible \cup Unscoped ELSE visible \cup {x}
Used(uses, visible) == IF uses \subseteq visible THEN visible ELSE visible \cup Unscoped
RECURSIVE VisibleAfter(_, _), VisibleAfterAll(_, _)
VisibleAfterAll(stmts, visible) ==
  IF stmts = <<>> \/ Unscoped \subseteq visible THEN visible
  ELSE VisibleAfterAll(Tail(stmts), VisibleAfter(Head(stmts), visible))
VisibleAfter(s, visible) ==
  LET Inside(t, names) == visible \cup (VisibleAfter(t, names) \cap Unscoped)
  IN  CASE s[1] = "block" -> visible \cup (VisibleAfterAll(s[2], visible) \cap Unscoped)
        [] s[1] = "declare" -> Declared(s[3], NamesIn(s[4]), visible)
        [] s[1] = "array" -> Declared(s[2], IF s[4] = Nothing THEN {} ELSE NamesIn(s[4]), visible)
        [] s[1] = "store" -> Used(NamesIn(s[2]) \cup NamesIn(s[3]), visible)
        [] s[1] = "kick" -> Used({s[2]}, visible)
        [] s[1] = "if" -> Used(NamesIn(s[2]), Inside(s[3], visible)
                                               \cup (IF s[4] = Nothing THEN {} ELSE Inside(s[4], visible)))
        [] s[1] = "for" -> IF s[2] \in visible THEN visible \cup Unscoped ELSE Inside(s[5], visible \cup {s[2]})
        [] s[1] = "barrier" -> visible
Scoped(s, params) == VisibleAfter(s, params) \cap Unscoped = {}

-----------------------------------------------------------------------------
(* The Simplifier.  A scope maps a name to the constant or the name that    *)
(* stands for it.                                                           *)

IsConst(e) == e[1] = "const"
IsNumber(e, n) == e = Const(n)

\* What an operator becomes on simplified operands; l || r of two constants is taken for l && r.
SimplifyBin(op, l, r) ==
  LET both == IsConst(l) /\ IsConst(r)
  IN  CASE both /\ op \in {"*", "/", "+", "-", "<", ">", "<=", ">=", "==", "&&", "||"} ->
             Const(Apply(IF op = "||" THEN "&&" ELSE op, l[2], r[2]))
        [] op = "*" /\ (IsNumber(r, 1) \/ IsNumber(l, 0)) -> l
        [] op = "*" /\ (IsNumber(l, 1) \/ IsNumber(r, 0)) -> r
        [] op = "/" /\ (IsNumber(r, 1) \/ IsNumber(l, 0)) -> l
        [] op = "+" /\ IsNumber(l, 0) /\ ~IsNumber(r, 0) -> r
        [] op \in {"+", "-"} /\ IsNumber(r, 0) -> l
        [] op = "%" /\ IsNumber(r, 1) -> Const(0)
        [] op = "&&" /\ IsConst(l) -> IF l[2] = 0 THEN l ELSE r
        [] op = "&&" /\ IsConst(r) -> IF r[2] = 0 THEN r ELSE l
        [] op = "||" /\ IsConst(l) -> IF l[2] = 0 THEN r ELSE l
        [] op = "||" /\ IsConst(r) -> IF r[2] = 0 THEN l ELSE r
        [] OTHER -> Bin(op, l, r)

Resolve(x, scope) == IF x \in DOMAIN scope /\ scope[x][1] = "var" THEN scope[x][2] ELSE x
LoadOf(x, scope) == IF x \in DOMAIN scope /\ IsConst(scope[x]) THEN scope[x] ELSE Var(x)

RECURSIVE SimplifyExpr(_, _)
SimplifyExpr(e, scope) ==
  LET Choice(c) == IF ~IsConst(c) THEN <<e[1], c, SimplifyExpr(e[3], scope), SimplifyExpr(e[4], scope)>>
                   ELSE SimplifyExpr(IF c[2] = 0 THEN e[4] ELSE e[3], scope)
  IN  CASE e[1] \in {"const", "limit", "index"} -> e
        [] e[1] = "var" -> LoadOf(Resolve(e[2], scope), scope)
        [] e[1] = "elem" -> Elem(Resolve(e[2], scope), SimplifyExpr(e[3], scope))
        [] e[1] = "cast" -> Cast(e[2], SimplifyExpr(e[3], scope))
        [] e[1] = "neg" -> Negated(SimplifyExpr(e[2], scope))
        [] e[1] = "call" -> Call(e[2], MapSeq(e[3], LAMBDA a : SimplifyExpr(a, scope)))
        [] e[1] \in {"cond", "select"} -> Choice(SimplifyExpr(e[2], scope))
        [] e[1] = "clamp" -> Clamp(SimplifyExpr(e[2], scope), SimplifyExpr(e[3], scope), SimplifyExpr(e[4], scope))
        [] OTHER -> SimplifyBin(e[1], SimplifyExpr(e[2], scope), SimplifyExpr(e[3], scope))

\* What stands for the variable of a declaration, which is then dropped: a constant or a variable.
StandIn(s, scope) ==
  LET init == SimplifyExpr(s[4], scope)
  IN  IF s[1] = "declare" /\ init[1] \in {"const", "var"} THEN s[3] :> init ELSE <<>>

\* The statements in turn, those dropped that have become empty.
RECURSIVE SimplifyStmt(_, _), SimplifyAll(_, _)
SimplifyAll(stmts, scope) ==
  IF stmts = <<>> THEN <<>>
  ELSE SelectSeq(<<SimplifyStmt(Head(stmts), scope)>>, LAMBDA t : t # Block(<<>>))
         \o SimplifyAll(Tail(stmts), StandIn(Head(stmts), scope) @@ scope)
SimplifyBlock(stmts, scope) == Block(SimplifyAll(stmts, scope))
SimplifyIf(s, cond, scope) ==
  CASE s[4] = Nothing -> <<"if", cond, SimplifyStmt(s[3], scope), Nothing>>
    [] s[4] # Nothing /\ IsConst(cond) -> SimplifyStmt(IF cond[2] = 0 THEN s[4] ELSE s[3], scope)
    [] OTHER -> <<"if", cond, SimplifyStmt(s[3], scope), SimplifyStmt(s[4], scope)>>
SimplifyStmt(s, scope) ==
  CASE s[1] = "block" -> SimplifyBlock(s[2], scope)
    [] s[1] = "declare" -> IF StandIn(s, scope) # <<>> THEN Block(<<>>)
                           ELSE Declare(s[2], s[3], SimplifyExpr(s[4], scope))
    [] s[1] = "array" -> IF s[4] = Nothing THEN s ELSE DeclareArray(s[2], s[3], SimplifyExpr(s[4], scope))
    [] s[1] = "store" -> Store(IF s[2][1] = "var" THEN Var(Resolve(s[2][2], scope)) ELSE SimplifyExpr(s[2], scope),
                               SimplifyExpr(s[3], scope))
    [] s[1] = "if" -> SimplifyIf(s, SimplifyExpr(s[2], scope), scope)
    [] s[1] = "for" -> For(s[2], s[3], s[4], SimplifyStmt(s[5], scope))
    [] OTHER -> s
Simplify(body) == SimplifyStmt(body, <<>>)
=============================================================================
