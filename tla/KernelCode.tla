----------------------------- MODULE KernelCode -----------------------------
(***************************************************************************)
(* tile/lang: the kernel of a flat contraction (gen_contract.cc), and the  *)
(* kernels that clear or copy a tensor (gen_trivial.cc).                   *)
(*                                                                         *)
(* A tensor's name is a number.  vars maps it to what it is bound to: a    *)
(* [tag |-> "tensor", shape] or a [tag |-> "const", value].  A kernel is   *)
(* [params, body, groups, threads]; a parameter is [name, width], those of *)
(* the outputs first.                                                      *)
(***************************************************************************)
EXTENDS TileOpt

CONSTANT SelectThreshold   \* SELECT_THRESHOLD: with so few elements a loop is checked by selects; 32
ASSUME SelectThresholdAssumption == SelectThreshold \in Nat

Tensor(t) == <<"tensor", t>>
Local(t) == <<"L", t>>
In(i) == <<"in", i>>
Shared_(i) == <<"shared", i>>
Val(i) == <<"val", i>>
MergeShared == <<"merge">>
Agg == <<"agg">>
AggIdx == <<"agg_idx">>
AggRhs == <<"agg_rhs">>
GoutIdx == <<"gout_idx">>
IsTensor(vars, t) == vars[t].tag = "tensor"

InitialValue(agg) == CASE agg = "max" -> "min" [] agg = "min" -> "max" [] agg = "prod" -> "one" [] OTHER -> "zero"
Combine(comb, l, r) == Bin(CASE comb = "mul" -> "*" [] comb = "add" -> "+" [] comb = "eq" -> "==", r, l)
Aggregate(agg, l, r) ==
  CASE agg = "sum" -> Bin("+", l, r)
    [] agg = "prod" -> Bin("*", l, r)
    [] agg = "max" -> Cond(Bin(">", r, l), r, l)
    [] agg = "min" -> Cond(Bin("<", r, l), r, l)
    [] agg = "assign" -> r

\* What is done for one kernel: g is [settings, flat, tile, vars, inputs, threads, out, reads].
Indexes(g) == [k \in DOMAIN g.flat.ranges |-> k] \o <<>>
OutOnly(g) == SelectSeq(Indexes(g), LAMBDA k : IsOut(g.flat, k))
InOnly(g) == SelectSeq(Indexes(g), LAMBDA k : ~IsOut(g.flat, k))
TensorInputs(g) == SelectSeq([i \in DOMAIN g.inputs |-> i] \o <<>>, LAMBDA i : IsTensor(g.vars, g.inputs[i]))
Place(g, k) == Bin("+", Var(Gid(g.flat.names[k])), Var(Idx(g.flat.names[k])))
TypeLimit(g, which) == IF g.flat.aggVec > 1 THEN Cast(g.flat.aggVec, Limit(which)) ELSE Limit(which)

\* A constraint, at the place that the indexes have.
Weighted(g, c) ==
  SumExpr(Const(0), MapSeq(SelectSeq(Indexes(g), LAMBDA k : c.lhs[k] # 0), LAMBDA k : Bin("*", Const(c.lhs[k]), Place(g, k))))
Holds(g, c) == Bin("<=", Weighted(g, c), Const(c.rhs))
\* It holds all over a tile when it holds in the tile's worst corner.
Corner(g, c, k) ==
  LET gid == Var(Gid(g.flat.names[k]))
  IN  Bin("*", Const(c.lhs[k]), IF c.lhs[k] > 0 THEN Bin("-", Bin("+", gid, Const(g.tile[k])), Const(1)) ELSE gid)
SafeIn(g, c) ==
  Bin("<=", SumExpr(Const(0), MapSeq(SelectSeq(Indexes(g), LAMBDA k : c.lhs[k] # 0), LAMBDA k : Corner(g, c, k))), Const(c.rhs))

-----------------------------------------------------------------------------
(* The contraction: every thread aggregates its share in registers.         *)

InputValue(g, i) ==
  CASE ~IsTensor(g.vars, g.inputs[i]) -> Const(g.vars[g.inputs[i]].value)
    [] IsTensor(g.vars, g.inputs[i]) /\ g.settings.useGlobal -> Elem(In(i), GlobalOffset(g.reads[i]))
    [] OTHER -> Elem(Shared_(i), SharedOffset(g.reads[i]))
LoadValue(g, i) ==
  IF g.flat.comb = "eq" THEN Declare(g.flat.access[i + 1].vector, Val(i), InputValue(g, i))
  ELSE Declare(g.flat.aggVec, Val(i), Cast(g.flat.aggVec, InputValue(g, i)))
PreAggregate(g) ==
  LET wide(e) == Cast(g.flat.aggVec, e)
  IN  CASE Len(g.inputs) = 1 -> Var(Val(1))
        [] Len(g.inputs) = 2 -> wide(Combine(g.flat.comb, Var(Val(1)), Var(Val(2))))
        [] Len(g.inputs) = 3 -> Cond(Bin("==", Var(Val(1)), Var(Val(2))), wide(Var(Val(3))), wide(Const(0)))

AggAt == Elem(Agg, Var(AggIdx))
Gathered(g) ==
  [i \in DOMAIN g.inputs |-> LoadValue(g, i)] \o
  <<DeclareIndex(AggIdx, RegIndex(g.out)),
    Declare(g.flat.aggVec, AggRhs, Aggregate(g.flat.agg, AggAt, PreAggregate(g)))>>
Guarded(g, cond) == Block(Append(Gathered(g), Store(AggAt, Cond(cond, Var(AggRhs), AggAt))))
AllHold(g) == FoldLeft(LAMBDA a, c : Bin("&&", a, Holds(g, c)), Const(1), g.flat.constraints)
FastBlock(g, inner) == Guarded(g, IF inner = Nothing THEN Const(1) ELSE inner)
SlowBlock(g, inner) ==
  CASE g.settings.useGlobal -> Block(<<If(AllHold(g), FastBlock(g, inner), Nothing)>>)
    [] ~g.settings.useGlobal /\ inner = Nothing -> Guarded(g, AllHold(g))
    [] OTHER -> Guarded(g, Bin("&&", inner, AllHold(g)))

\* The threads that are left by the outputs take the indexes that are aggregated over.
InLoops(g) ==
  LET Next_(a, k) ==
        LET thread == Min({a.left, NearestPo2(g.tile[k])})
        IN  [left |-> a.left \div thread,
             loops |-> Append(a.loops, [name |-> g.flat.names[k], total |-> g.flat.ranges[k], tile |-> g.tile[k],
                                        thread |-> thread])]
  IN  FoldLeft(Next_, [left |-> g.threads \div OutThreads(g.out), loops |-> <<>>], InOnly(g))
UsedOut(g) == g.threads \div (g.threads \div OutThreads(g.out))
Threshold(g) == IF g.settings.useGlobal THEN 0 ELSE SelectThreshold
Looped(g, loops, inner) ==
  GenerateLoop(loops, GenerateLoop(OutLoops(g.out), inner, UsedOut(g), 1, TRUE, Threshold(g)),
               g.threads, UsedOut(g), FALSE, 0)

MainWork(g, loops, cond) ==
  LET fast == Looped(g, loops, FastBlock(g, cond))
      safe == FoldLeft(LAMBDA a, c : MaybeAnd(a, SafeIn(g, c)), Nothing, g.flat.constraints)
  IN  IF g.flat.constraints = <<>> THEN fast ELSE If(safe, fast, Looped(g, loops, SlowBlock(g, cond)))

\* Input i is loaded for a tile into the memory of the group.
Loads(g) ==
  MapSeq(TensorInputs(g), LAMBDA i : GenerateRead(g.reads[i], Shared_(i), In(i), g.threads,
                                                  g.flat.access[i + 1].limit, g.flat.access[i + 1].offset))
\* Mutant: no barrier after a tile, so that its memory is loaded over while threads still read it.
TileWorkUnfenced(g, main) ==
  IF g.settings.useGlobal THEN StatementsOf(main)
  ELSE Loads(g) \o (IF TensorInputs(g) = <<>> THEN <<>> ELSE <<Barrier>>) \o StatementsOf(main)
TileWork(g, main) ==
  IF g.settings.useGlobal THEN StatementsOf(main)
  ELSE Loads(g) \o (IF TensorInputs(g) = <<>> THEN <<>> ELSE <<Barrier>>) \o StatementsOf(main) \o <<Barrier>>
\* The loops over the tiles; a block of its own when there are none.
ScanLoops(g, work) ==
  FoldRight(LAMBDA k, s : For(Gid(g.flat.names[k]), RoundUp(g.flat.ranges[k], g.tile[k]), g.tile[k], s), InOnly(g), Block(work))

\* Threads that aggregated parts of the same outputs merge them, half of them at a time.
Merge(g, computing) ==
  LET half(x) == <<Barrier,
                   If(Bin("<", Var(Tid), Const(x)),
                      Store(Elem(MergeShared, Var(Tid)),
                            Aggregate(g.flat.agg, Elem(MergeShared, Var(Tid)),
                                      Elem(MergeShared, Bin("+", Var(Tid), Const(x))))), Nothing)>>
      first == Elem(Agg, Const(0))
      Halves[x \in 1..computing] == IF x > UsedOut(g) THEN half(x \div 2) \o Halves[x \div 2] ELSE <<>>
  IN  Block(<<Store(Elem(MergeShared, Var(Tid)), first)>> \o Halves[computing] \o
            <<Barrier, If(Bin("<", Var(Tid), Const(UsedOut(g))), Store(first, Elem(MergeShared, Var(Tid))), Nothing)>>)
MergeIfNeeded(g, computing) ==
  IF UsedOut(g) < computing THEN <<DeclareArray(MergeShared, g.threads, Nothing), Merge(g, computing)>> ELSE <<>>

SharedArrays(g) ==
  IF g.settings.useGlobal THEN <<>>
  ELSE MapSeq(TensorInputs(g), LAMBDA i : DeclareArray(Shared_(i), g.reads[i].localSize, Nothing))
ContractionWith(g, in) ==
  <<DeclareArray(Agg, g.out.perThread, TypeLimit(g, InitialValue(g.flat.agg)))>>
    \o SharedArrays(g) \o InitBases(g.out)
    \o <<ScanLoops(g, TileWork(g, MainWork(g, in.loops, InnerCond(OutLoops(g.out), TRUE, Threshold(g)))))>>
    \o MergeIfNeeded(g, g.threads \div in.left)
ContractionCode(g) == IF g.flat.contraction THEN ContractionWith(g, InLoops(g)) ELSE InitBases(g.out)

-----------------------------------------------------------------------------
(* The output: the aggregate, and the elementwise operations after it.      *)

\* What was aggregated; a maximum of nothing is zero.
OutputValue(g) ==
  LET out == Local(g.flat.output)
      declared == Declare(g.flat.aggVec, out, Elem(Agg, RegIndex(g.out)))
      least == Bin("==", Var(out), TypeLimit(g, "min"))
  IN  CASE ~g.flat.contraction -> <<>>
        [] g.flat.contraction /\ g.flat.agg = "max" ->
             <<declared, Store(Var(out), Cond(least, TypeLimit(g, "zero"), Var(out)))>>
        [] OTHER -> <<declared>>

PostInput(g, p) ==
  LET Term(k) == Bin("*", Const(p.access.strides[k]), Place(g, k))
      broadcast == SumExpr(Const(0), MapSeq(SelectSeq(Indexes(g), LAMBDA k : p.access.strides[k] # 0), Term))
  IN  Declare(g.flat.aggVec, Local(p.name),
              Elem(Tensor(p.name), IF ElemCount(p.shape) = ElemCount(g.vars[g.flat.output].shape) THEN Var(GoutIdx)
                                   ELSE broadcast))

BinOps == {"+", "-", "*", "/", "<", ">", "<=", ">=", "=="}
Argument(g, t) ==
  CASE IsTensor(g.vars, t) -> Cast(g.flat.aggVec, Var(Local(t)))
    [] ~IsTensor(g.vars, t) /\ g.flat.aggVec > 1 -> Cast(g.flat.aggVec, Const(g.vars[t].value))
    [] OTHER -> Const(g.vars[t].value)
\* index(t, d): the place along dimension d, from the index's place in the tile.
IndexValue(g, op) ==
  LET poly == g.flat.indexMap[op.inputs[1]][g.vars[op.inputs[2]].value + 1]
      Term(v) == IF v = <<>> THEN Const(Floor(poly[v])) ELSE Bin("*", Const(Floor(poly[v])), Var(Idx(v)))
  IN  SumExpr(Const(0), MapSeq(InOrder(DOMAIN poly), Term))
PostValue(g, op) ==
  LET arg(i) == Argument(g, op.inputs[i])
  IN  CASE op.fn \in BinOps -> Bin(op.fn, arg(1), arg(2))
        [] op.fn = "cond" -> Cond(Bin("!=", arg(1), Const(0)), arg(2), arg(3))
        [] op.fn = "neg" -> Negated(arg(1))
        [] op.fn \in {"ident", "reshape"} -> arg(1)
        [] op.fn = "as_float" -> Cast(g.flat.aggVec, arg(1))
        [] op.fn = "index" -> IndexValue(g, op)
        [] OTHER -> Call(op.fn, [i \in DOMAIN op.inputs |-> arg(i)] \o <<>>)
\* The second argument of index must be a constant number, which it no longer is beside vectors.
ValidPostOp(g, op) ==
  op.fn = "index" => /\ g.flat.aggVec = 1 /\ op.inputs[1] \in DOMAIN g.flat.indexMap
                     /\ ~IsTensor(g.vars, op.inputs[2])
                     /\ g.vars[op.inputs[2]].value \in 0..(Len(g.flat.indexMap[op.inputs[1]]) - 1)

CheckedOutput(g) ==
  MapSeq(g.flat.postInputs, LAMBDA p : PostInput(g, p))
    \o MapSeq(g.flat.postOps, LAMBDA op : Declare(g.flat.aggVec, Local(op.output), PostValue(g, op)))
    \o MapSeq(g.flat.outputs, LAMBDA t : Store(Elem(Tensor(t), Var(GoutIdx)), Var(Local(t))))
\* Nothing is written outside the tensor, nor where a constraint on the output alone does not hold.
WithinOutput(g) ==
  LET out == g.flat.access[1]
      onOutput(c) == \A k \in DOMAIN c.lhs : c.lhs[k] # 0 => IsOut(g.flat, k)
      inside == Bin("&&", Bin(">=", Var(GoutIdx), Const(-out.offset)), Bin("<", Var(GoutIdx), Const(out.limit - out.offset)))
  IN  FoldLeft(LAMBDA a, c : Bin("&&", a, Holds(g, c)), inside, SelectSeq(g.flat.constraints, onOutput))
WriteOutput(g) ==
  LET out == g.flat.access[1]
      gout == SumExpr(Const(0), MapSeq(OutOnly(g), LAMBDA k : Bin("*", Const(out.strides[k]), Place(g, k))))
      checked == CheckedOutput(g)
  IN  Block(OutputValue(g) \o <<DeclareIndex(GoutIdx, gout)>> \o
            (IF g.flat.constraints = <<>> THEN checked ELSE <<If(WithinOutput(g), Block(checked), Nothing)>>))

-----------------------------------------------------------------------------
(* The kernel.                                                              *)

Kicks(g) ==
  (IF g.flat.access[1].offset = 0 THEN <<>> ELSE MapSeq(g.flat.outputs, LAMBDA t : Kick(Tensor(t), g.flat.access[1].offset)))
    \o MapSeq(SelectSeq([i \in DOMAIN g.inputs |-> i] \o <<>>, LAMBDA i : g.flat.access[i + 1].offset # 0),
              LAMBDA i : Kick(In(i), g.flat.access[i + 1].offset))
KernelParams(g) ==
  MapSeq(g.flat.outputs, LAMBDA t : [name |-> Tensor(t), width |-> g.flat.aggVec])
    \o MapSeq(TensorInputs(g), LAMBDA i : [name |-> In(i), width |-> g.flat.access[i + 1].vector])
    \o MapSeq(g.flat.postInputs, LAMBDA p : [name |-> Tensor(p.name), width |-> g.flat.aggVec])
KernelBody(g) ==
  Block(Kicks(g) \o <<DeclareIndex(Tid, HardwareIndex("local"))>> \o ContractionCode(g)
          \o StatementsOf(GenerateLoop(OutLoops(g.out), WriteOutput(g), g.threads, 1, FALSE, 0)))

Valid(g) ==
  /\ g.flat.agg = "assign" => InOnly(g) = <<>>
  /\ g.flat.contraction /\ Len(g.inputs) = 3 => g.flat.comb = "cond"
  /\ g.flat.contraction /\ Len(g.inputs) = 2 => g.flat.comb \in {"mul", "add", "eq"}
  /\ \A op \in ToSet(g.flat.postOps) : ValidPostOp(g, op)
GenWith(g) ==
  IF Valid(g) THEN [ok |-> TRUE, params |-> KernelParams(g), body |-> KernelBody(g), groups |-> g.out.groups,
                    threads |-> g.threads]
  ELSE [ok |-> FALSE]
GenPlanned(settings, flat, tile, vars, inputs, threads) ==
  GenWith([settings |-> settings, flat |-> flat, tile |-> tile, vars |-> vars, inputs |-> inputs, threads |-> threads,
           out |-> OutPlanFor(flat, tile, threads, settings),
           reads |-> [i \in DOMAIN inputs |-> ReadPlanFor(flat, i + 1, tile, settings)] \o <<>>])
GenContract(settings, flat, tile, vars, inputs) ==
  GenPlanned(settings, flat, tile, vars, inputs, Min({NearestPo2(ProductOf(flat.ranges)), settings.threads}))

-----------------------------------------------------------------------------
(* gen_trivial.cc: one group of one thread for each element.                *)

Trivial(params, from, size) ==
  [ok |-> TRUE, params |-> params, groups |-> <<size, 1, 1>>, threads |-> 1,
   body |-> Block(<<Store(Elem(<<"out">>, HardwareIndex("group1")), from)>>)]
GenZero(shape) == Trivial(<<[name |-> <<"out">>, width |-> 1]>>, Const(0), ElemCount(shape))
GenCopy(shape) ==
  Trivial(<<[name |-> <<"out">>, width |-> 1], [name |-> <<"in">>, width |-> 1]>>,
          Elem(<<"in">>, HardwareIndex("group1")), ElemCount(shape))
=============================================================================
