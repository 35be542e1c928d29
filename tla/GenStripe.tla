----------------------------- MODULE GenStripe -----------------------------
(***************************************************************************)
(* tile/lang/gen_stripe.cc: the Stripe program of a Tile function.         *)
(*                                                                         *)
(* A function is [inputs, outputs, temps, shape, const, ops]: the names of *)
(* its tensors (each list in the order of its map), the shape of each, the *)
(* names bound to constants, and its operations.  An operation is          *)
(*   [tag |-> "contraction", output, agg, comb, specs, bounds, cons, default], *)
(*     specs being the tensors with their affine accesses, the output      *)
(*     first, bounds the indexes with their ranges and cons the remaining  *)
(*     constraints poly <= rhs (what CompileContraction and ComputeBounds  *)
(*     return);                                                            *)
(*   [tag |-> "function", fn, inputs, output] for an elementwise operation;*)
(*   [tag |-> "special", fn, inputs, output] for a special or a reshape.   *)
(***************************************************************************)
EXTENDS Stripe

Scalar(name) == "$" \o name
NoAccess(shape) == MapSeq(shape, LAMBDA d : Zero)
ScalarShape(shape) == WithSizes(shape, 1)
Tagged(x, tags) == [x EXCEPT !.tags = @ \cup tags]

\* The program's and main's refinements of a list of tensors.
NewRefs(f, names, tag) ==
  MapSeq(names, LAMBDA n : Tagged(Refinement(None, "", n, NoAccess(f.shape[n]), f.shape[n], ""), {tag}))
MainRefs(f, names, dir, agg, tags) ==
  MapSeq(names, LAMBDA n : Tagged(Refinement(dir, n, n, NoAccess(f.shape[n]), f.shape[n], agg), tags))

BoundOf(op, name) == op.bounds[SelectInSeq(op.bounds, LAMBDA x : x.name = name)]

\* A polynomial over the indexes counted from their minimum; an index with one value is folded in.
Integerize(poly, op) ==
  FoldSet(LAMBDA v, a :
            LET bound == BoundOf(op, v)
            IN  Plus(a, Plus(Const(poly[v] * bound.min),
                             IF bound.min = bound.max THEN Zero ELSE Term(v, poly[v]))),
          Const(Coef(poly, "")), Vars(poly))

\* Must the output be initialised: is it not written whole, each element by its own index?
NeedsInitialize(kernel, shape) ==
  LET access == kernel.refs[1].access
      Fixed(i) == access[i] = Zero /\ shape[i].size = 1
      Simple(i) == /\ Cardinality(DOMAIN access[i]) = 1
                   /\ Vars(access[i]) # {}
                   /\ \A v \in Vars(access[i]) :
                        /\ access[i][v] = 1
                        /\ kernel.idxs[IdxByName(kernel, v)].range = shape[i].size
      used == {i \in DOMAIN shape : ~Fixed(i)}
      outs == UNION {Vars(access[i]) : i \in used}
  IN  \/ \E i \in used : ~Simple(i)
      \/ Cardinality(outs) # Cardinality(used)
      \/ \E c \in ToSet(kernel.constraints) : Vars(c) \subseteq outs

\* A contraction: one block that loads its inputs, combines them and aggregates the result.
ProcessContraction(f, main, op) ==
  LET access(spec) == MapSeq(spec.access, LAMBDA p : Integerize(p, op))
      outRef == Refinement(Out, op.output, op.output, access(op.specs[1]),
                           ScalarShape(f.shape[op.output]), op.agg)
      inputs == Tail(op.specs)
      tensors == SelectSeq(inputs, LAMBDA s : s.id \notin DOMAIN f.const)
      scalars == MapSeq(inputs, LAMBDA s : Scalar(s.id))
      kernel ==
        [EmptyBlock EXCEPT
           !.tags = {"kernel", "contraction", "agg_op_" \o op.agg} \cup
                    (IF Len(inputs) = 1 THEN {"agg_op_" \o op.agg \o "_no_comb_op"}
                     ELSE {"comb_op_" \o op.comb}),
           !.refs = <<outRef>> \o
             MapSeq(tensors, LAMBDA s :
               Tagged(Refinement(In, s.id, s.id, access(s), ScalarShape(f.shape[s.id]), ""),
                      {"contraction"})),
           !.idxs = MapSeq(SelectSeq(op.bounds, LAMBDA x : x.min # x.max),
                           LAMBDA x : Index(x.name, x.max - x.min + 1, Zero)),
           !.constraints = MapSeq(op.cons, LAMBDA c :
                             Minus(Const(c.rhs), Integerize(c.poly, op))),
           !.stmts =
             MapSeq(inputs, LAMBDA s : IF s.id \in DOMAIN f.const
                                       THEN Constant(Scalar(s.id), f.const[s.id])
                                       ELSE Load(s.id, Scalar(s.id)))
             \o <<Intrinsic(IF Len(inputs) > 1 THEN op.comb ELSE "assign", scalars,
                            <<Scalar(op.output)>>),
                  Store(Scalar(op.output), op.output)>>]
      init == IF op.default = "" THEN Special("zero", <<>>, <<op.output>>)
              ELSE Special("copy", <<op.default>>, <<op.output>>)
  IN  IF SizesProduct(f.shape[op.output]) = 0 THEN main
      ELSE [main EXCEPT !.stmts = @ \o
              (IF NeedsInitialize(kernel, f.shape[op.output]) THEN <<init, kernel>> ELSE <<kernel>>)]

\* An elementwise operation: one index per dimension of the output, inputs broadcast.
ProcessElementwise(f, main, op) ==
  LET out == f.shape[op.output]
      index(i) == "i" \o ToString(i)
      outAccess == [i \in 1..Len(out) |-> IF out[i].size > 1 THEN Var(index(i)) ELSE Zero] \o <<>>
      inAccess(shape) ==
        [i \in 1..Len(shape) |->
           IF shape[i].size > 1 THEN Var(index(i + Len(out) - Len(shape))) ELSE Zero] \o <<>>
      tensors == SelectSeq(op.inputs, LAMBDA n : n \notin DOMAIN f.const)
  IN  [main EXCEPT !.stmts = Append(@,
        [EmptyBlock EXCEPT
           !.tags = {"kernel", "eltwise", "eltwise_" \o op.fn},
           !.idxs = SelectSeq([i \in 1..Len(out) |-> Index(index(i), out[i].size, Zero)],
                              LAMBDA x : x.range # 1),
           !.refs = MapSeq(tensors, LAMBDA n :
                      Tagged(Refinement(In, n, n, inAccess(f.shape[n]), ScalarShape(f.shape[n]), ""),
                             {"eltwise_" \o op.fn}))
                    \o <<Refinement(Out, op.output, op.output, outAccess, ScalarShape(out), "")>>,
           !.stmts = MapSeq(op.inputs, LAMBDA n : IF n \in DOMAIN f.const
                                                  THEN Constant(Scalar(n), f.const[n])
                                                  ELSE Load(n, Scalar(n)))
                     \o <<Intrinsic(op.fn, MapSeq(op.inputs, Scalar), <<Scalar(op.output)>>),
                          Store(Scalar(op.output), op.output)>>])]

ProcessSpecial(main, op) ==
  [main EXCEPT !.stmts = Append(@, Special(op.fn, op.inputs, <<op.output>>))]

\* The program block holds the buffers; its one statement, main, the kernels.
GenerateStripe(f) ==
  LET decls == [EmptyBlock EXCEPT
                  !.tags = {"main"},
                  !.refs = MainRefs(f, f.inputs, In, "", {}) \o MainRefs(f, f.outputs, Out, "assign", {})]
      kernels == FoldLeft(LAMBDA main, op :
                            CASE op.tag = "contraction" -> ProcessContraction(f, main, op)
                              [] op.tag = "function" -> ProcessElementwise(f, main, op)
                              [] op.tag = "special" -> ProcessSpecial(main, op),
                          decls, f.ops)
      main == [kernels EXCEPT !.refs = @ \o MainRefs(f, f.temps, InOut, "", {"tmp"})]
  IN  [EmptyBlock EXCEPT
         !.tags = {"program"},
         !.refs = NewRefs(f, f.inputs, "user") \o NewRefs(f, f.outputs, "user")
                  \o NewRefs(f, f.temps, "tmp"),
         !.stmts = <<main>>]
=============================================================================
