------------------------------ MODULE StripeVM ------------------------------
(***************************************************************************)
(* The reference interpreter of Stripe programs, tile/codegen/vm.cc: what  *)
(* a program computes.  The tests of the passes compare the buffers it     *)
(* leaves before and after a pass.                                         *)
(*                                                                         *)
(* The memory mem is [bufs, ok]: the sequence of buffers allocated so far  *)
(* and whether nothing was thrown yet.  A scope is [idxs, refs, offsets]:  *)
(* the value of each index, the buffer of each refinement and the offset   *)
(* in it.  Specials are not executed, as in the code.                      *)
(***************************************************************************)
EXTENDS Stripe

Fail(mem) == [mem EXCEPT !.ok = FALSE]

\* The intrinsics it knows, by number of operands.
Binary == {"add", "mul", "cmp_lt"}
Ternary == {"cond"}
Compute(name, x) ==
  CASE name = "add" -> x[1] + x[2]
    [] name = "mul" -> x[1] * x[2]
    [] name = "cmp_lt" -> IF x[1] < x[2] THEN 1 ELSE 0
    [] name = "cond" -> IF x[1] # 0 THEN x[2] ELSE x[3]
Supported(stmt) ==
  \/ Len(stmt.inputs) = 2 /\ stmt.name \in Binary
  \/ Len(stmt.inputs) = 3 /\ stmt.name \in Ternary

\* Buffers of a block: a refinement without a from is a new buffer of zeros, any other
\* is the buffer the outer scope knows by that name.
Bind(b, outer, mem) ==
  LET Add(acc, ref) ==
        IF ref.from = ""
        THEN [acc EXCEPT !.bufs = Append(@, [e \in 1..ElemSize(ref.shape) |-> 0] \o <<>>),
                         !.refs = (ref.into :> Len(acc.bufs) + 1) @@ @]
        ELSE IF ref.from \in DOMAIN outer.refs
             THEN [acc EXCEPT !.refs = (ref.into :> outer.refs[ref.from]) @@ @]
             ELSE Fail(acc)
  IN  FoldLeft(Add, [bufs |-> mem.bufs, ok |-> mem.ok, refs |-> Zero], b.refs)

\* The index states of a block in the order of its loops, each index counted from its
\* affine in the indexes of the outer scope.
Points(b, env) ==
  FoldLeft(LAMBDA pts, x :
             FlattenSeq([k \in 1..Len(pts) |->
               [i \in 1..x.range |-> (x.name :> Eval(x.affine, env) + i - 1) @@ pts[k]] \o <<>>]),
           <<Zero>>, b.idxs)

CanLoop(b, env) == \A i \in DOMAIN b.idxs : CanEval(b.idxs[i].affine, env)

\* The offset of each refinement at an index state.
CanAddress(b, outer, env) ==
  \A r \in ToSet(b.refs) :
     /\ r.from = "" \/ r.from \in DOMAIN outer.offsets
     /\ \A i \in DOMAIN r.access : CanEval(r.access[i], env)
Offsets(b, outer, env) ==
  FoldLeft(LAMBDA offs, r :
             (r.into :> (IF r.from = "" THEN 0 ELSE outer.offsets[r.from])
                          + Eval(FlatAccess(r), env)) @@ offs,
           Zero, b.refs)

InBounds(scope, mem, name) ==
  /\ name \in DOMAIN scope.refs
  /\ scope.offsets[name] \in 0..(Len(mem.bufs[scope.refs[name]]) - 1)

RECURSIVE ExecuteBlock(_, _, _)

\* One statement of a block; st is the memory with the scalars of this index state.
Execute(b, scope, st, stmt) ==
  LET buf(name) == scope.refs[name]
      at(name) == scope.offsets[name] + 1
      Scalar(name) == IF name \in DOMAIN st.vars THEN st.vars[name] ELSE 0
      Set(name, value) == [st EXCEPT !.vars = (name :> value) @@ @]
  IN  CASE ~st.ok -> st
        [] stmt.kind = "load" ->
             IF InBounds(scope, st, stmt.from)
             THEN Set(stmt.into, st.bufs[buf(stmt.from)][at(stmt.from)])
             ELSE Fail(st)
        [] stmt.kind = "store" ->
             IF InBounds(scope, st, stmt.into)
             THEN [st EXCEPT !.bufs[buf(stmt.into)][at(stmt.into)] =
                     Scalar(stmt.from)
                       + (IF b.refs[RefByInto(b, stmt.into)].agg = "add" THEN @ ELSE 0)]
             ELSE Fail(st)
        [] stmt.kind = "intrinsic" ->
             IF Supported(stmt)
             THEN Set(stmt.outputs[1], Compute(stmt.name, MapSeq(stmt.inputs, Scalar)))
             ELSE Fail(st)
        [] stmt.kind = "constant" -> Set(stmt.name, stmt.value)
        [] stmt.kind = "block" ->
             LET Left(mem) == [st EXCEPT !.bufs = mem.bufs, !.ok = mem.ok]
             IN  Left(ExecuteBlock(stmt, scope, st))
        [] OTHER -> st

\* The statements of a block at one index state, unless a constraint is negative there.
ExecuteStatements(b, outer, refs, env, mem) ==
  LET Run(scope) ==
        LET run[k \in 0..Len(b.stmts)] ==
              IF k = 0 THEN [bufs |-> mem.bufs, ok |-> mem.ok, vars |-> Zero]
              ELSE Execute(b, scope, run[k - 1], b.stmts[k])
        IN  run[Len(b.stmts)]
      Left(done) == [mem EXCEPT !.bufs = done.bufs, !.ok = done.ok]
  IN  CASE \E c \in ToSet(b.constraints) : ~CanEval(c, env) -> Fail(mem)
        [] \A c \in ToSet(b.constraints) : CanEval(c, env) ->
             IF \E c \in ToSet(b.constraints) : Eval(c, env) < 0 THEN mem
             ELSE IF ~CanAddress(b, outer, env) THEN Fail(mem)
             ELSE Left(Run([idxs |-> env, refs |-> refs, offsets |-> Offsets(b, outer, env)]))

\* A block: its buffers live as long as its loops run.
ExecuteBlock(b, outer, mem) ==
  LET Run(bound, points) ==
        LET Turn(before, env) ==
              IF before.ok THEN ExecuteStatements(b, outer, bound.refs, env, before) ELSE before
            run[k \in 0..Len(points)] ==
              IF k = 0 THEN [bufs |-> bound.bufs, ok |-> TRUE] ELSE Turn(run[k - 1], points[k])
        IN  run[Len(points)]
      Left(done) == [bufs |-> SubSeq(done.bufs, 1, Len(mem.bufs)), ok |-> done.ok]
      Loop(bound) == IF ~bound.ok \/ ~CanLoop(b, outer.idxs) THEN Fail(mem)
                     ELSE Left(Run(bound, Points(b, outer.idxs)))
  IN  Loop(Bind(b, outer, mem))

\* A program: the refinements tagged "user" are the caller's buffers, the others are
\* temporaries; what it leaves in the caller's buffers, and whether it threw nothing.
ExecuteProgram(program, data) ==
  LET Add(acc, ref) ==
        [acc EXCEPT !.bufs = Append(@, IF "user" \in ref.tags THEN data[ref.into]
                                       ELSE [e \in 1..ElemSize(ref.shape) |-> 0] \o <<>>),
                    !.refs = (ref.into :> Len(acc.bufs) + 1) @@ @]
      outer == [idxs |-> Zero, refs |-> Zero, offsets |-> Zero]
      users == {r.into : r \in {x \in ToSet(program.refs) : "user" \in x.tags}}
      Left(bound, done) == [ok |-> done.ok, data |-> [u \in users |-> done.bufs[bound.refs[u]]] @@ Zero]
      Run(bound) ==
        Left(bound, ExecuteStatements(program, outer, bound.refs, Zero, [bufs |-> bound.bufs, ok |-> TRUE]))
  IN  Run(FoldLeft(Add, [bufs |-> <<>>, refs |-> Zero], program.refs))
=============================================================================
