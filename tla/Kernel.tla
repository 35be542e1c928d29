------------------------------- MODULE Kernel -------------------------------
(***************************************************************************)
(* A tile program that runs: its kernels (Generate) are launched one after *)
(* the other, each with the code for one of its tiles; the groups of a     *)
(* kernel run one after the other, from either end of the grid, and the    *)
(* threads of a group in any order between two barriers.                   *)
(*                                                                         *)
(* An output may be given the memory of an input that the kernel says it   *)
(* may lie on, when that is a temporary that no later kernel reads, as     *)
(* BlockPlacement::IsCompatible and ToScheduleSteps allow.                 *)
(*                                                                         *)
(* A job of Generate has two more fields here: data, the contents of each  *)
(* tensor of the program's inputs, and box, the numbers that the indexes   *)
(* of its contractions are tried with, for what it means.                  *)
(***************************************************************************)
EXTENDS Generate

CONSTANTS
  Jobs,       \* a sequence of jobs
  MaxThreads  \* as many as the settings of a job have at most

VARIABLES
  job,     \* the job that runs
  made,    \* what the compiler makes of it, and
  means,   \* what it means: computed in the initial state, to be there
  at,      \* the kernel that runs, or is launched next
  place,   \* the buffer that each tensor lies in: its own, or one it may lie on
  bufs,    \* the buffers in memory
  run,     \* the kernel at work, [option, groups, phase, ran, threads, shared], or Idle
  stray    \* whether a thread wrote outside an array or a buffer

vars_ == <<job, made, means, at, place, bufs, run, stray>>

-----------------------------------------------------------------------------
(* What the compiler makes of a job.                                        *)

DistinctParams(params) == \A i, k \in DOMAIN params : params[i].name = params[k].name => i = k
Prepared(option) ==
  [code |-> Phases(option.body), params |-> option.params, groups |-> option.groups, threads |-> option.threads,
   shared |-> SharedIn(option.body),
   wellFormed |-> DistinctParams(option.params) /\ Scoped(option.body, {p.name : p \in ToSet(option.params)})]
PreparedKernel(kernel) ==
  [outputs |-> kernel.outputs, inputs |-> kernel.inputs, aliases |-> kernel.aliases,
   options |-> MapSeq(kernel.options, Prepared)]
Ready(result) == IF result.ok THEN [result EXCEPT !.kernels = MapSeq(@, PreparedKernel)] ELSE [ok |-> FALSE, rewrites |-> <<>>, kernels |-> <<>>]
CompileJob(prog) == Ready(GenerateProgram(prog))

-----------------------------------------------------------------------------
(* What a program means (docs/writing_tile_code.rst): a contraction adds    *)
(* up over all whole numbers for its indexes at which every tensor is       *)
(* indexed inside and every constraint holds; what it leaves unwritten is   *)
(* zero, or what its default has.                                           *)

Points(prog, c) == [IndexVars(c) -> {Q(n) : n \in prog.box}]
Inside(poly, point, size) == LET x == Eval(poly, point) IN Denominator(x) = 1 /\ Numerator(x) \in 0..(size - 1)
TensorOffset(spec, shape, point) == FoldLeft(LAMBDA s, d : s + Numerator(Eval(spec[d], point)) * shape[d].stride, 0, Range1(Len(spec)))
ValidPoint(c, shapes, point) ==
  /\ \A i \in DOMAIN shapes : \A d \in DOMAIN shapes[i] : Inside(c.specs[i][d], point, shapes[i][d].size)
  /\ \A k \in DOMAIN c.cons : Inside(c.cons[k].poly, point, c.cons[k].range)
\* The elements that meet at each of the valid points, the output's first.
Meetings(prog, op, shapes) ==
  {<<point, [i \in DOMAIN shapes |-> TensorOffset(op.c.specs[i], shapes[i], point)] \o <<>> >> :
     point \in {p \in Points(prog, op.c) : ValidPoint(op.c, shapes, p)}}
Combined(comb, v) ==
  CASE Len(v) = 1 -> v[1]
    [] comb = "mul" -> v[1] * v[2]
    [] comb = "add" -> v[1] + v[2]
    [] comb = "eq" -> Bool(v[1] = v[2])
    [] comb = "cond" -> IF v[1] = v[2] THEN v[3] ELSE 0
Aggregated(agg, numbers) ==
  CASE agg \in {"sum", "assign"} -> FoldLeft(LAMBDA a, b : a + b, 0, numbers)
    [] agg = "prod" -> FoldLeft(LAMBDA a, b : a * b, 1, numbers)
    [] agg = "max" -> Max(ToSet(numbers))
    [] agg = "min" -> Min(ToSet(numbers))
ContractionMeaning(prog, op, values, meetings, size) ==
  LET Met(p) == SetToSeq({m \in meetings : m[2][1] = p})
      At(m) == Combined(op.c.comb, [i \in DOMAIN op.inputs |-> values[op.inputs[i]][m[2][i + 1]]] \o <<>>)
      Default(p) == IF op.default = 0 THEN 0 ELSE values[op.default][p]
      Element(p, met) == IF met = <<>> THEN Default(p) ELSE Aggregated(op.c.agg, MapSeq(met, At))
  IN  [p \in 0..(size - 1) |-> Element(p, Met(p))]

\* An element of an operand that is broadcast to the shape of the result.
Coordinate(shape, p, d) == (p \div shape[d].stride) % shape[d].size
Broadcast(from, to, p) ==
  FoldLeft(LAMBDA s, d : s + (IF from[d].size = 1 THEN 0 ELSE Coordinate(to, p, Len(to) - Len(from) + d)) * from[d].stride,
           0, Range1(Len(from)))
Operand(prog, t, op, values, p) ==
  CASE ~IsTensor(prog.vars, t) -> prog.vars[t].value
    [] IsTensor(prog.vars, t) /\ op.fn \in {"ident", "reshape"} -> values[t][p]
    [] OTHER -> values[t][Broadcast(ShapeOf(prog, t), ShapeOf(prog, op.output), p)]
FunctionValue(fn, v) ==
  CASE fn \in BinOps -> Apply(fn, v[1], v[2])
    [] fn = "cond" -> IF v[1] # 0 THEN v[2] ELSE v[3]
    [] fn = "neg" -> -v[1]
    [] fn \in {"ident", "reshape", "as_float"} -> v[1]
    [] OTHER -> Called(fn, v)
OperandsAt(prog, op, values, p) == [i \in DOMAIN op.inputs |-> Operand(prog, op.inputs[i], op, values, p)] \o <<>>
FunctionMeaning(prog, op, values) ==
  [p \in 0..(ElemCount(ShapeOf(prog, op.output)) - 1) |-> FunctionValue(op.fn, OperandsAt(prog, op, values, p))]

ShapesOf(prog, op) == MapSeq(<<op.output>> \o op.inputs, LAMBDA t : ShapeOf(prog, t))
OpMeaning(prog, op, values) ==
  IF op.tag = "function" THEN FunctionMeaning(prog, op, values)
  ELSE ContractionMeaning(prog, op, values, Meetings(prog, op, ShapesOf(prog, op)), ElemCount(ShapeOf(prog, op.output)))
\* The contents of the tensors, and whether a contraction touches nothing.
Start(prog) == [t \in prog.inputs |-> [p \in 0..(Len(prog.data[t]) - 1) |-> prog.data[t][p + 1]]]
TouchesNothing(prog) ==
  \E op \in ToSet(prog.ops) : op.tag = "contraction" /\ Meetings(prog, op, ShapesOf(prog, op)) = {}
Meaning(prog) ==
  [values |-> FoldLeft(LAMBDA values, op : (op.output :> OpMeaning(prog, op, values)) @@ values, Start(prog), prog.ops),
   empty |-> TouchesNothing(prog)]

-----------------------------------------------------------------------------
(* The program runs.                                                        *)

\* ToScheduleSteps: a buffer for each tensor that some kernel binds, the program's inputs filled.
BoundBy(kernel) == ToSet(kernel.outputs) \cup ToSet(kernel.inputs)
Bound == UNION {BoundBy(k) : k \in ToSet(made.kernels)}
Contents(prog, t) ==
  IF t \in prog.inputs THEN Start(prog)[t] ELSE [p \in 0..(ElemCount(ShapeOf(prog, t)) - 1) |-> Junk]

Idle == <<>>
Init ==
  /\ job \in DOMAIN Jobs
  /\ made = CompileJob(Jobs[job])
  /\ means = Meaning(Jobs[job])
  /\ at = 1
  /\ place = [t \in Bound |-> t]
  /\ bufs = [t \in Bound |-> Contents(Jobs[job], t)]
  /\ run = Idle
  /\ stray = FALSE

Returned == {Lookup(made.rewrites, o) : o \in Jobs[job].outputs}
\* Mutant: the inputs of the program are taken for temporaries.
TemporaryOrInput(t) == t \notin Returned
Temporary(t) == t \notin Jobs[job].inputs \cup Returned
Written(o, earlier) == \E k \in ToSet(earlier) : o \in ToSet(k.outputs)
\* The tensors whose memory an output of the kernel may take, when nothing wrote the output before.
MayTake(o, kernel, earlier, later) ==
  {t \in kernel.aliases[o] \cap DOMAIN place :
     Temporary(o) /\ Temporary(t) /\ ~Written(o, earlier) /\ \A k \in ToSet(later) : t \notin BoundBy(k)}
PlacesFor(o, kernel, earlier, later) ==
  {place[o]} \cup {place[t] : t \in IF o \in DOMAIN kernel.aliases THEN MayTake(o, kernel, earlier, later) ELSE {}}
Placements(kernel, earlier, later) ==
  {p \in [ToSet(kernel.outputs) -> DOMAIN place] :
     /\ \A o \in DOMAIN p : p[o] \in PlacesFor(o, kernel, earlier, later)
     /\ \A o, u \in DOMAIN p : o # u => p[o] # p[u]}

GroupsOf(grid, up) ==
  LET count == ProductOf(grid)
      Coord(n) == <<n % grid[1], (n \div grid[1]) % grid[2], n \div (grid[1] * grid[2])>>
  IN  MapSeq(Range1(count), LAMBDA k : Coord(IF up THEN k - 1 ELSE count - k))

\* What a thread of a group starts with: the parameters, bound to the buffers.
Parameters(option, kernel, where) ==
  LET names == kernel.outputs \o kernel.inputs
  IN  FoldLeft(LAMBDA f, k : (option.params[k].name :> [buf |-> where[names[k]], at |-> 0, width |-> option.params[k].width]) @@ f,
               <<>>, Range1(Len(names)))
FreshThreads(option, kernel, where) ==
  LET params == Parameters(option, kernel, where)
  IN  [t \in 0..(option.threads - 1) |-> [vars |-> params, arrays |-> <<>>]]
FreshShared(option) == [a \in DOMAIN option.shared |-> [i \in 0..(option.shared[a] - 1) |-> <<Junk>>]]

StartGroup(option, kernel, where, groups) ==
  [groups |-> groups, phase |-> 1, ran |-> {}, shared |-> FreshShared(option), threads |-> FreshThreads(option, kernel, where)]

Started(kernel, o, up, where) ==
  [option |-> o] @@ StartGroup(kernel.options[o], kernel, where, GroupsOf(kernel.options[o].groups, up))
Launch ==
  /\ run = Idle /\ at <= Len(made.kernels)
  /\ \E p \in Placements(made.kernels[at], SubSeq(made.kernels, 1, at - 1), SubSeq(made.kernels, at + 1, Len(made.kernels))) :
       /\ place' = p @@ place
       /\ \E o \in DOMAIN made.kernels[at].options, up \in BOOLEAN : run' = Started(made.kernels[at], o, up, p @@ place)
  /\ UNCHANGED <<job, made, means, at, bufs, stray>>

ThreadSees(t, thread, group) ==
  [vars |-> thread.vars, arrays |-> thread.arrays, shared |-> run.shared, bufs |-> bufs, stray |-> stray,
   index |-> [local |-> t, group1 |-> group[1], group2 |-> group[2], group3 |-> group[3]]]
Ran(option, t) == Execute(Block(option.code[run.phase]), ThreadSees(t, run.threads[t], Head(run.groups)))

\* The threads that ran wait for the others at a barrier, and at the end of the group.
After(r, kernel, option) ==
  CASE r.ran # DOMAIN r.threads -> r
    [] r.ran = DOMAIN r.threads /\ r.phase < Len(option.code) -> [r EXCEPT !.phase = @ + 1, !.ran = {}]
    [] OTHER -> StartGroup(option, kernel, place, Tail(r.groups)) @@ r
RanThread(t, m) == [run EXCEPT !.ran = @ \cup {t}, !.threads[t] = [vars |-> m.vars, arrays |-> m.arrays], !.shared = m.shared]
Finished(r) == r.groups = <<>>
RunThread(t) ==
  /\ run # Idle /\ t \in DOMAIN run.threads \ run.ran
  /\ \E option \in {made.kernels[at].options[run.option]} : \E m \in {Ran(option, t)} :
       /\ bufs' = m.bufs /\ stray' = m.stray
       /\ \E r \in {After(RanThread(t, m), made.kernels[at], option)} :
            /\ run' = IF Finished(r) THEN Idle ELSE r
            /\ at' = IF Finished(r) THEN at + 1 ELSE at
  /\ UNCHANGED <<job, made, means, place>>

Done == run = Idle /\ at > Len(made.kernels)
Finish == Done /\ UNCHANGED vars_

Next == Launch \/ (\E t \in 0..(MaxThreads - 1) : RunThread(t)) \/ Finish
Spec == Init /\ [][Next]_vars_

-----------------------------------------------------------------------------
(* Properties.                                                              *)

\* Whichever tiles are chosen, in whichever order threads run and groups come: the program returns
\* what it means (all of tile/lang from the contraction to the kernel).
SameValues ==
  Done /\ made.ok => \A o \in Jobs[job].outputs : bufs[place[Lookup(made.rewrites, o)]] = means.values[o]

\* The inputs of a program are never written (generate.cc, Elide and KernelOutputs).
InputsKept == \A t \in DOMAIN bufs \cap Jobs[job].inputs : bufs[t] = Contents(Jobs[job], t)

\* No thread writes outside the arrays of its group or the tensors it is given: the loops of tiles that
\* reach over the edge are checked where they must be (loop.cc, gen_contract.cc).
NothingStray == ~stray

\* Every name in the code of a kernel is declared once where it is used, and the parameters of a kernel
\* differ: a compiler of the kernel language takes it (gen_contract.cc, simplifier.cc).
WellScoped == \A k \in ToSet(made.kernels) : \A option \in ToSet(k.options) : option.wellFormed

\* A program is refused only for a contraction that touches nothing (bound.cc, compile.cc).
RefusesOnlyEmpty == made.ok \/ means.empty
=============================================================================
