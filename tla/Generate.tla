------------------------------ MODULE Generate ------------------------------
(***************************************************************************)
(* tile/lang/generate.cc: how a tile program becomes a list of kernels.    *)
(*                                                                         *)
(* A job is [ops, vars, inputs, outputs, settings, trials].  An operation  *)
(* is [tag, output, inputs, ...]: a "contraction" has c and default (zero  *)
(* or a tensor), a "function" has fn, a "constant" nothing more.  vars     *)
(* binds every name (KernelCode); inputs and outputs are the program's.    *)
(*                                                                         *)
(* A kernel of the result is [outputs, inputs, aliases, options]: the      *)
(* names its parameters are bound to, in their order, the inputs that each *)
(* output may lie on, and the code for each of the tiles to choose from.   *)
(* A result with ok FALSE stands for an exception.                         *)
(***************************************************************************)
EXTENDS KernelCode

Range1(n) == [k \in 1..n |-> k] \o <<>>
ShapeOf(job, t) == job.vars[t].shape
SameSize(job, s, t) == IsTensor(job.vars, s) /\ IsTensor(job.vars, t) /\ ElemCount(ShapeOf(job, s)) = ElemCount(ShapeOf(job, t))

-----------------------------------------------------------------------------
(* Who defines and who uses a name (usedef.cc).                             *)

Definers(job, t) == {i \in DOMAIN job.ops : job.ops[i].output = t}
Users(job, t) == {i \in DOMAIN job.ops : job.ops[i].tag # "constant" /\ t \in ToSet(job.ops[i].inputs)}

-----------------------------------------------------------------------------
(* The flat contraction.                                                    *)

\* Whether elements of the output may stay unwritten, so that it has to be cleared first.
OutputOnly(flat, c) == \A k \in DOMAIN flat.ranges : c.lhs[k] # 0 => IsOut(flat, k)
Dense(flat) ==
  LET outs == SortedBy(SelectSeq(Range1(Len(flat.ranges)), LAMBDA k : IsOut(flat, k)),
                       LAMBDA a, b : LET s == flat.access[1].strides IN s[a] < s[b] \/ (s[a] = s[b] /\ flat.ranges[a] < flat.ranges[b]))
      Next_(size, k) == IF flat.access[1].strides[k] = size THEN size * flat.ranges[k] ELSE 0
  IN  FoldLeft(Next_, 1, outs) = flat.access[1].limit
NeedsZero(flat) ==
  \/ flat.access[1].offset # 0
  \/ \E k \in DOMAIN flat.ranges : flat.access[1].strides[k] < 0
  \/ \E c \in ToSet(flat.constraints) : OutputOnly(flat, c)
  \/ ~Dense(flat)

\* Two indexes become one where all the tensors have them one after the other.
Combinable(flat, i, j) ==
  LET out == flat.access[1].strides
      Alike(a) == a.strides[i] = out[i] /\ a.strides[j] = out[j]
  IN  /\ out[i] # 0 /\ out[j] # 0 /\ out[i] = flat.ranges[j] * out[j]
      /\ \A a \in AllAccesses(flat) : Alike(a)
CombineIndexes(flat, i, j) ==
  LET Without(s) == RemoveAt(s, i)
      Fix(a) == [a EXCEPT !.strides = Without(@)]
  IN  [flat EXCEPT !.names = Without([@ EXCEPT ![j] = JoinNames(flat.names[i], flat.names[j])]),
                   !.ranges = Without([@ EXCEPT ![j] = @ * flat.ranges[i]]),
                   !.access = MapSeq(@, Fix),
                   !.postInputs = MapSeq(@, LAMBDA p : [p EXCEPT !.access = Fix(@)])]
RECURSIVE SimplifyFlat(_), SimplifyFlatWith(_, _)
SimplifyFlat(flat) ==
  IF flat.constraints # <<>> \/ \E op \in ToSet(flat.postOps) : op.fn = "index" THEN flat
  ELSE SimplifyFlatWith(flat, {ij \in (DOMAIN flat.ranges) \X (DOMAIN flat.ranges) : Combinable(flat, ij[1], ij[2])})
SimplifyFlatWith(flat, pairs) ==
  LET i == Min({ij[1] : ij \in pairs})
      j == Min({ij[2] : ij \in {p \in pairs : p[1] = i}})
  IN  IF pairs = {} THEN flat ELSE SimplifyFlat(CombineIndexes(flat, i, j))

\* An elementwise operation as a contraction of nothing.
ElementwiseFlat(job, op) ==
  LET shape == ShapeOf(job, op.output)
      names == MapSeq(Range1(Len(shape)), LAMBDA k : <<k>>)
  IN  [names |-> names, ranges |-> MapSeq(shape, LAMBDA d : d.size), constraints |-> <<>>, agg |-> "none", comb |-> "none",
       access |-> <<[offset |-> 0, strides |-> MapSeq(shape, LAMBDA d : d.stride), limit |-> ElemCount(shape), vector |-> 1]>>,
       outPoly |-> MapSeq(names, LAMBDA v : Monomial(v, Q(1)))]
FlatFor(op, flat, contraction) ==
  flat @@ [aggVec |-> 1, contraction |-> contraction, output |-> op.output, postOps |-> <<>>, postInputs |-> <<>>,
           outputs |-> <<>>, indexMap |-> <<>>, aliases |-> <<>>]

-----------------------------------------------------------------------------
(* Unification: the later elementwise operations that one kernel computes.  *)

Broadcasts(from, to) ==
  /\ Len(from) <= Len(to)
  /\ \A i \in DOMAIN from : from[i].size = 1 \/ from[i].size = to[Len(to) - Len(from) + i].size
CanUnifyOp(job, root, test) ==
  LET out == job.ops[root].output
  IN  /\ job.ops[test].tag = "function"
      /\ SameSize(job, out, job.ops[test].output)
      /\ \A t \in ToSet(job.ops[test].inputs) :
           IsTensor(job.vars, t) => SameSize(job, t, out) \/ Broadcasts(ShapeOf(job, t), ShapeOf(job, out))

\* The operations that an operation needs and nobody computed; {} when one of them cannot be unified.
RECURSIVE Needed(_, _, _, _)
Needed(job, root, done, found) ==
  LET more == {i \in root..Len(job.ops) :
                 /\ i \notin done \cup found /\ job.ops[i].tag # "constant"
                 /\ \E c \in found : job.ops[i].output \in ToSet(job.ops[c].inputs)}
  IN  CASE \E i \in found : ~CanUnifyOp(job, root, i) -> {}
        [] more = {} -> found
        [] OTHER -> Needed(job, root, done, found \cup more)
\* The operations that use what the unified ones read or write, while there are any.
RECURSIVE Unified(_, _, _, _), UnifiedWith(_, _, _, _, _)
Unified(job, root, computed, unified) ==
  LET seen == UNION {{job.ops[i].output} \cup {t \in ToSet(job.ops[i].inputs) : IsTensor(job.vars, t)} : i \in unified}
      users == (UNION {Users(job, t) : t \in seen}) \ (unified \cup computed)
  IN  UnifiedWith(job, root, computed, unified, UNION {Needed(job, root, unified \cup computed, {c}) : c \in users})
UnifiedWith(job, root, computed, unified, more) ==
  IF more = {} THEN unified ELSE Unified(job, root, computed, unified \cup more)
ConnectedComponents(job, root, computed) == Unified(job, root, computed, {root})

Lookup(rewrites, t) == IF t \in DOMAIN rewrites THEN rewrites[t] ELSE t
\* An ident or a reshape is left out: its output becomes another name of its input, unless both
\* must be there.
Elided(job, a, op) ==
  LET from == Lookup(a.rewrites, op.inputs[1])
  IN  /\ op.fn \in {"ident", "reshape"}
      /\ \/ op.output \notin job.outputs
         \/ from \notin job.outputs \cup job.inputs \cup a.taken
Elide(job, a, op) ==
  LET from == Lookup(a.rewrites, op.inputs[1])
  IN  [a EXCEPT !.rewrites = (op.output :> from) @@ @, !.local = (op.output :> from) @@ @,
                !.taken = IF op.output \in job.outputs THEN @ \cup {from} ELSE @]

IndexesOf(job, flat, t) ==
  LET own == IF IsTensor(job.vars, t) THEN ShapeOf(job, t) ELSE <<>>
      shape == IF SameSize(job, t, flat.output) THEN ShapeOf(job, flat.output) ELSE own
  IN  SubSeq(flat.outPoly, Len(flat.outPoly) - Len(shape) + 1, Len(flat.outPoly))
AliasesOf(a, t) == IF t \in DOMAIN a.aliases THEN a.aliases[t] ELSE {}
\* Mutant: an input is added for every operation that reads it.
UseInputAgain(job, flat, unified, op, a, t) ==
  LET input == Lookup(a.local, t)
      fromOutside == IsTensor(job.vars, input) /\ Definers(job, input) \cap unified = {}
  IN  [a EXCEPT !.indexMap = @ @@ (t :> IndexesOf(job, flat, t)),
                !.renamed = Append(@, input),
                !.post = IF fromOutside THEN Append(@, input) ELSE @]
\* One input of an operation that is unified: renamed, and read by the kernel if it is not computed there.
UseInput(job, flat, unified, op, a, t) ==
  LET input == Lookup(a.local, t)
      fromOutside == IsTensor(job.vars, input) /\ Definers(job, input) \cap unified = {}
      mayAlias == /\ job.settings.aliasing
                  /\ IsTensor(job.vars, input) /\ ShapeOf(job, input) = ShapeOf(job, op.output)
  IN  [a EXCEPT !.indexMap = @ @@ (t :> IndexesOf(job, flat, t)),
                !.renamed = Append(@, input),
                !.post = IF fromOutside /\ input \notin ToSet(@) THEN Append(@, input) ELSE @,
                !.aliases = IF mayAlias THEN (op.output :> AliasesOf(a, op.output) \cup {input} \cup AliasesOf(a, input)) @@ @
                            ELSE @]
UnifyOp(job, flat, unified, a, op) ==
  LET used == FoldLeft(LAMBDA b, t : UseInput(job, flat, unified, op, b, t), [a EXCEPT !.renamed = <<>>], op.inputs)
  IN  [used EXCEPT !.postOps = Append(@, [op EXCEPT !.inputs = used.renamed])]

\* What the kernel writes: what the program returns, or an operation elsewhere needs.
NeededOutside(job, unified, t) == t \in job.outputs \/ ~(Users(job, t) \subseteq unified)
KernelOutputs(job, root, unified, rewrites) ==
  LET outputs == {Lookup(rewrites, job.ops[i].output) : i \in {j \in unified : NeededOutside(job, unified, job.ops[j].output)}}
  IN  Sorted(outputs \ ToSet(job.ops[root].inputs), <)

\* Where a thread finds an input: along the output's indexes, not along those it is broadcast over.
PostAccess(job, flat, t) ==
  LET out == ShapeOf(job, flat.output)
      shape == IF SameSize(job, t, flat.output) THEN out ELSE ShapeOf(job, t)
      off == Len(out) - Len(shape)
      At(i) == IF shape[i].size # 1 \/ out[off + i].size = 1 THEN Times(Q(shape[i].stride), flat.outPoly[off + i]) ELSE ZeroPoly
      poly == Sum([i \in DOMAIN shape |-> At(i)] \o <<>>)
  IN  [offset |-> 0, limit |-> ElemCount(shape), vector |-> 1, strides |-> MapSeq(flat.names, LAMBDA v : Floor(Coef(poly, v)))]

UnifyWith(job, root, flat, unified, rewrites) ==
  LET functions == SelectSeq(Sorted(unified, <), LAMBDA i : job.ops[i].tag = "function")
      Step(a, op) == IF Elided(job, a, op) THEN Elide(job, a, op) ELSE UnifyOp(job, flat, unified, a, op)
  IN  FoldLeft(LAMBDA a, i : Step(a, job.ops[i]),
               [rewrites |-> rewrites, local |-> <<>>, taken |-> {}, indexMap |-> <<>>, post |-> <<>>, renamed |-> <<>>,
                aliases |-> <<>>, postOps |-> <<>>], functions)
UnifiedFlat(job, flat, a, outputs) ==
  [flat EXCEPT !.postOps = a.postOps, !.indexMap = a.indexMap, !.outputs = outputs,
               !.postInputs = MapSeq(a.post, LAMBDA t : [name |-> t, access |-> PostAccess(job, flat, t), shape |-> ShapeOf(job, t)]),
               !.aliases = [t \in ToSet(outputs) |-> AliasesOf(a, t) \cap ToSet(a.post)]]

-----------------------------------------------------------------------------
(* One kernel, from the cache of those that differ in their names only.     *)

\* The position of each name's definition: the tensors, the further inputs, then the operations.
Normal(job, defs, t) == IF t \in ToSet(defs) THEN <<SelectInSeq(defs, LAMBDA d : d = t)>> ELSE <<"const", job.vars[t].value>>
Distinct(s) == FoldLeft(LAMBDA a, t : IF t \in ToSet(a) THEN a ELSE Append(a, t), <<>>, s)
CacheKeyWith(job, flat, defs) ==
  [tile |-> <<flat.ranges, flat.access, flat.constraints, flat.aggVec, flat.comb, flat.agg, flat.contraction>>,
   bindings |-> MapSeq(flat.tensors, LAMBDA t : IF IsTensor(job.vars, t) THEN <<"tensor">> ELSE <<"const", job.vars[t].value>>),
   postOps |-> MapSeq(flat.postOps, LAMBDA op :
                 <<Normal(job, defs, op.output), op.fn, MapSeq(op.inputs, LAMBDA t : Normal(job, defs, t))>>),
   postInputs |-> MapSeq(flat.postInputs, LAMBDA p : p.access),
   outputs |-> MapSeq(flat.outputs, LAMBDA t : Normal(job, defs, t))]
CacheKey(job, flat) ==
  CacheKeyWith(job, flat, Distinct(flat.tensors \o MapSeq(flat.postInputs, LAMBDA p : p.name)
                                     \o MapSeq(flat.postOps, LAMBDA op : op.output)))

GenerateOptions(job, flat, inputs) ==
  MapSeq(OptionsFor(job.settings, flat, job.trials),
         LAMBDA tile : GenContract(job.settings, flat, tile, job.vars, inputs))
CachedKernel(job, flat, key, cache, inputs) ==
  IF key \in DOMAIN cache THEN cache[key]
  ELSE [options |-> GenerateOptions(job, flat, inputs), aliases |-> flat.aliases]
\* A kernel from the cache gets the names of this one, and keeps the aliases of the one it was made for.
AddKernel(result, flat, inputs, key, kernel, job) ==
  LET names == SelectSeq(inputs, LAMBDA t : IsTensor(job.vars, t)) \o MapSeq(flat.postInputs, LAMBDA p : p.name)
  IN  IF \E k \in DOMAIN kernel.options : ~kernel.options[k].ok THEN [result EXCEPT !.ok = FALSE]
      ELSE [result EXCEPT !.cache = @ @@ (key :> kernel),
                          !.kernels = Append(@, [outputs |-> flat.outputs, aliases |-> kernel.aliases, options |-> kernel.options,
                                                 inputs |-> MapSeq(names, LAMBDA t : Lookup(result.rewrites, t))])]
AddKeyed(job, result, flat, inputs, key) ==
  AddKernel(result, flat, inputs, key, CachedKernel(job, flat, key, result.cache, inputs), job)
AddFlat(job, result, flat, inputs) == AddKeyed(job, result, flat, inputs, CacheKey(job, flat))
ContractionWrap(job, result, flat, inputs) ==
  IF ~flat.contraction /\ flat.postOps = <<>> THEN result
  ELSE AddFlat(job, result, VectorizeFrom(SimplifyFlat(flat), job.settings.vecSize), inputs)

-----------------------------------------------------------------------------
(* The operations in turn.  What an operation comes to: the result so far,  *)
(* and the kernel that is made next, or NoKernel.                           *)

NoKernel(result) == [result |-> result, flat |-> <<>>, inputs |-> <<>>]
KernelFor(result, flat, inputs) == [result |-> result, flat |-> flat, inputs |-> inputs]
WrapUnified(job, root, result, flat, inputs, unified, a) ==
  KernelFor([result EXCEPT !.rewrites = a.rewrites, !.computed = @ \cup unified],
            UnifiedFlat(job, flat, a, KernelOutputs(job, root, unified, a.rewrites)), inputs)
WrapRoot(job, root, result, flat, inputs, unified) ==
  WrapUnified(job, root, result, flat, inputs, unified, UnifyWith(job, root, flat, unified, result.rewrites))
DoUnification(job, root, result, flat, inputs) ==
  WrapRoot(job, root, result, flat, inputs, ConnectedComponents(job, root, result.computed))

ClearKernel(job, op) ==
  [outputs |-> <<op.output>>, inputs |-> IF op.default = 0 THEN <<>> ELSE <<op.default>>, aliases |-> <<>>,
   options |-> <<IF op.default = 0 THEN GenZero(ShapeOf(job, op.output)) ELSE GenCopy(ShapeOf(job, op.output))>>]
ContractionFlat(job, op) ==
  FlatFor(op, Compile(op.c, MapSeq(<<op.output>> \o op.inputs, LAMBDA t : job.vars[t].shape)), TRUE)
    @@ [tensors |-> <<op.output>> \o op.inputs]
ElementwiseRoot(job, op) == FlatFor(op, ElementwiseFlat(job, op), FALSE) @@ [tensors |-> <<>>]
PlanFlat(job, root, result, op, flat) ==
  CASE op.tag = "contraction" /\ ~flat.ok -> NoKernel([result EXCEPT !.ok = FALSE])
    [] op.tag = "contraction" /\ flat.ok /\ NeedsZero(flat) ->
         KernelFor([result EXCEPT !.kernels = Append(@, ClearKernel(job, op))], [flat EXCEPT !.outputs = <<op.output>>], op.inputs)
    [] OTHER -> DoUnification(job, root, result, flat, IF op.tag = "contraction" THEN op.inputs ELSE <<>>)
\* A contraction of no elements, and an operation that a kernel computes already, come to nothing.
Idle_(job, root, result, op) ==
  IF op.tag = "contraction" THEN ElemCount(ShapeOf(job, op.output)) = 0
  ELSE op.tag # "function" \/ root \in result.computed
PlanOp(job, root, result, op) ==
  IF ~result.ok \/ Idle_(job, root, result, op) THEN NoKernel(result)
  ELSE PlanFlat(job, root, result, op, IF op.tag = "contraction" THEN ContractionFlat(job, op) ELSE ElementwiseRoot(job, op))
MakeKernel(job, plan) ==
  IF plan.flat = <<>> THEN plan.result ELSE ContractionWrap(job, plan.result, plan.flat, plan.inputs)
CompileProgram(job) ==
  FoldLeft(LAMBDA result, root : MakeKernel(job, PlanOp(job, root, result, job.ops[root])),
           [ok |-> TRUE, kernels |-> <<>>, rewrites |-> <<>>, computed |-> {}, cache |-> <<>>],
           Range1(Len(job.ops)))
SimplifyKernel(kernel) ==
  [kernel EXCEPT !.options = MapSeq(@, LAMBDA o : [o EXCEPT !.body = Simplify(@)])]
SimplifiedProgram(result) ==
  IF result.ok THEN [ok |-> TRUE, rewrites |-> result.rewrites, kernels |-> MapSeq(result.kernels, SimplifyKernel)]
  ELSE [ok |-> FALSE]
GenerateProgram(job) == SimplifiedProgram(CompileProgram(job))
=============================================================================
