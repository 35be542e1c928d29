---------------------------- MODULE StripeDriver ----------------------------
(***************************************************************************)
(* tile/codegen/driver.cc: a Stripe program, generated from one of a set   *)
(* of Tile functions or written by hand, goes through a list of passes.    *)
(*                                                                         *)
(* A program written by hand is a record with the program, its inputs,     *)
(* outputs and their shapes, and the names of the lists it goes through.   *)
(* A pass is a record: which pass it is, and its options.  A list gives    *)
(* for each of its steps the set of passes that one is taken from.         *)
(***************************************************************************)
EXTENDS GenStripe, StripeVM, StripeFuse, StripePasses, StripeDeps

CONSTANTS Functions,    \* the Tile functions
          Programs,     \* the programs written by hand
          Lists,        \* the lists of passes: a sequence of sequences
          AnyBlock      \* are passes run on blocks they are not right for?

VARIABLES fn,           \* the function or program compiled
          list,         \* the list of passes used
          program,      \* the Stripe program
          passes        \* how many of the passes were applied

vars == <<fn, list, program, passes>>

Start(f) == IF f \in Functions THEN GenerateStripe(f) ELSE f.program

Init ==
  /\ \/ fn \in Functions /\ list \in DOMAIN Lists
     \/ fn \in Programs /\ list \in fn.lists
  /\ program = Start(fn)
  /\ passes = 0

\* What Optimize may run next of a kind of pass.
Options(pass) ==
  IF passes = Len(Lists[list]) THEN {} ELSE {o \in Lists[list][passes + 1] : o.pass = pass}

\* The program becomes what the pass makes of it.
Becomes(new) ==
  /\ passes' = passes + 1
  /\ program' = new
  /\ UNCHANGED <<fn, list>>

-----------------------------------------------------------------------------
(* What a program accesses.                                                 *)

\* The scopes of a block in a scope around it, one per value of its indexes that its constraints
\* allow: [idxs, bufs, offsets], bufs being where the buffer behind each name is declared.
ScopesIn(b, path, outer) ==
  LET Buffer(from, n) == IF from = "" THEN <<path, n>> ELSE outer.bufs[from]
      bufs == [n \in {r.into : r \in ToSet(b.refs)} |-> Buffer(b.refs[RefByInto(b, n)].from, n)] @@ Zero
      Allowed(env) == \A c \in ToSet(b.constraints) : Eval(c, env) >= 0
  IN  {[idxs |-> env, bufs |-> bufs, offsets |-> Offsets(b, outer, env)] :
         env \in {e \in ToSet(Points(b, outer.idxs)) : Allowed(e)}}

RECURSIVE Scopes(_, _)
Scopes(root, path) ==
  UNION {ScopesIn(BlockAt(root, path), path, outer) :
           outer \in IF path = <<>> THEN {[idxs |-> Zero, bufs |-> Zero, offsets |-> Zero]}
                     ELSE Scopes(root, Front(path))}

\* The elements of a view at an offset.
Elements(shape, offset) ==
  FoldLeft(LAMBDA es, d : UNION {{e + i * d.stride : i \in 0..(d.size - 1)} : e \in es}, {offset}, shape)

\* What a statement touches in a scope: [buf, at, write].
RECURSIVE Touches(_, _, _, _)
Touches(b, k, path, scope) ==
  LET s == b.stmts[k]
      Of(names, write) ==
        UNION {{[buf |-> scope.bufs[n], at |-> e, write |-> write] :
                  e \in Elements(b.refs[RefByInto(b, n)].shape, scope.offsets[n])} : n \in ToSet(names)}
  IN  IF IsBlock(s)
      THEN UNION {UNION {Touches(s, j, path \o <<k>>, inner) : j \in DOMAIN s.stmts} :
                    inner \in ScopesIn(s, path \o <<k>>, scope)}
      ELSE Of(BufferReads(s), FALSE) \cup Of(BufferWrites(s), TRUE)

-----------------------------------------------------------------------------
(* Views that split the program into parts, and the parts put in line.      *)

DoAutotile == \E o \in Options("autotile") : Becomes(AutotilePass(program, o))
DoStencil == \E o \in Options("stencil") : Becomes(StencilPass(program, o))
DoPartitionCompute == \E o \in Options("partition_compute") : Becomes(PartitionComputePass(program, o))
DoPartitionMemory ==
  \E o \in Options("partition_memory") :
    PartitionMemoryRuns(program, o) /\ Becomes(PartitionMemoryPass(program, o))
DoThreadInner ==
  \E o \in Options("thread_inner") : ThreadInnerRuns(program, o) /\ Becomes(ThreadInnerPass(program, o))

\* Unrolling counts every index from zero and forgets the constraints of the block it takes apart,
\* so it is right for a block that was not itself cut from one with uneven tiles; it takes the views
\* of two blocks for the same when their indexes have the same names, and makes new buffers of the
\* views of buffers that are declared there.
Unrollable(b) == b.constraints = <<>> /\ \A x \in ToSet(b.idxs) : x.affine = Zero
UnrolledTo(new, o) ==
  /\ AnyBlock \/ /\ \A p \in ToSet(MatchingPaths(program, o.reqs)) : Unrollable(BlockAt(program, p))
                 /\ new.sound
  /\ Becomes(new.block)
DoUnroll == \E o \in Options("unroll") : UnrollRuns(program, o) /\ UnrolledTo(Unroll(program, o), o)

(* Buffers and statements moved.                                            *)

\* Fusion loses a block whose constraints are not those of the block before it, and confuses the
\* indexes that a block has from those around it.
FusedTo(new) == new.ok /\ (AnyBlock \/ new.sound) /\ Becomes(new.block)
DoFusion == \E o \in Options("fusion") : FusedTo(FusionPass(program, o))

\* A buffer declared by a loop keeps what the turn before left in it, so it must not be added to.
Looped(root, path) == \E k \in 0..Len(path) : IdxsProduct(BlockAt(root, SubSeq(path, 1, k))) > 1
StartsOver(root) ==
  \A path \in ToSet(BlockPaths(root)) :
    Looped(root, path) => \A r \in ToSet(BlockAt(root, path).refs) : r.from = "" => r.agg # "add"
LocalizedTo(new) == (AnyBlock \/ StartsOver(new)) /\ Becomes(new)
DoLocalize == \E o \in Options("localize") : LocalizedTo(LocalizePass(program, o))
DoScalarize == \E o \in Options("scalarize") : Becomes(ScalarizePass(program, o))

\* The cache pass copies a view whole and back, so it is right for a block whose views lie within
\* what they are views of, and are not aggregated into.
Cacheable(root, path, r) ==
  LET outer == BlockAt(root, Front(path))
      whole == Elements(outer.refs[RefByInto(outer, r.from)].shape, 0)
  IN  /\ r.agg \in {"", "assign"}
      /\ \A s \in Scopes(root, path) : \A t \in Scopes(root, Front(path)) :
           Elements(r.shape, s.offsets[r.into]) \subseteq {t.offsets[r.from] + e : e \in whole}
DoCache ==
  \E o \in Options("cache") :
    /\ AnyBlock \/ \A p \in ToSet(MatchingPaths(program, o.reqs)) :
         \A r \in ToSet(BlockAt(program, p).refs) : r.dir \in o.dirs => Cacheable(program, p, r)
    /\ Becomes(CachePass(program, o))
DoTranspose == \E o \in Options("transpose") : Becomes(TransposePass(program, o))
DoLocateMemory == \E o \in Options("locate_memory") : Becomes(LocateMemoryPass(program, o))
DoLocateBlock == \E o \in Options("locate_block") : Becomes(LocateBlockPass(program, o))
DoLocateInnerBlock == \E o \in Options("locate_inner_block") : Becomes(LocateInnerBlockPass(program, o))
DoPruneIndexes == \E o \in Options("prune_idxs") : Becomes(PruneIndexesPass(program, o))
DoPruneRefinements == \E o \in Options("prune_refs") : Becomes(PruneRefinementsPass(program, o))

Next ==
  \/ DoAutotile \/ DoStencil \/ DoPartitionCompute \/ DoPartitionMemory \/ DoThreadInner \/ DoUnroll
  \/ DoFusion \/ DoLocalize \/ DoScalarize \/ DoCache \/ DoTranspose
  \/ DoLocateMemory \/ DoLocateBlock \/ DoLocateInnerBlock
  \/ DoPruneIndexes \/ DoPruneRefinements

Spec == Init /\ [][Next]_vars

-----------------------------------------------------------------------------
(* Properties.                                                              *)

\* What the buffers hold that a program is run with: some numbers for an input, zeros for an output.
Data(f) ==
  [n \in ToSet(f.inputs) |-> [i \in 1..ElemSize(f.shape[n]) |-> ((3 * i) % 7) - 2] \o <<>>] @@
  [n \in ToSet(f.outputs) |-> [i \in 1..ElemSize(f.shape[n]) |-> 0] \o <<>>] @@ Zero

Results(f, p) ==
  LET Outputs(run) == [ok |-> run.ok, data |-> [n \in ToSet(f.outputs) |-> run.data[n]] @@ Zero]
  IN  Outputs(ExecuteProgram(p, Data(f)))

\* A pass changes how a program computes, never what: whatever the list of passes (driver.cc), the
\* interpreter (vm.cc) leaves in the outputs what it leaves when it runs the first program.
SameResults == passes > 0 => Results(fn, program) = Results(fn, Start(fn))

\* The views through which a statement reads and writes the buffers of its block in a scope, in the
\* order in which deps.cc visits them: [buf, write, at], at being the elements of the view, counted as
\* alias.cc does from where the view around it begins.
Views(b, k, path, scope) ==
  LET s == b.stmts[k]
      Covers(r, env) == Elements(r.shape, Eval(FlatAccess(r), env))
      Own(n, write) == [buf |-> scope.bufs[n], write |-> write, at |-> Covers(b.refs[RefByInto(b, n)], scope.idxs)]
      Through(r, way) ==
        IF way \notin r.dir THEN <<>>
        ELSE <<[buf |-> scope.bufs[r.from], write |-> way = "out",
                at |-> UNION {Covers(r, inner.idxs) : inner \in ScopesIn(s, path \o <<k>>, scope)}]>>
  IN  IF IsBlock(s) THEN FlattenSeq(MapSeq(s.refs, LAMBDA r : Through(r, "in") \o Through(r, "out")))
      ELSE MapSeq(BufferReads(s), LAMBDA n : Own(n, FALSE)) \o MapSeq(BufferWrites(s), LAMBDA n : Own(n, TRUE))

\* The conflicts that deps.cc forgets; stmts has the views of each statement, x is what the i-th
\* touches and y, at the same element, the j-th.  Of a statement that writes a buffer only the first
\* view it writes is kept.  The j-th passes a writer if none of its own written views meets that one.
\* Then it does not wait for what the writer writes elsewhere (deps.cc:67, 83), nor for the readers that
\* were dropped when the writer wrote (deps.cc:84); and if it reads the buffer after having written it,
\* that does not make it wait either (deps.cc:93).
Forgotten(stmts, i, j, x, y) ==
  LET Uses(k) == {n \in DOMAIN stmts[k] : stmts[k][n].buf = x.buf}
      Writes(k) == {n \in Uses(k) : stmts[k][n].write}
      Written(k) == UNION {stmts[k][n].at : n \in Writes(k)}
      Kept(k) == stmts[k][CHOOSE n \in Writes(k) : \A m \in Writes(k) : n <= m].at
      Passed(k) == Writes(k) # {} /\ Kept(k) \cap Written(j) = {}
      ReadsBehindWrite == \E m \in Writes(j) : \E n \in Uses(j) \ Writes(j) : m < n
      FirstWriter(k) == \A m \in i..(k - 1) : Writes(m) = {}
  IN  \/ ~x.write /\ \E k \in i..(j - 1) : FirstWriter(k) /\ Passed(k)
      \/ x.write /\ Passed(i) /\ (y.write \/ ReadsBehindWrite)

\* deps.cc: two statements of a block that touch the same element of a buffer, one of them to
\* write it, while the block's indexes stand at some value, are ordered by the dependencies that
\* are kept after the reduction, whatever views and nested blocks they go through and whatever was
\* read and overwritten before: except for the conflicts that the code forgets, and no others.  (That
\* all are ordered, as stripe.h:103 has it, is false.)
OnlyForgottenUnordered ==
  \A path \in ToSet(BlockPaths(program)) :
    LET b == BlockAt(program, path)
        ordered == Closure(ComputeDeps(b, AliasAt(program, path)))
        Sound(touched, stmts) ==
          \A j \in DOMAIN b.stmts : \A i \in (1..(j - 1)) \ ordered[j] : \A x \in touched[i], y \in touched[j] :
            x.buf = y.buf /\ x.at = y.at /\ (x.write \/ y.write) => Forgotten(stmts, i, j, x, y)
    IN  Len(b.stmts) > 1 =>
          \A scope \in Scopes(program, path) :
            Sound([k \in DOMAIN b.stmts |-> Touches(b, k, path, scope)],
                  [k \in DOMAIN b.stmts |-> Views(b, k, path, scope)])

\* autotile.cc: what one tile of a tiled block reads and writes around it, counted in the elements it
\* really touches, stays within the memory the cost model was given, however indexes, strides and
\* constraints combine.
TilesFit ==
  LET Footprint(path, tiled, scope) ==
        {<<t.buf, t.at>> : t \in {u \in Touches(tiled, 1, path, scope) : ~IsPrefix(path \o <<1>>, u.buf[1])}}
      Fits(o, path, tiled) ==
        tiled # BlockAt(program, path) =>
          \A scope \in Scopes(PutBlock(program, path, tiled), path) :
            Cardinality(Footprint(path, tiled, scope)) * o.elemBytes <= o.maxTotal
  IN  \A o \in Options("autotile") : \A path \in ToSet(MatchingPaths(program, o.reqs)) :
        Fits(o, path, Autotile(BlockAt(program, path), o))

\* autotile.cc: the search finds a cheapest of all tiles, though it grows only the tiles that fit
\* and looks at each tile once.
TileIsCheapest ==
  \A o \in Options("autotile") : \A path \in ToSet(MatchingPaths(program, o.reqs)) :
    LET b == BlockAt(program, path)
        cost == [t \in AllTiles(b) |-> DensityCost(b, t, o)]
        best == PickBestTile(b, FreeIdxs(b, o.accIdxs), o.onlyPo2, o.fast, cost)
    IN  \A t \in AllTiles(b) :
          (\A i \in DOMAIN t : i \in FreeIdxs(b, o.accIdxs) \/ t[i] = b.idxs[i].range) => ~Less(cost[t], best.cost)
=============================================================================
