------------------------------ MODULE MCStripe ------------------------------
(* Four Tile functions, lists of passes for them, and programs that overwrite what they have read. *)
EXTENDS StripeDriver

-----------------------------------------------------------------------------
(* The functions.                                                           *)

Ranges(name, lo, hi) == [name |-> name, min |-> lo, max |-> hi]
Spec_(id, access) == [id |-> id, access |-> access]
Contraction(out, specs, bounds, cons) ==
  [tag |-> "contraction", output |-> out, agg |-> "add", comb |-> "mul", default |-> "",
   specs |-> specs, bounds |-> bounds, cons |-> cons]
Operation(f, ins, out) == [tag |-> "function", fn |-> f, inputs |-> ins, output |-> out]

\* C[m, n] = +(A[m, k] * B[k, n])
MatMul ==
  [inputs |-> <<"A", "B">>, outputs |-> <<"C">>, temps |-> <<>>, const |-> Zero,
   shape |-> [A |-> SimpleShape(<<2, 3>>), B |-> SimpleShape(<<3, 2>>), C |-> SimpleShape(<<2, 2>>)],
   ops |-> <<Contraction("C",
               <<Spec_("C", <<Var("m"), Var("n")>>), Spec_("A", <<Var("m"), Var("k")>>),
                 Spec_("B", <<Var("k"), Var("n")>>)>>,
               <<Ranges("k", 0, 2), Ranges("m", 0, 1), Ranges("n", 0, 1)>>, <<>>)>>]

\* O[x, c : 3, 2] = +(I[x + k - 1] * K[k, c]); R = O + B
ConvBias ==
  LET xk == Plus(Var("x"), Var("k"))
  IN  [inputs |-> <<"B", "I", "K">>, outputs |-> <<"R">>, temps |-> <<"O">>, const |-> Zero,
       shape |-> [B |-> SimpleShape(<<2>>), I |-> SimpleShape(<<3>>), K |-> SimpleShape(<<2, 2>>),
                  O |-> SimpleShape(<<3, 2>>), R |-> SimpleShape(<<3, 2>>)],
       ops |-> <<Contraction("O",
                   <<Spec_("O", <<Var("x"), Var("c")>>), Spec_("I", <<Plus(xk, Const(-1))>>),
                     Spec_("K", <<Var("k"), Var("c")>>)>>,
                   <<Ranges("c", 0, 1), Ranges("k", 0, 1), Ranges("x", 0, 2)>>,
                   <<[poly |-> Times(-1, xk), rhs |-> -1]>>),
                 Operation("add", <<"O", "B">>, "R")>>]

\* T = A + B; X = T < 0; C = X ? 5 : T
Chain ==
  [inputs |-> <<"A", "B">>, outputs |-> <<"C">>, temps |-> <<"T", "X">>, const |-> [_T1 |-> 0, _T3 |-> 5],
   shape |-> [A |-> SimpleShape(<<3, 2>>), B |-> SimpleShape(<<2>>), C |-> SimpleShape(<<3, 2>>),
              T |-> SimpleShape(<<3, 2>>), X |-> SimpleShape(<<3, 2>>)],
   ops |-> <<Operation("add", <<"A", "B">>, "T"), Operation("cmp_lt", <<"T", "_T1">>, "X"),
             Operation("cond", <<"X", "_T3", "T">>, "C")>>]

\* T = B + D; C[m, n] = +(A[m, k] * T[k, n])
Dense ==
  [inputs |-> <<"A", "B", "D">>, outputs |-> <<"C">>, temps |-> <<"T">>, const |-> Zero,
   shape |-> [A |-> SimpleShape(<<2, 3>>), B |-> SimpleShape(<<3, 2>>), C |-> SimpleShape(<<2, 2>>),
              D |-> SimpleShape(<<2>>), T |-> SimpleShape(<<3, 2>>)],
   ops |-> <<Operation("add", <<"B", "D">>, "T"),
             Contraction("C",
               <<Spec_("C", <<Var("m"), Var("n")>>), Spec_("A", <<Var("m"), Var("k")>>),
                 Spec_("T", <<Var("k"), Var("n")>>)>>,
               <<Ranges("k", 0, 2), Ranges("m", 0, 1), Ranges("n", 0, 1)>>, <<>>)>>]

AllFunctions == {MatMul, ConvBias, Chain, Dense}
OneChain == {Chain}

-----------------------------------------------------------------------------
(* Programs written by hand: deps.cc allows a buffer to be read and then    *)
(* overwritten, which the program of a Tile function never does.            *)

Program(inputs, outputs, shape, lists, block) ==
  [inputs |-> inputs, outputs |-> outputs, shape |-> shape, lists |-> lists, program |-> block]

\* T = A + B; R = T * A; T = A < B; S = T + B: a temporary is used for two tensors.
Reuse ==
  LET f == [inputs |-> <<"A", "B">>, outputs |-> <<"R", "S">>, temps |-> <<"T">>, const |-> Zero,
            shape |-> [n \in {"A", "B", "R", "S", "T"} |-> SimpleShape(<<3, 2>>)],
            ops |-> <<Operation("add", <<"A", "B">>, "T"), Operation("mul", <<"T", "A">>, "R"),
                      Operation("cmp_lt", <<"A", "B">>, "T"), Operation("add", <<"T", "B">>, "S")>>]
  IN  Program(f.inputs, f.outputs, f.shape, {"any", "split", "fuse", "cached", "banks"}, GenerateStripe(f))

\* X has four elements: p is a view of the first two, q of the last two and r of those in the middle;
\* t is those, too, but seen through main's view V of the last three.  Y and Z have two.
Window == [p |-> [of |-> "X", at |-> 0], q |-> [of |-> "X", at |-> 2], r |-> [of |-> "X", at |-> 1],
           t |-> [of |-> "V", at |-> 0],
           Y |-> [of |-> "Y", at |-> 0], Z |-> [of |-> "Z", at |-> 0]]

\* A statement that uses different views, element by element: uses are [dir, name]; what it writes
\* is what it has read last, or else a number.
Statement(uses) ==
  LET Going(way) == SelectSeq(uses, LAMBDA u : way \in u.dir)
      Access(v) == <<Plus(Var("i"), Const(v.at))>>
  IN  [EmptyBlock EXCEPT
         !.idxs = <<Index("i", 2, Zero)>>,
         !.refs = MapSeq(uses, LAMBDA u :
                    Refinement(u.dir, Window[u.name].of, u.name, Access(Window[u.name]), SimpleShape(<<1>>), "")),
         !.stmts = <<Constant("$c", 5)>> \o MapSeq(Going("in"), LAMBDA u : Load(u.name, "$" \o u.name))
                   \o MapSeq(Going("out"), LAMBDA u :
                        Store(IF Going("in") = <<>> THEN "$c" ELSE "$" \o Last(Going("in")).name, u.name))]
Reads(n) == [dir |-> In, name |-> n]
Writes(n) == [dir |-> Out, name |-> n]
Updates(n) == [dir |-> InOut, name |-> n]

InLine(stmts) ==
  LET names == <<"X", "Y", "Z">>
      shape == [X |-> SimpleShape(<<4>>), Y |-> SimpleShape(<<2>>), Z |-> SimpleShape(<<2>>)]
      main == [EmptyBlock EXCEPT
                 !.tags = {"main"},
                 !.refs = MapSeq(names, LAMBDA n : Refinement(InOut, n, n, <<Zero>>, shape[n], ""))
                          \o <<Refinement(InOut, "X", "V", <<Const(1)>>, SimpleShape(<<3>>), "")>>,
                 !.stmts = stmts]
      root == [EmptyBlock EXCEPT
                 !.tags = {"program"},
                 !.refs = MapSeq(names, LAMBDA n :
                            Tagged(Refinement(None, "", n, <<Zero>>, shape[n], ""), {"user"})),
                 !.stmts = <<main>>]
  IN  Program(<<"X", "Z">>, <<"X", "Y">>, shape, {"none"}, root)

\* A view is read, or written; one is copied to another, read before or after it is written (deps.cc
\* goes by the order of the refinements); one is updated and another written.
Using(views) == UNION {{Statement(<<Reads(v), Writes("Y")>>), Statement(<<Reads("Z"), Writes(v)>>)} : v \in views}
TwoViews ==
  {Statement(<<Reads("p"), Writes("q")>>), Statement(<<Writes("p"), Reads("q")>>),
   Statement(<<Updates("q"), Writes("p")>>)}

AllPrograms ==
  LET Lines == [1..3 -> Using({"p", "q", "r", "t"}) \cup TwoViews] \cup [1..4 -> Using({"p", "q", "r"})]
  IN  {Reuse} \cup {InLine(line \o <<>>) : line \in Lines}
NoPrograms == {}

-----------------------------------------------------------------------------
(* The passes.                                                              *)

Place(name, unit) == [name |-> name, unit |-> unit]

Fit ==
  [pass |-> "autotile", reqs |-> {"kernel"}, outerSet |-> {"fit_part"}, innerSet |-> {"inner"},
   clearOuter |-> FALSE, clearLocation |-> FALSE, copyTags |-> TRUE, onlyPo2 |-> FALSE, fast |-> FALSE,
   accIdxs |-> TRUE, skip1d |-> FALSE, locName |-> "", elemBytes |-> 1, cacheWidth |-> 0,
   maxOutput |-> 0, maxInput |-> 0, maxTotal |-> 5, maxSizes |-> 0]
FitCleared == [Fit EXCEPT !.clearOuter = TRUE]
FitPo2 == [Fit EXCEPT !.onlyPo2 = TRUE, !.skip1d = TRUE, !.innerSet = {}, !.clearOuter = TRUE]

Stencil ==
  [pass |-> "stencil", reqs |-> {"contraction"}, outerSet |-> {"stencil_outer"}, innerSet |-> {"stencil_inner"},
   stencils |-> {[startup |-> 2,
                  idxs |-> <<[name |-> "a", size |-> 2, outs |-> <<-1>>, ins |-> <<-1, 0>>],
                             [name |-> "b", size |-> -1, outs |-> <<1>>, ins |-> <<0, -1>>]>>]}]
PartitionProcs ==
  [pass |-> "partition_compute", reqs |-> {"kernel"}, numParts |-> 2, setTags |-> {"compute_part"}, idxTag |-> "proc"]
PartitionBanks ==
  [pass |-> "partition_memory", reqs |-> {"kernel"}, numParts |-> 2, setTags |-> {"bank_part"}, idxTag |-> "bank"]
Threads == [pass |-> "thread_inner", reqs |-> {"kernel"}, threads |-> 4]

UnrollAs(tag, part, views, idx, of) ==
  [pass |-> "unroll", reqs |-> {tag}, expandIdx |-> idx, expandTag |-> of # "", expandOf |-> of,
   partName |-> part, makeViews |-> views]
UnrollFit == UnrollAs("fit_part", "part", TRUE, "", "")
UnrollProcs == UnrollAs("compute_part", "proc", FALSE, "#proc", "proc")
UnrollBanks == UnrollAs("bank_part", "bank", TRUE, "#bank", "bank")

FuseMain ==
  [pass |-> "fusion", parentReqs |-> {"main"}, aReqs |-> {}, bReqs |-> {}, fusedSet |-> {"fused"}, recursive |-> FALSE]
FuseAll == [FuseMain EXCEPT !.parentReqs = {}, !.recursive = TRUE]
On(pass, reqs) == [pass |-> pass, reqs |-> reqs]
Cache(reqs, dirs) ==
  [pass |-> "cache", reqs |-> reqs, dirs |-> dirs, memLoc |-> Place("SRAM", Zero), xferLoc |-> Place("DMA", Zero)]
Transpose == [pass |-> "transpose", reqs |-> {"inner"}, allocReqs |-> {"fit_part"}]
LocateMemory(reqs) == [pass |-> "locate_memory", reqs |-> reqs, loc |-> Place("DRAM", Zero)]
LocateKernels ==
  [pass |-> "locate_block", reqs |-> {"kernel"},
   loc |-> Place("PROC", Plus(Var("#proc"), Term("#bank", 2)))]
LocateInner ==
  [pass |-> "locate_inner_block", reqs |-> {"main"}, innerReqs |-> {"kernel"}, loc |-> Place("PROC", Var("#proc"))]

Splits == {Fit, FitCleared, Stencil, PartitionProcs, PartitionBanks, Threads}
Moves ==
  {FuseMain, FuseAll, On("localize", {"main"}), On("scalarize", {"main"}), Cache({"kernel"}, {In}),
   Cache({"eltwise"}, {Out}), Transpose}
Marks == {LocateMemory({"main"}), LocateInner, On("prune_idxs", {"program"}), On("prune_refs", {"program"})}
Unrolls == {UnrollFit, UnrollProcs, UnrollBanks}

\* Any two passes; a split, and then its parts fused or unrolled and moved; tiles that are copied,
\* and the copies laid out anew; and the list that test/schedule.cc builds for a processor with banks.
AllLists ==
  [none |-> <<>>,
   any |-> <<Splits \cup Moves \cup Marks, Splits \cup Moves \cup Unrolls \cup Marks>>,
   split |-> <<Splits, Splits \cup Unrolls \cup {FuseMain, FuseAll, Transpose}, Unrolls \cup Moves>>,
   fuse |-> <<{FuseMain, FuseAll, PartitionProcs}, {FuseMain, FuseAll, Fit, Threads}, {On("localize", {"main"}), UnrollProcs},
              {On("scalarize", {"main"}), Cache({"kernel"}, {In}), Fit}, {PartitionProcs, UnrollFit, FuseAll}>>,
   cached |-> <<{Fit}, {Cache({"fit_part"}, {In})}, {Transpose}, {On("prune_refs", {"program"}), UnrollFit, FuseMain}>>,
   banks |-> <<{LocateMemory({"program"})}, {LocateMemory({"main"})}, {LocateKernels}, {PartitionBanks},
               {UnrollBanks}, {FitPo2}, {UnrollFit}, {PartitionProcs}, {UnrollProcs},
               {On("prune_refs", {"program"})}>>]

\* Tiles, then banks, and then the banks of neighbouring kernels fused.
LosingLists == [tiles |-> <<{Fit}, {PartitionBanks}, {FuseMain, FuseAll}>>]
=============================================================================
