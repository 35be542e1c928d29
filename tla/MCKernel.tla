------------------------------ MODULE MCKernel ------------------------------
(***************************************************************************)
(* Small programs for Kernel: the examples of docs/writing_tile_code.rst   *)
(* and of lang_test.cc, on a few elements, for a device with shared memory *)
(* and four threads, and for one that reads vectors from global memory.    *)
(***************************************************************************)
EXTENDS Kernel

\* A polynomial c + as[1] x1 + as[2] x2 + ..., and one with coefficients n/d.
Halves(c, d, as) == Plus(Constant(Lowest(c, d)), Sum([i \in DOMAIN as |-> Monomial(<<i>>, Lowest(as[i], d))] \o <<>>))
P(c, as) == Halves(c, 1, as)
Below(poly, range) == Range_(poly, range)
\* A tensor, row after row.
T(sizes) ==
  [tag |-> "tensor",
   shape |-> [i \in DOMAIN sizes |-> [size |-> sizes[i], stride |-> ProductOf(SubSeq(sizes, i + 1, Len(sizes)))]] \o <<>>]
K(n) == [tag |-> "const", value |-> n]

Contract(output, inputs, agg, comb, specs, cons) ==
  [tag |-> "contraction", output |-> output, inputs |-> inputs, default |-> 0,
   c |-> [specs |-> specs, cons |-> cons, agg |-> agg, comb |-> comb, noDefract |-> FALSE]]
Fn(output, fn, inputs) == [tag |-> "function", output |-> output, fn |-> fn, inputs |-> inputs]

\* A device with shared memory, and the CPU's, which has one thread and vectors of four.
GPU == [threads |-> 4, useGlobal |-> FALSE, memWidth |-> 16, vecSize |-> 1, maxMem |-> 1000, maxRegs |-> 1000,
        goalGroups |-> 2, goalFlops |-> 4, aliasing |-> TRUE]
\* One with little shared memory.
Small == [GPU EXCEPT !.threads = 2, !.maxMem = 70]
CPU == [GPU EXCEPT !.threads = 1, !.useGlobal = TRUE, !.memWidth = 64, !.vecSize = 4]

\* Numbers that tell the elements of the inputs apart.
Datum(t, p) == ((p * p * 3 + p * 5 + 4 * t) % 11) - 4
Job(vars, inputs, outputs, ops, box, settings, trials) ==
  [vars |-> vars, inputs |-> inputs, outputs |-> outputs, ops |-> ops, box |-> box, settings |-> settings, trials |-> trials,
   data |-> [t \in inputs |-> [p \in 1..ElemCount(vars[t].shape) |-> Datum(t, p)]]]

-----------------------------------------------------------------------------
\* R[i, j] = +(A[i, k] * B[k, j]) + V[j]
MatMul(s, trials) ==
  Job(<<T(<<3, 2>>), T(<<2, 4>>), T(<<4>>), T(<<3, 4>>), T(<<3, 4>>)>>, {1, 2, 3}, {5},
      <<Contract(4, <<1, 2>>, "sum", "mul",
                 <<<<P(0, <<1>>), P(0, <<0, 1>>)>>, <<P(0, <<1>>), P(0, <<0, 0, 1>>)>>, <<P(0, <<0, 0, 1>>), P(0, <<0, 1>>)>>>>, <<>>),
        Fn(5, "+", <<4, 3>>)>>, 0..3, s, trials)
\* O[x : 5] = +(I[x + k - 1] * K[k])
Conv(s, trials) ==
  Job(<<T(<<5>>), T(<<3>>), T(<<5>>)>>, {1, 2}, {3},
      <<Contract(3, <<1, 2>>, "sum", "mul", <<<<P(0, <<1>>)>>, <<P(-1, <<1, 1>>)>>, <<P(0, <<0, 1>>)>>>>, <<>>)>>, -2..6, s, trials)
\* O[i : (N + 1) / 2] = >(I[2 * i + j]), j < 2
MaxPool(s, trials) ==
  Job(<<T(<<5>>), T(<<3>>)>>, {1}, {2},
      <<Contract(2, <<1>>, "max", "none", <<<<P(0, <<1>>)>>, <<P(0, <<2, 1>>)>>>>, <<Below(P(0, <<0, 1>>), 2)>>)>>, -2..6, s, trials)
\* O[2 * i : N] = +(I[2 * i, j])
Skip(s, trials) ==
  Job(<<T(<<5, 2>>), T(<<5>>)>>, {1}, {2},
      <<Contract(2, <<1>>, "sum", "none", <<<<P(0, <<2>>)>>, <<P(0, <<2>>), P(0, <<0, 1>>)>>>>, <<>>)>>, -1..5, s, trials)
\* O[i : N] = +(I[k]), i - k < N
CumSum(s, trials) ==
  Job(<<T(<<4>>), T(<<4>>)>>, {1}, {2},
      <<Contract(2, <<1>>, "sum", "none", <<<<P(0, <<1>>)>>, <<P(0, <<0, 1>>)>>>>, <<Below(P(0, <<1, -1>>), 4)>>)>>, -1..5, s, trials)
\* O[i + k : 7] = +(I[i / 2 + k / 2] * K[k])
Fractions(s, trials) ==
  Job(<<T(<<4>>), T(<<3>>), T(<<7>>)>>, {1, 2}, {3},
      <<Contract(3, <<1, 2>>, "sum", "mul", <<<<P(0, <<1, 1>>)>>, <<Halves(0, 2, <<1, 1>>)>>, <<P(0, <<0, 1>>)>>>>, <<>>)>>,
      -4..9, s, trials)
\* O[N - 1 - i : N] = +(I[i])
Reversed(s, trials) ==
  Job(<<T(<<4>>), T(<<4>>)>>, {1}, {2},
      <<Contract(2, <<1>>, "sum", "none", <<<<P(3, <<-1>>)>>, <<P(0, <<1>>)>>>>, <<>>)>>, -1..5, s, trials)
\* O[i : 3] = +(I[i + 5])
Empty(s, trials) ==
  Job(<<T(<<4>>), T(<<3>>)>>, {1}, {2},
      <<Contract(2, <<1>>, "sum", "none", <<<<P(0, <<1>>)>>, <<P(5, <<1>>)>>>>, <<>>)>>, -8..8, s, trials)
\* O[] = *(I[k]), aggregated by all the threads
Total(s, trials) ==
  Job(<<T(<<7>>), T(<<1>>)>>, {1}, {2},
      <<Contract(2, <<1>>, "sum", "none", <<<<P(0, <<>>)>>, <<P(0, <<1>>)>>>>, <<>>)>>, 0..6, s, trials)

\* O[i] = +(I[i - j + 1] * K[j])
Flipped(s, trials) ==
  Job(<<T(<<4>>), T(<<3>>), T(<<4>>)>>, {1, 2}, {3},
      <<Contract(3, <<1, 2>>, "sum", "mul", <<<<P(0, <<1>>)>>, <<P(1, <<1, -1>>)>>, <<P(0, <<0, 1>>)>>>>, <<>>)>>, -2..5, s, trials)
\* O[i] = +(A[i, k] * B[k]), a few k at a time
Product_(s, trials) ==
  Job(<<T(<<2, 6>>), T(<<6>>), T(<<2>>)>>, {1, 2}, {3},
      <<Contract(3, <<1, 2>>, "sum", "mul",
                 <<<<P(0, <<1>>)>>, <<P(0, <<1>>), P(0, <<0, 1>>)>>, <<P(0, <<0, 1>>)>>>>, <<>>)>>, 0..5, s, trials)
\* Neg = -I; O_Neg[] = >(Neg[i, j]); O = -O_Neg
Min_(s, trials) ==
  Job(<<T(<<2, 2>>), T(<<2, 2>>), T(<<1>>), T(<<1>>)>>, {1}, {4},
      <<Fn(2, "neg", <<1>>),
        Contract(3, <<2>>, "max", "none", <<<<P(0, <<>>)>>, <<P(0, <<1>>), P(0, <<0, 1>>)>>>>, <<>>),
        Fn(4, "neg", <<3>>)>>, 0..1, s, trials)
\* O[i] = +(A[i] == B[j] ? C[j])
Choose_(s, trials) ==
  Job(<<T(<<3>>), T(<<4>>), T(<<4>>), T(<<3>>)>>, {1, 2, 3}, {4},
      <<Contract(4, <<1, 2, 3>>, "sum", "cond", <<<<P(0, <<1>>)>>, <<P(0, <<1>>)>>, <<P(0, <<0, 1>>)>>, <<P(0, <<0, 1>>)>>>>, <<>>)>>,
      0..3, s, trials)
\* M[i] = <(A[i, j]); O = M == A, the elements of a row that are its least
Least(s, trials) ==
  Job(<<T(<<2, 4>>), T(<<2, 1>>), T(<<2, 4>>), T(<<2, 4>>)>>, {1}, {4},
      <<Contract(2, <<1>>, "min", "none", <<<<P(0, <<1>>), P(0, <<>>)>>, <<P(0, <<1>>), P(0, <<0, 1>>)>>>>, <<>>),
        Fn(3, "-", <<1, 2>>), Fn(4, "neg", <<3>>)>>, 0..3, s, trials)
\* Elementwise operations with two results.
Elementwise(s, trials) ==
  Job(<<T(<<2, 4>>), T(<<4>>), T(<<2, 4>>), T(<<2, 4>>), T(<<2, 4>>), T(<<2, 4>>), K(2)>>, {1, 2}, {4, 6},
      <<Fn(3, "+", <<1, 2>>), Fn(4, "*", <<3, 7>>), Fn(5, "<", <<1, 2>>), Fn(6, "cond", <<5, 3, 7>>)>>, {}, s, trials)
\* O[2 * i : N] = +(I[i]), elsewhere what D has
Default(s, trials) ==
  LET plain == Job(<<T(<<3>>), T(<<5>>), T(<<5>>)>>, {1, 2}, {3},
                 <<Contract(3, <<1>>, "sum", "none", <<<<P(0, <<2>>)>>, <<P(0, <<1>>)>>>>, <<>>)>>, -1..5, s, trials)
  IN  [plain EXCEPT !.ops[1].default = 2]
\* The same contraction three times, a reshape, and memory that can be used again.
Layers(s, trials) ==
  LET Product2(o, a, b) ==
        Contract(o, <<a, b>>, "sum", "mul",
                 <<<<P(0, <<1>>), P(0, <<0, 1>>)>>, <<P(0, <<1>>), P(0, <<0, 0, 1>>)>>, <<P(0, <<0, 0, 1>>), P(0, <<0, 1>>)>>>>, <<>>)
  IN  Job(<<T(<<2, 2>>), T(<<2, 2>>), T(<<2, 2>>), T(<<2, 2>>), T(<<2, 2>>), T(<<2>>), T(<<2, 2>>), T(<<2, 2>>), T(<<2, 2>>),
            T(<<4>>), T(<<1>>)>>, {1, 2, 3}, {6, 11},
          <<Product2(4, 1, 2), Product2(5, 3, 2),
            Contract(6, <<4>>, "prod", "none", <<<<P(0, <<1>>)>>, <<P(0, <<1>>), P(0, <<0, 1>>)>>>>, <<>>),
            Product2(7, 5, 2), Fn(8, "-", <<7, 4>>), Fn(9, "neg", <<8>>), Fn(10, "reshape", <<9>>),
            Contract(11, <<10>>, "max", "none", <<<<P(0, <<>>)>>, <<P(0, <<1>>)>>>>, <<>>)>>, 0..3, s, trials)
\* A result that is an input again, by two names.
Again(s, trials) ==
  Job(<<T(<<2, 2>>), T(<<2, 2>>), T(<<4>>), T(<<2, 2>>)>>, {1}, {2, 3, 4},
      <<Fn(2, "ident", <<1>>), Fn(3, "reshape", <<2>>), Fn(4, "neg", <<2>>)>>, {}, s, trials)

\* O = A + B, each row of B one element
Broadcast_(s, trials) ==
  Job(<<T(<<4, 4>>), T(<<4, 1>>), T(<<4, 4>>)>>, {1, 2}, {3}, <<Fn(3, "+", <<1, 2>>)>>, {}, s, trials)

MCJobs ==
  <<MatMul(GPU, 2), MatMul(CPU, 2), Conv(GPU, 2), Conv(CPU, 2), MaxPool(GPU, 2), Skip(GPU, 2), CumSum(GPU, 2),
    Fractions(GPU, 2), Reversed(GPU, 2), Empty(GPU, 2), Total(GPU, 2), Flipped(GPU, 2), Choose_(GPU, 2), Least(GPU, 2),
    Elementwise(CPU, 2), Default(GPU, 2), Layers(GPU, 1), Again(GPU, 1), Product_(Small, 3), Min_(GPU, 1), Broadcast_(GPU, 2)>>
\* The device that reads vectors, with an operand that has none.
MCBroadcastJobs == <<Broadcast_(CPU, 1), Elementwise(CPU, 1)>>
=============================================================================
