------------------------------ MODULE MCRuntime ------------------------------
EXTENDS Runtime

CONSTANTS a, b

Arg(input, output) == [in |-> input, out |-> output]
St(ins, outs, deps) == [ins |-> ins, outs |-> outs, deps |-> deps]

\* x := g(f(x)): the result replaces the input, which f was the last to read
Update(x) == [allocs |-> <<Arg(x, x), Arg(NoBuf, NoBuf)>>,
              steps |-> <<St({1}, {2}, {}), St({2}, {1}, {1})>>]

\* y := f(x)
Apply(x, y) == [allocs |-> <<Arg(x, NoBuf), Arg(NoBuf, y)>>, steps |-> <<St({1}, {2}, {})>>]

\* y := f(x), z := g(x) by two kernels that do not depend on each other
Fan(x, y, z) == [allocs |-> <<Arg(x, NoBuf), Arg(NoBuf, y), Arg(NoBuf, z)>>,
                 steps |-> <<St({1}, {2}, {}), St({1}, {3}, {})>>]

\* x := f(x), y := g(f(x)) in the memory of the old x
Rotate(x, y) == [allocs |-> <<Arg(x, y), Arg(NoBuf, x)>>,
                 steps |-> <<St({1}, {2}, {}), St({2}, {1}, {1})>>]

MCBufs == {a, b}
MCCalls == {Update(a), Rotate(a, b), Fan(a, a, b)}

\* x := g(f(x)) in place, z := h(x): the last step may be refused
UpdateAndUse(x, z) == [allocs |-> <<Arg(x, x), Arg(NoBuf, NoBuf), Arg(NoBuf, z)>>,
                       steps |-> <<St({1}, {2}, {}), St({2}, {1}, {1}), St({1}, {3}, {2})>>]

\* The instance of the run with refused launches: one buffer of the application.
MCOneBuf == {a}
MCHalfRuns == {Apply(a, a), UpdateAndUse(a, a)}
=============================================================================
