-------------------------------- MODULE MCFifo --------------------------------
EXTENDS Fifo

CONSTANTS
    Kernels,    \* bound: main kernels of a program
    Sizes,      \* bound: sizes of allocs
    Groups      \* bound: work groups of a kernel

\* The k-th kernel writes t[k], the last one the program output "o".
T(k) == IF k = Kernels THEN "o" ELSE <<"t1", "t2", "t3">>[k]
Temporaries == {T(k) : k \in 1..(Kernels - 1)}

ReadsChoices ==
    {r \in [1..Kernels -> SUBSET ({"in"} \cup Temporaries)] :
        /\ \A k \in 1..Kernels : r[k] # {} /\ r[k] \subseteq {"in"} \cup {T(j) : j \in 1..(k - 1)}
        /\ \A j \in 1..(Kernels - 1) : \E k \in 1..Kernels : T(j) \in r[k]}

\* One of the kernels may have a zero step before it, be followed by an update of its
\* output, or write the second program output "p".
Extras == {"none", "zero", "update", "zero and update", "second output"}

KernelsOf(reads, at, extra, groups) ==
    LET Step(ins, outs, zero) == [inputs |-> ins, outputs |-> outs, zero |-> zero, groups |-> groups]
        Group(k) ==
          LET main == Step(reads[k], IF k = at /\ extra = "second output" THEN <<T(k), "p">> ELSE <<T(k)>>, FALSE)
          IN IF k # at THEN <<main>>
             ELSE (IF extra \in {"zero", "zero and update"} THEN <<Step({}, <<T(k)>>, TRUE)>> ELSE <<>>)
                  \o <<main>>
                  \o (IF extra \in {"update", "zero and update"} THEN <<Step({"in"}, <<T(k)>>, FALSE)>> ELSE <<>>)
    IN FlattenSeq([k \in 1..Kernels |-> Group(k)])

ProgramsWith(inputs, extras) ==
    {[role |-> [a \in DOMAIN size |-> IF a = "in" THEN input ELSE IF a \in Temporaries THEN "tmp" ELSE "output"],
      size |-> size,
      aliases |-> [a \in DOMAIN size |->
                    SetToSeq({b \in DOMAIN size : input = "consumed" /\ size[a] = size[b]
                                                 /\ \E k \in 1..Kernels : a = T(k) /\ b \in reads[k]})],
      kernels |-> KernelsOf(reads, at, extra, groups)] :
        input \in inputs, groups \in Groups, extra \in extras, at \in 2..Kernels,
        reads \in ReadsChoices, size \in [{"in", "o"} \cup Temporaries -> Sizes]}

\* The second output is as large as the first one.
WithSecond(pr) ==
    IF \E k \in DOMAIN pr.kernels : "p" \in ToSet(pr.kernels[k].outputs)
    THEN [pr EXCEPT !.role = [a \in DOMAIN pr.role \cup {"p"} |-> IF a = "p" THEN "output" ELSE pr.role[a]],
                    !.size = [a \in DOMAIN pr.size \cup {"p"} |-> IF a = "p" THEN pr.size["o"] ELSE pr.size[a]],
                    !.aliases = [a \in DOMAIN pr.size \cup {"p"} |-> IF a = "p" THEN <<>> ELSE pr.aliases[a]]]
    ELSE pr

AllPrograms == {WithSecond(pr) : pr \in ProgramsWith({"input", "consumed"}, Extras)}

MCGoals == {0, 9, 30}
=============================================================================
