--------------------------- MODULE MCStripeMemory ---------------------------
(***************************************************************************)
(* Small blocks, in five families: buffers of different sizes; views of    *)
(* one buffer; buffers in two units; buffers of one size that are written  *)
(* once, for a machine that runs statements in any order; and blocks with  *)
(* four temporaries that are placed but not scheduled.                     *)
(***************************************************************************)
EXTENDS StripeMemory

In == {"in"}
Out == {"out"}
Elems(from, to) == [i \in 1..(to - from) |-> from + i - 1]
Ref(base, from, to, dir, unit) == [base |-> base, elems |-> Elems(from, to), dir |-> dir, unit |-> unit]

\* A block that reads all of some refs and writes all of one, going through them element by element.
Io(refs, r, dir, agg) == [ref |-> r, dir |-> dir, part |-> 1, agg |-> agg, ranks |-> DOMAIN refs[r].elems]
Stmt(refs, w, rs, agg) ==
  [block |-> TRUE, ios |-> [i \in DOMAIN rs |-> Io(refs, rs[i], In, FALSE)] \o <<Io(refs, w, Out, agg)>>]
Write(refs, w, rs) == Stmt(refs, w, rs, FALSE)
AddTo(refs, w, rs) == Stmt(refs, w, rs, TRUE)

\* What is not an input is not read before it was written.
Valid(p) ==
  LET hits(k, base, elem) == \E io \in ToSet(p.stmts[k].ios) :
        "out" \in io.dir /\ p.refs[io.ref].base = base /\ elem \in ToSet(p.refs[io.ref].elems)
  IN  \A k \in DOMAIN p.stmts : \A io \in ToSet(p.stmts[k].ios) :
        ("in" \in io.dir \/ io.agg) /\ p.refs[io.ref].dir # In =>
          \A elem \in ToSet(p.refs[io.ref].elems) : \E j \in 1..(k - 1) : hits(j, p.refs[io.ref].base, elem)

\* The last statement writes the output.
EndsWith(p, output) == Last(Last(p.stmts).ios).ref = output

Block(refs, stmts, any) == [refs |-> refs, stmts |-> stmts, anyOrder |-> any, scheduled |-> TRUE]
Sequences(S, n) == [1..n -> S]

\* Inputs A and B, an output C, temporaries T and U.
Plain == <<Ref("A", 0, 2, In, 0), Ref("B", 0, 1, In, 0), Ref("C", 0, 2, Out, 0), Ref("T", 0, 2, {}, 0), Ref("U", 0, 1, {}, 0)>>
PlainStmts ==
  {Write(Plain, 4, <<1, 2>>), Write(Plain, 4, <<1>>), Write(Plain, 5, <<2>>), Write(Plain, 5, <<1, 4>>),
   AddTo(Plain, 4, <<5>>), Write(Plain, 3, <<4, 5>>), Write(Plain, 3, <<1, 5>>), AddTo(Plain, 3, <<2, 4>>)}
PlainPrograms(n) == {p \in {Block(Plain, s, FALSE) : s \in Sequences(PlainStmts, n)} : Valid(p) /\ EndsWith(p, 3)}

\* An input A, a buffer X that is also seen in halves, an output C.
InOut == In \cup Out
Views == <<Ref("A", 0, 1, In, 0), Ref("C", 0, 2, Out, 0), Ref("X", 0, 2, InOut, 0), Ref("X", 0, 1, InOut, 0), Ref("X", 1, 2, InOut, 0)>>
ViewStmts ==
  {Write(Views, 3, <<1>>), Write(Views, 4, <<1>>), Write(Views, 5, <<1>>), Write(Views, 5, <<4>>),
   Write(Views, 2, <<3>>), Write(Views, 2, <<4, 5>>)}
ViewPrograms(n) == {p \in {Block(Views, s, FALSE) : s \in Sequences(ViewStmts, n)} : Valid(p) /\ EndsWith(p, 2)}

\* The first again, with half of the buffers in another unit.
Units == <<Ref("A", 0, 2, In, 0), Ref("B", 0, 1, In, 1), Ref("C", 0, 2, Out, 1), Ref("T", 0, 2, {}, 0), Ref("U", 0, 1, {}, 1)>>
UnitPrograms(n) == {[p EXCEPT !.refs = Units] : p \in PlainPrograms(n)}

\* Inputs A and B, outputs C and D, temporaries T, U and V, each of one element.
Small == <<Ref("A", 0, 1, In, 0), Ref("B", 0, 1, In, 0), Ref("C", 0, 1, Out, 0), Ref("D", 0, 1, Out, 0),
           Ref("T", 0, 1, {}, 0), Ref("U", 0, 1, {}, 0)>>
SmallPrograms ==
  {Block(Small, <<Write(Small, 5, a), Write(Small, 6, b), Write(Small, 3, c), Write(Small, 4, d)>>, TRUE) :
     a \in {<<1>>, <<1, 2>>}, b \in {<<1>>, <<2>>, <<5>>, <<2, 5>>}, c \in {<<5>>, <<5, 6>>, <<1, 6>>}, d \in {<<5>>, <<6>>, <<2, 5>>}}

\* An input A, an output C, temporaries T, U, V and W.
Arena == <<Ref("A", 0, 1, In, 0), Ref("C", 0, 1, Out, 0), Ref("T", 0, 2, {}, 0), Ref("U", 0, 1, {}, 0), Ref("V", 0, 1, {}, 0), Ref("W", 0, 2, {}, 0)>>
Direct(stmts, blocks) == [k \in DOMAIN stmts |-> [stmts[k] EXCEPT !.block = k \in blocks]]
ArenaPrograms ==
  {[Block(Arena, Direct(<<Write(Arena, 3, <<1>>), Write(Arena, 4, t), Write(Arena, 5, u), Write(Arena, 6, v), Write(Arena, 2, w)>>, b), TRUE)
      EXCEPT !.scheduled = FALSE] :
     t \in {<<1>>, <<3>>}, u \in {<<1>>, <<3>>, <<4>>}, v \in {<<1>>, <<4>>, <<5>>}, w \in {<<5, 6>>, <<4, 6>>, <<3, 5, 6>>},
     b \in {{}, {1, 2}, {5}}}

SomePrograms == PlainPrograms(3) \cup PlainPrograms(4) \cup ViewPrograms(4) \cup UnitPrograms(3) \cup SmallPrograms
  \cup ArenaPrograms
=============================================================================
