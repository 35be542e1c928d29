----------------------------- MODULE StripeDeps -----------------------------
(***************************************************************************)
(* tile/codegen/deps.cc: the statements each statement of a block waits    *)
(* for.  Where the code refers to a statement by an iterator, this module  *)
(* uses its position.                                                      *)
(***************************************************************************)
EXTENDS StripeAlias

\* A buffer as the statements before have left it: writers, position -> alias info of what it
\* writes, and the readers since the last write.
Untouched == [writers |-> Zero, readers |-> {}]

\* The accesses of a statement to the buffers of its block, in the order the code visits them:
\* [write, info].  A block is seen through its refinements, reads before writes.
Accesses(stmt, aliases) ==
  LET Of(map, name, write) == [write |-> write, info |-> map.info[name]]
      Outer(names, write) == MapSeq(names, LAMBDA n : Of(aliases, n, write))
      Both(inner, r) == (IF "in" \in r.dir THEN <<Of(inner, r.into, FALSE)>> ELSE <<>>)
                        \o (IF "out" \in r.dir THEN <<Of(inner, r.into, TRUE)>> ELSE <<>>)
      Inner(inner) == FlattenSeq(MapSeq(stmt.refs, LAMBDA r : Both(inner, r)))
  IN  IF IsBlock(stmt) THEN Inner(AliasMap(aliases, stmt, <<>>))
      ELSE Outer(BufferReads(stmt), FALSE) \o Outer(BufferWrites(stmt), TRUE)

\* The writers a reader waits for: all of them; changed: those of the very view it reads.
WritersOfView(buffer, info) == {w \in DOMAIN buffer.writers : Compare(info, buffer.writers[w]) = "exact"}
WritersOf(buffer, info) == DOMAIN buffer.writers

\* The readers the k-th statement waits for when it writes: all but itself; changed: those that are
\* left when the list is cleared before it is looked at.
ReadersLeft(buffer, k) == {}
ReadersOf(buffer, k) == buffer.readers \ {k}

\* WriteBuffer and ReadBuffer: acc is [buffers, deps], k the position of the statement.  A writer
\* forgets all readers, whatever part of the buffer it writes, and keeps the first view it writes; a
\* reader waits for all writers, but one that has written the buffer waits for no one.
Touch(acc, k, access) ==
  LET name == access.info.base
      Others(buffer) == {w \in DOMAIN buffer.writers \ {k} : Compare(access.info, buffer.writers[w]) # "none"}
      Update(new, deps) == [buffers |-> (name :> new) @@ acc.buffers, deps |-> acc.deps \cup deps]
      Access(buffer) ==
        CASE access.write ->
               Update([writers |-> buffer.writers @@ (k :> access.info), readers |-> {}],
                      Others(buffer) \cup ReadersOf(buffer, k))
          [] ~access.write /\ k \in DOMAIN buffer.writers -> Update(buffer, {})
          [] ~access.write /\ k \notin DOMAIN buffer.writers ->
               Update([buffer EXCEPT !.readers = @ \cup {k}], WritersOf(buffer, access.info))
  IN  Access(IF name \in DOMAIN acc.buffers THEN acc.buffers[name] ELSE Untouched)

\* Scalars are defined once: where, for the scalars a statement uses.
Definition(b, name) == CHOOSE k \in DOMAIN b.stmts : name \in ToSet(ScalarDefs(b.stmts[k]))
SingleDefs(b) ==
  \A i, j \in DOMAIN b.stmts :
    i # j => ToSet(ScalarDefs(b.stmts[i])) \cap ToSet(ScalarDefs(b.stmts[j])) = {}

\* ComputeDepsForBlock: the reduced dependencies of every statement, in their order.
ComputeDeps(b, aliases) ==
  LET Put(acc, buffers, direct) ==
        LET through == UNION {acc.all[d] : d \in direct}
        IN  [buffers |-> buffers,
             deps |-> Append(acc.deps, direct \ through),
             all |-> Append(acc.all, direct \cup through)]
      After(acc, k, touched) ==
        Put(acc, touched.buffers, touched.deps \cup {Definition(b, n) : n \in ToSet(ScalarUses(b.stmts[k]))})
      Step(acc, k) ==
        After(acc, k, FoldLeft(LAMBDA a, x : Touch(a, k, x), [buffers |-> acc.buffers, deps |-> {}],
                               Accesses(b.stmts[k], aliases)))
  IN  FoldLeftDomain(Step, [buffers |-> Zero, deps |-> <<>>, all |-> <<>>], b.stmts).deps

\* What a statement waits for through the statements it waits for.
Closure(deps) ==
  FoldLeft(LAMBDA all, ds : Append(all, ds \cup UNION {all[d] : d \in ds}), <<>>, deps)
=============================================================================
