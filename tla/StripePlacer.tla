---------------------------- MODULE StripePlacer ----------------------------
(***************************************************************************)
(* tile/codegen/placer.cc: the chunks, which are the buffers that blocks   *)
(* declare, get offsets in the arenas of their locations.  Two chunks may  *)
(* share memory when one is done with before the other is begun, whatever  *)
(* order the dependencies of the statements allow.                         *)
(*                                                                         *)
(* A chunk is [name, size, location]; uses[k] are the names of the chunks  *)
(* that statement k accesses; blocks are the statements that are blocks;   *)
(* order is the statements in their order.                                 *)
(***************************************************************************)
EXTENDS Integers, FiniteSets, SequencesExt, TLC

RoundUp(count, alignment) == ((count + alignment - 1) \div alignment) * alignment

\* The statements that are complete when a statement is.
TransitiveDeps(order, deps) ==
  FoldLeft(LAMBDA all, k : [all EXCEPT ![k] = deps[k] \cup UNION {all[d] : d \in deps[k]}],
           [k \in DOMAIN deps |-> {}], order)

\* Chunk and ChunkUseRecorder: who accesses a chunk, what is complete by then, and who is the first.
\* The statements within a block (of which -k stands for those of block k) access it as well, and they
\* wait for nothing outside of it and nobody outside for them.
Chunk(c, uses, blocks, order, through, alignment) ==
  LET accessors == {k \in ToSet(order) : c.name \in uses[k]}
      within == {-k : k \in accessors \cap blocks}
  IN  [name |-> c.name, location |-> c.location, size |-> RoundUp(c.size, alignment),
       accessors |-> accessors \cup within,
       deps |-> {d \in ToSet(order) : accessors # {} /\ within = {} /\ \A k \in accessors : d \in through[k]},
       first |-> IF accessors = {} THEN 0 ELSE SelectInSeq(order, LAMBDA k : k \in accessors) - 1]

BuildChunkList(chunks, uses, blocks, order, deps, alignment) ==
  LET through == TransitiveDeps(order, deps)
  IN  SortSeq([i \in DOMAIN chunks |-> Chunk(chunks[i], uses, blocks, order, through, alignment)],
              LAMBDA a, b : a.first < b.first)

\* What is complete before the accessors of the chunk and of all that come after it.
SubsequentDeps(list, i) == {d \in list[i].deps : \A j \in i..Len(list) : d \in list[j].deps}

\* A mutant: a chunk is past as soon as one of those behind it waits for it.
InterfereUntilOne(list, i, j) ==
  /\ list[i].location = list[j].location
  /\ ~\E m \in (i + 1)..j : list[m].location = list[i].location /\ list[i].accessors \subseteq list[m].deps

\* May two chunks of the list, the i-th before the j-th, be in use at a time?
Interfere(list, i, j) ==
  /\ list[i].location = list[j].location
  /\ ~\E m \in (i + 1)..j : /\ list[m].location = list[i].location
                            /\ list[i].accessors \subseteq SubsequentDeps(list, m)
  /\ ~(list[i].accessors \subseteq list[j].deps)

\* The smallest gap between the chunks that were placed that is large enough, or the end of them.
Gap(size, placed) ==
  LET Look(acc, x) ==
        LET room == x.offset - acc.limit
            better == size <= room /\ room > 0 /\ (acc.gap = -1 \/ room < acc.room)
        IN  [limit |-> IF acc.limit < x.offset + x.size THEN x.offset + x.size ELSE acc.limit,
             gap |-> IF better THEN acc.limit ELSE acc.gap, room |-> IF better THEN room ELSE acc.room]
      all == FoldLeft(Look, [limit |-> 0, gap |-> -1, room |-> 0], placed)
  IN  IF all.gap = -1 THEN all.limit ELSE all.gap

\* The offset of each chunk, by name: the largest is placed first.
PlaceRefinements(chunks, uses, blocks, order, deps, alignment) ==
  LET list == BuildChunkList(chunks, uses, blocks, order, deps, alignment)
      together == {<<i, j>> \in (DOMAIN list) \X (DOMAIN list) : i < j /\ Interfere(list, i, j)}
      bySize == SortSeq([i \in DOMAIN list |-> i], LAMBDA a, b : list[a].size > list[b].size)
      Placed(done, i) ==
        SetToSortSeq({[offset |-> done[list[j].name], size |-> list[j].size, name |-> list[j].name] :
                        j \in {x \in DOMAIN list : list[x].name \in DOMAIN done /\ {<<i, x>>, <<x, i>>} \cap together # {}}},
                     LAMBDA a, b : a.offset < b.offset)
  IN  FoldLeft(LAMBDA done, i : (list[i].name :> Gap(list[i].size, Placed(done, i))) @@ done, <<>>, bySize)
=============================================================================
