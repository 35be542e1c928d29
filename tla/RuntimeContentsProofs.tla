------------------------- MODULE RuntimeContentsProofs -------------------------
(***************************************************************************)
(* What the memory of the run time holds: for any programs whose schedules *)
(* order what conflicts, a mapping that succeeds shows what the last       *)
(* operation wrote that was launched before it, whatever the device does   *)
(* in which order, and whichever of its kernels fail.                      *)
(*                                                                         *)
(* A chunk's want is the last operation that was launched to write it.  No *)
(* operation that is left to run writes the memory once that one is done   *)
(* (WantInv); one that failed stays pending (FailInv), so that a mapping   *)
(* does not succeed; and an operation starts when all that it reads is     *)
(* there, and keeps it until it is finished (ReadInv), so that what is done *)
(* is done right (NoMisread).                                              *)
(*                                                                         *)
(* The last part drops the hypotheses: when launches are refused, and the  *)
(* application overwrites what is still to be read, a mapping may show the *)
(* wrong operation's result, but never that of a launch that was refused   *)
(* (SInv).                                                                 *)
(***************************************************************************)
EXTENDS RuntimeOrderProofs

Done(e) == e \in DOMAIN events /\ events[e].st = "done"

HostWriting(c) == \E v \in views : v.chunk = c /\ v.wrote

\* Memory h is to hold what w writes: when w is done it is there, and is not written again
\* by any of the operations D that are not finished.
Settled(h, w, D) ==
    /\ w \in DOMAIN events
    /\ w \in Busy => h \in Writes(w)
    /\ Done(w) => \A d \in D : h \notin Writes(d)

\* Nothing was launched to write a chunk after the operation that it wants.
WantInv ==
    \A c \in DOMAIN chunks :
        LET h == chunks[c].hal
            w == chunks[c].want
        IN /\ \A d \in Busy : h \in Writes(d) => d <= w
           /\ w # None => Settled(h, w, Busy)
           /\ w # None /\ Done(w) /\ ~HostWriting(c) => mem[h] = w

\* The step of the request that is operation e writes alloc i, which is bound to no output.
WroteTmp(i, e) ==
    /\ Out(i) = NoBuf
    /\ \E j \in DOMAIN req.event : e = req.event[j] /\ i \in req.call.steps[j].outs

\* An operation that failed is pending in what it was to write: a mapping waits for it, and
\* so do the steps of a request.
FailInv ==
    /\ \A b \in Bufs : Bound(b) /\ chunks[bufs[b]].want \in Failed =>
          \/ chunks[bufs[b]].want \in chunks[bufs[b]].pending
          \/ \E i \in DOMAIN req.alloc : i \in WrittenAllocs(req.call) /\ req.alloc[i] = bufs[b]
    /\ \A i \in DOMAIN req.alloc : chunks[req.alloc[i]].want \in Failed =>
          \/ chunks[req.alloc[i]].want \in chunks[req.alloc[i]].pending
          \/ WroteTmp(i, chunks[req.alloc[i]].want)
    /\ \A m \in maps : chunks[m.chunk].want \in Failed => chunks[m.chunk].want \in m.deps

\* A request expects in an alloc what the chunk wants.
ReqWantInv == \A i \in DOMAIN req.alloc : req.want[i] = chunks[req.alloc[i]].want

\* What e is to find in memory h is written by w: e comes after w, and once w is done
\* nothing else writes the memory until e has read it.
Finds(e, h, w) ==
    /\ w < e /\ Follows(events, w, e)
    /\ Settled(h, w, {d \in Busy : d < e})
    /\ \A d \in Busy : d < e /\ h \in Writes(d) => d <= w
    /\ Done(w) /\ (events[e].st = "waiting" \/ h \notin Writes(e)) => mem[h] = w

ReadInv == \A e \in Busy : \A r \in events[e].reads : r[2] # None => Finds(e, r[1], r[2])

NoMisread == \A e \in DOMAIN events : events[e].st # "misread"

CInv == WantInv /\ FailInv /\ ReqWantInv /\ ReadInv /\ NoMisread /\ MapSeesLogical

-----------------------------------------------------------------------------
(* Steps that give the device nothing *)

\* What an operation is said to read is a piece of memory and what is to be in it.
LEMMA ReadsTyped ==
    ASSUME TypeInv
    PROVE  \A e \in DOMAIN events : \A r \in events[e].reads : r[1] \in Hals /\ r[2] \in Values /\ r[1] \in Reads(e)
  <1> SUFFICES ASSUME NEW e \in DOMAIN events, NEW r \in events[e].reads
               PROVE  r[1] \in Hals /\ r[2] \in Values /\ r[1] \in Reads(e)
    OBVIOUS
  <1>1. events[e] \in Event
    BY DEF TypeInv
  <1>2. r \in Hals \X Values
    BY <1>1 DEF Event
  <1>3. QED
    BY <1>2 DEF Reads

\* No operation has the number 0.
LEMMA NoneIsNoOperation ==
    ASSUME TypeInv
    PROVE  None \notin DOMAIN events /\ \A e \in DOMAIN events : e \in Nat
  BY DEF TypeInv, None

\* Chunks may have gone, or been added in memory that no operation uses; the application may
\* have taken over memory that it has mapped and nothing reads.
LEMMA QuietContents ==
    ASSUME RInv, CInv, RInv', UNCHANGED events,
           \A c \in DOMAIN chunks' :
              \/ c \in DOMAIN chunks /\ chunks'[c] = chunks[c]
              \/ chunks'[c].want = None /\ chunks'[c].hal \notin InUse,
           \A c : HostWriting(c) => HostWriting(c)',
           \A h \in Hals :
              \/ mem'[h] = mem[h]
              \/ /\ \A c \in DOMAIN chunks' : chunks'[c].hal = h => HostWriting(c)'
                 /\ \A d \in Busy : h \notin Reads(d)
    PROVE  WantInv' /\ ReadInv' /\ NoMisread'
  <1>1. /\ Busy' = Busy /\ Failed' = Failed
        /\ \A d : Reads(d)' = Reads(d) /\ Writes(d)' = Writes(d) /\ Done(d)' = Done(d)
    BY DEF Busy, Finished, Failed, Reads, Writes, Done
  <1>2. ASSUME NEW h, NEW w, NEW D
        PROVE  Settled(h, w, D)' = Settled(h, w, D)
    BY <1>1 DEF Settled
  <1>3. WantInv'
    <2> SUFFICES ASSUME NEW c \in DOMAIN chunks', NEW h, NEW w, h = chunks'[c].hal, w = chunks'[c].want
                 PROVE  /\ \A d \in Busy : h \in Writes(d) => d <= w
                        /\ w # None => Settled(h, w, Busy)
                        /\ w # None /\ Done(w) /\ ~HostWriting(c)' => mem'[h] = w
      BY <1>1, <1>2 DEF WantInv
    <2>1. CASE c \in DOMAIN chunks /\ chunks'[c] = chunks[c]
      <3>1. /\ \A d \in Busy : h \in Writes(d) => d <= w
            /\ w # None => Settled(h, w, Busy)
            /\ w # None /\ Done(w) /\ ~HostWriting(c) => mem[h] = w
        BY <2>1 DEF CInv, WantInv
      <3>2. h \in Hals
        BY <2>1 DEF RInv, TypeInv, Chunk
      <3>3. QED
        BY <3>1, <3>2
    <2>2. CASE w = None /\ h \notin InUse
      BY <2>2 DEF InUse, Touches, Writes
    <2>3. QED
      BY <2>1, <2>2
  <1>4. ReadInv'
    <2> SUFFICES ASSUME NEW e \in Busy, NEW r \in events[e].reads, r[2] # None
                 PROVE  Finds(e, r[1], r[2])'
      BY <1>1 DEF ReadInv
    <2>1. Finds(e, r[1], r[2])
      BY DEF CInv, ReadInv
    <2>2. mem'[r[1]] = mem[r[1]]
      BY ReadsTyped DEF RInv, Busy
    <2>3. QED
      BY <1>1, <1>2, <2>1, <2>2 DEF Finds
  <1>5. NoMisread'
    BY DEF CInv, NoMisread
  <1>6. QED
    BY <1>3, <1>4, <1>5

\* References that are dropped
LEMMA DropContents ==
    ASSUME RInv, CInv, RInv', NEW refs, DropTo(chunks, refs), UNCHANGED <<events, mem, req, views>>,
           Frees(bufs'), maps' \subseteq maps
    PROVE  CInv'
  <1>1. \A c \in DOMAIN chunks' : c \in DOMAIN chunks /\ chunks'[c] = chunks[c]
    BY DEF DropTo
  <1>2. NoneDangles'
    BY OwnersReferNext
  <1>3. Failed' = Failed /\ \A c : HostWriting(c)' = HostWriting(c)
    BY DEF Failed, HostWriting
  <1>4. WantInv' /\ ReadInv' /\ NoMisread'
    BY <1>1, <1>3, QuietContents
  <1>5. \A i \in DOMAIN req.alloc : req.alloc[i] \in DOMAIN chunks'
    BY <1>2 DEF NoneDangles, ReqChunks
  <1>6. ReqWantInv'
    BY <1>1, <1>5 DEF CInv, ReqWantInv
  <1>7. MapSeesLogical'
    BY <1>1, <1>2 DEF CInv, MapSeesLogical, NoneDangles
  <1>8. FailInv'
    <2>1. ASSUME NEW b \in Bufs, bufs'[b] # NoChunk, chunks'[bufs'[b]].want \in Failed
          PROVE  \/ chunks'[bufs'[b]].want \in chunks'[bufs'[b]].pending
                 \/ \E i \in DOMAIN req.alloc : i \in WrittenAllocs(req.call) /\ req.alloc[i] = bufs'[b]
      <3>1. Bound(b) /\ bufs'[b] = bufs[b] /\ bufs'[b] \in DOMAIN chunks'
        BY <1>2, <2>1 DEF Frees, Bound, NoneDangles
      <3>2. QED
        BY <1>1, <2>1, <3>1 DEF CInv, FailInv
    <2>2. ASSUME NEW i \in DOMAIN req.alloc, chunks'[req.alloc[i]].want \in Failed
          PROVE  \/ chunks'[req.alloc[i]].want \in chunks'[req.alloc[i]].pending
                 \/ WroteTmp(i, chunks'[req.alloc[i]].want)
      BY <1>1, <1>5, <2>2 DEF CInv, FailInv
    <2>3. \A m \in maps' : chunks'[m.chunk].want \in Failed => chunks'[m.chunk].want \in m.deps
      BY <1>1, <1>2 DEF CInv, FailInv, NoneDangles
    <2>4. \A i, e : WroteTmp(i, e)' = WroteTmp(i, e)
      BY DEF WroteTmp, Out
    <2>5. QED
      BY <1>3, <2>1, <2>2, <2>3, <2>4 DEF FailInv, Bound
  <1>9. QED
    BY <1>4, <1>6, <1>7, <1>8 DEF CInv

LEMMA FreeBufferContents ==
    ASSUME RInv, CInv, RInv', NEW b \in Bufs, FreeBuffer(b)
    PROVE  CInv'
  <1>1. Frees(bufs')
    BY DEF FreeBuffer, Frees, RInv, TypeInv
  <1>2. QED
    BY <1>1, DropContents DEF FreeBuffer

LEMMA MapFailsContents ==
    ASSUME RInv, CInv, RInv', NEW m \in maps, MapFails(m)
    PROVE  CInv'
  <1>1. Frees(bufs')
    BY DEF MapFails, Frees
  <1>2. QED
    BY <1>1, DropContents DEF MapFails

LEMMA ReleaseShimContents ==
    ASSUME RInv, CInv, RInv', NEW s \in shims, ReleaseShim(s)
    PROVE  CInv'
  <1>1. Frees(bufs')
    BY DEF ReleaseShim, Frees
  <1>2. QED
    BY <1>1, DropContents DEF ReleaseShim

-----------------------------------------------------------------------------
(* The application: Run, and the mapping of buffers *)

\* While no request is being queued, chunks are added.
LEMMA GrowContents ==
    ASSUME RInv, CInv, Idle, UNCHANGED events, Grown(chunks', cache'), Ensured(chunks', bufs')
    PROVE  /\ \A c \in DOMAIN chunks' :
                 \/ c \in DOMAIN chunks /\ chunks'[c] = chunks[c]
                 \/ chunks'[c].want = None /\ chunks'[c].hal \notin InUse
           /\ Failed' = Failed
           /\ \A x \in maps \cup views : chunks'[x.chunk] = chunks[x.chunk]
           /\ \A b \in Bufs : bufs'[b] # NoChunk /\ chunks'[bufs'[b]].want \in Failed =>
                 chunks'[bufs'[b]].want \in chunks'[bufs'[b]].pending
  <1>1. NoneDangles /\ None \notin Failed
    BY OwnersRefer, NoneIsNoOperation DEF RInv, Failed
  <1>2. \A c \in DOMAIN chunks' :
           \/ c \in DOMAIN chunks /\ chunks'[c] = chunks[c]
           \/ c \notin DOMAIN chunks /\ chunks'[c].want = None /\ chunks'[c].hal \notin InUse
    <2>1. \A c \in DOMAIN chunks' \ DOMAIN chunks : chunks'[c].hal \notin InUse
      BY GrownIsFree DEF RInv
    <2>2. QED
      BY <2>1 DEF Grown
  <1>3. \A x \in maps \cup views : chunks'[x.chunk] = chunks[x.chunk]
    BY <1>1 DEF Grown, NoneDangles
  <1>4. ASSUME NEW b \in Bufs, bufs'[b] # NoChunk, chunks'[bufs'[b]].want \in Failed
        PROVE  chunks'[bufs'[b]].want \in chunks'[bufs'[b]].pending
    <2>1. bufs'[b] \in DOMAIN chunks' /\ (Bound(b) \/ bufs'[b] \notin DOMAIN chunks)
      BY <1>4 DEF Ensured
    <2>2. Bound(b)
      BY <1>1, <1>2, <1>4, <2>1
    <2>3. bufs'[b] = bufs[b] /\ bufs[b] \in DOMAIN chunks
      BY <1>1, <2>2 DEF Ensured, NoneDangles
    <2>4. chunks'[bufs'[b]] = chunks[bufs[b]]
      BY <1>2, <2>1, <2>3
    <2>5. DOMAIN req.alloc = {}
      BY DEF Idle, NoReq
    <2>6. QED
      BY <1>4, <2>2, <2>4, <2>5 DEF CInv, FailInv
  <1>5. Failed' = Failed
    BY DEF Failed
  <1>6. QED
    BY <1>2, <1>3, <1>4, <1>5

\* No request has nothing to say about what its allocs hold.
LEMMA IdleContents ==
    ASSUME Idle'
    PROVE  DOMAIN req'.alloc = {} /\ ReqWantInv'
  <1>1. DOMAIN req'.alloc = {}
    BY DEF Idle, NoReq
  <1>2. QED
    BY <1>1 DEF ReqWantInv

LEMMA MapCurrentContents ==
    ASSUME RInv, CInv, RInv', NEW b \in Bufs, MapCurrent(b)
    PROVE  CInv'
  <1> DEFINE t == EnsureChunk(Current, b)
             c == t.bufs[b]
             m == [buf |-> b, chunk |-> c, deps |-> t.chunks[c].pending]
  <1>1. Grown(t.chunks, cache) /\ Ensured(t.chunks, t.bufs) /\ c \in DOMAIN t.chunks
    BY MemoryPart, CurrentEnsured DEF MInv, MapCurrent, MayMap
  <1> HIDE DEF t
  <1>2. /\ chunks' = t.chunks /\ bufs' = t.bufs /\ maps' = maps \cup {m}
        /\ UNCHANGED <<cache, events, mem, req, views>> /\ Idle
    BY DEF MapCurrent, t
  <1>3. c # NoChunk
    BY <1>1, Bounds DEF Grown
  <1>4. m.chunk = c /\ c = bufs'[b] /\ m.deps = chunks'[bufs'[b]].pending /\ bufs'[b] # NoChunk
    BY <1>2, <1>3
  <1> HIDE DEF c, m
  <1>5. Grown(chunks', cache') /\ Ensured(chunks', bufs')
    BY <1>1, <1>2
  <1>6. /\ \A d \in DOMAIN chunks' :
              \/ d \in DOMAIN chunks /\ chunks'[d] = chunks[d]
              \/ chunks'[d].want = None /\ chunks'[d].hal \notin InUse
        /\ Failed' = Failed
        /\ \A x \in maps \cup views : chunks'[x.chunk] = chunks[x.chunk]
        /\ \A d \in Bufs : bufs'[d] # NoChunk /\ chunks'[bufs'[d]].want \in Failed =>
              chunks'[bufs'[d]].want \in chunks'[bufs'[d]].pending
    BY <1>2, <1>5, GrowContents
  <1>7. \A d : HostWriting(d)' = HostWriting(d)
    BY <1>2 DEF HostWriting
  <1>8. WantInv' /\ ReadInv' /\ NoMisread'
    BY <1>2, <1>6, <1>7, QuietContents
  <1>9. DOMAIN req'.alloc = {} /\ ReqWantInv'
    BY <1>2, IdleContents DEF Idle
  <1>10. FailInv'
    BY <1>2, <1>4, <1>6, <1>9 DEF CInv, FailInv, Bound
  <1>11. MapSeesLogical'
    BY <1>2, <1>6 DEF CInv, MapSeesLogical
  <1>12. QED
    BY <1>8, <1>9, <1>10, <1>11 DEF CInv

LEMMA MapDiscardContents ==
    ASSUME RInv, OInv, CInv, RInv', OInv', NEW b \in Bufs, MapDiscard(b)
    PROVE  CInv'
  <1> DEFINE t == EnsureChunk(Current, b)
  <1>c. PICK c : c = t.bufs[b]
    OBVIOUS
  <1> DEFINE v == [buf |-> b, chunk |-> c, seen |-> None, wrote |-> TRUE]
  <1>1. Grown(t.chunks, cache) /\ Ensured(t.chunks, t.bufs) /\ c \in DOMAIN t.chunks
    BY <1>c, MemoryPart, CurrentEnsured DEF MInv, MapDiscard, MayMap
  <1> HIDE DEF t
  <1>2. /\ chunks' = t.chunks /\ bufs' = t.bufs /\ views' = views \cup {v}
        /\ mem' = [mem EXCEPT ![t.chunks[c].hal] = Torn]
        /\ UNCHANGED <<cache, events, req, maps>> /\ Idle
    BY <1>c DEF MapDiscard, t
  <1>3. v.chunk = c /\ v.wrote /\ mem' = [mem EXCEPT ![chunks'[c].hal] = Torn] /\ c \in DOMAIN chunks'
    BY <1>1, <1>2
  <1> HIDE DEF v
  <1>4. Grown(chunks', cache') /\ Ensured(chunks', bufs')
    BY <1>1, <1>2
  <1>5. /\ \A d \in DOMAIN chunks' :
              \/ d \in DOMAIN chunks /\ chunks'[d] = chunks[d]
              \/ chunks'[d].want = None /\ chunks'[d].hal \notin InUse
        /\ Failed' = Failed
        /\ \A x \in maps \cup views : chunks'[x.chunk] = chunks[x.chunk]
        /\ \A d \in Bufs : bufs'[d] # NoChunk /\ chunks'[bufs'[d]].want \in Failed =>
              chunks'[bufs'[d]].want \in chunks'[bufs'[d]].pending
    BY <1>2, <1>4, GrowContents
  <1>6. (\A d : HostWriting(d) => HostWriting(d)') /\ HostWriting(c)'
    BY <1>2, <1>3 DEF HostWriting
  <1>7. ASSUME NEW h \in Hals
        PROVE  \/ mem'[h] = mem[h]
               \/ /\ \A d \in DOMAIN chunks' : chunks'[d].hal = h => HostWriting(d)'
                  /\ \A d \in Busy : h \notin Reads(d)
    <2>1. CASE h # chunks'[c].hal
      BY <1>3, <2>1 DEF RInv, TypeInv
    <2>2. CASE h = chunks'[c].hal
      <3>1. \A d \in DOMAIN chunks' : chunks'[d].hal = h => d = c
        BY <1>3, <2>2 DEF RInv, HalInv, OwnerInv
      <3>2. Busy' = Busy /\ \A d \in Busy : Reads(d)' = Reads(d)
        BY <1>2 DEF Busy, Finished, Reads
      <3>3. \A d \in Busy : h \notin Reads(d)
        BY <1>2, <1>3, <2>2, <3>2 DEF OInv, MapInv
      <3>4. QED
        BY <1>6, <3>1, <3>3
    <2>3. QED
      BY <2>1, <2>2
  <1>8. WantInv' /\ ReadInv' /\ NoMisread'
    BY <1>2, <1>5, <1>6, <1>7, QuietContents
  <1>9. DOMAIN req'.alloc = {} /\ ReqWantInv'
    BY <1>2, IdleContents DEF Idle
  <1>10. FailInv'
    BY <1>2, <1>5, <1>9 DEF CInv, FailInv, Bound
  <1>11. MapSeesLogical'
    BY <1>2, <1>3, <1>5 DEF CInv, MapSeesLogical
  <1>12. QED
    BY <1>8, <1>9, <1>10, <1>11 DEF CInv

\* The view shows what the chunk wants: all that its memory waited for has succeeded.
LEMMA MapReadyContents ==
    ASSUME RInv, OInv, CInv, RInv', NEW m \in maps, MapReady(m)
    PROVE  CInv'
  <1> DEFINE h == chunks[m.chunk].hal
             w == chunks[m.chunk].want
             v == [buf |-> m.buf, chunk |-> m.chunk, seen |-> mem[chunks[m.chunk].hal], wrote |-> FALSE]
  <1>1. /\ maps' = maps \ {m} /\ views' = views \cup {v} /\ m.deps \subseteq Finished \ Failed
        /\ UNCHANGED <<bufs, chunks, events, mem, req>>
        /\ v.chunk = m.chunk /\ ~v.wrote /\ v.seen = mem[h]
    BY DEF MapReady
  <1> HIDE DEF v
  <1>2. m.chunk \in DOMAIN chunks
    BY OwnersRefer DEF RInv, NoneDangles
  <1>3. ASSUME w # None
        PROVE  mem[h] = w
    <2>1. Settled(h, w, Busy) /\ (Done(w) /\ ~HostWriting(m.chunk) => mem[h] = w)
      BY <1>2, <1>3 DEF CInv, WantInv
    <2>2. w \notin Busy
      BY <1>1, <2>1 DEF OInv, MapInv, Settled, Busy
    <2>3. w \notin Failed
      BY <1>1 DEF CInv, FailInv
    <2>4. Done(w)
      BY <2>1, <2>2, <2>3 DEF Settled, Done, Busy, Finished, Failed
    <2>5. ~HostWriting(m.chunk)
      BY Bounds DEF HostWriting, OInv, BufInv, Bound, RInv, TypeInv, Map, View
    <2>6. QED
      BY <2>1, <2>4, <2>5
  <1>4. \A d : HostWriting(d) => HostWriting(d)'
    BY <1>1 DEF HostWriting
  <1>5. WantInv' /\ ReadInv' /\ NoMisread'
    BY <1>1, <1>4, QuietContents
  <1>6. Failed' = Failed /\ \A i, e : WroteTmp(i, e)' = WroteTmp(i, e)
    BY <1>1 DEF Failed, WroteTmp, Out
  <1>7. FailInv' /\ ReqWantInv'
    BY <1>1, <1>6 DEF CInv, FailInv, ReqWantInv, Bound
  <1>8. MapSeesLogical'
    BY <1>1, <1>3 DEF CInv, MapSeesLogical
  <1>9. QED
    BY <1>5, <1>7, <1>8 DEF CInv

LEMMA HostWritesContents ==
    ASSUME RInv, OInv, CInv, RInv', OInv', NEW v \in views, HostWrites(v)
    PROVE  CInv'
  <1> DEFINE w == [v EXCEPT !.wrote = TRUE]
             c == v.chunk
  <1>1. /\ views' = (views \ {v}) \cup {w} /\ ~v.wrote
        /\ mem' = [mem EXCEPT ![chunks[c].hal] = Torn]
        /\ UNCHANGED <<bufs, chunks, events, req, maps>>
    BY DEF HostWrites
  <1>2. w.chunk = c /\ w.wrote
    BY DEF RInv, TypeInv, View
  <1> HIDE DEF w
  <1>3. (\A d : HostWriting(d) => HostWriting(d)') /\ HostWriting(c)'
    BY <1>1, <1>2 DEF HostWriting
  <1>4. ASSUME NEW h \in Hals
        PROVE  \/ mem'[h] = mem[h]
               \/ /\ \A d \in DOMAIN chunks' : chunks'[d].hal = h => HostWriting(d)'
                  /\ \A d \in Busy : h \notin Reads(d)
    <2>1. CASE h # chunks[c].hal
      BY <1>1, <2>1 DEF RInv, TypeInv
    <2>2. CASE h = chunks[c].hal
      <3>0. c \in DOMAIN chunks
        BY OwnersRefer DEF RInv, NoneDangles
      <3>1. \A d \in DOMAIN chunks' : chunks'[d].hal = h => d = c
        BY <1>1, <2>2, <3>0 DEF RInv, HalInv, OwnerInv
      <3>2. Busy' = Busy /\ \A d \in Busy : Reads(d)' = Reads(d)
        BY <1>1 DEF Busy, Finished, Reads
      <3>3. \A d \in Busy : h \notin Reads(d)
        BY <1>1, <1>2, <2>2, <3>2 DEF OInv, MapInv
      <3>4. QED
        BY <1>3, <3>1, <3>3
    <2>3. QED
      BY <2>1, <2>2
  <1>5. WantInv' /\ ReadInv' /\ NoMisread'
    BY <1>1, <1>3, <1>4, QuietContents
  <1>6. Failed' = Failed /\ \A i, e : WroteTmp(i, e)' = WroteTmp(i, e)
    BY <1>1 DEF Failed, WroteTmp, Out
  <1>7. FailInv' /\ ReqWantInv'
    BY <1>1, <1>6 DEF CInv, FailInv, ReqWantInv, Bound
  <1>8. MapSeesLogical'
    BY <1>1, <1>2 DEF CInv, MapSeesLogical
  <1>9. QED
    BY <1>5, <1>7, <1>8 DEF CInv

LEMMA StartRunContents ==
    ASSUME RInv, CInv, RInv', NEW call \in Calls, StartRun(call)
    PROVE  CInv'
  <1> DEFINE s == BuildChunkMap(call)
  <1>1. Memory(s, 0) /\ Placed(s, call.allocs) /\ Len(s.alloc) = Len(call.allocs)
    BY MemoryPart, ChunkMapBuilt DEF MInv, StartRun
  <1> HIDE DEF s
  <1>2. /\ chunks' = s.chunks /\ cache' = s.cache /\ bufs' = s.bufs
        /\ req' = [call |-> call, step |-> 1, alloc |-> s.alloc,
                   want |-> [i \in DOMAIN s.alloc |-> s.chunks[s.alloc[i]].want],
                   event |-> <<>>, terminal |-> {}]
        /\ UNCHANGED <<events, mem, maps, views>> /\ Idle
    BY DEF StartRun, s
  <1>3. Grown(chunks', cache') /\ Ensured(chunks', bufs')
    BY <1>1, <1>2 DEF Memory
  <1>4. /\ \A d \in DOMAIN chunks' :
              \/ d \in DOMAIN chunks /\ chunks'[d] = chunks[d]
              \/ chunks'[d].want = None /\ chunks'[d].hal \notin InUse
        /\ Failed' = Failed
        /\ \A x \in maps \cup views : chunks'[x.chunk] = chunks[x.chunk]
        /\ \A d \in Bufs : bufs'[d] # NoChunk /\ chunks'[bufs'[d]].want \in Failed =>
              chunks'[bufs'[d]].want \in chunks'[bufs'[d]].pending
    BY <1>2, <1>3, GrowContents
  <1>5. \A d : HostWriting(d)' = HostWriting(d)
    BY <1>2 DEF HostWriting
  <1>6. WantInv' /\ ReadInv' /\ NoMisread'
    BY <1>2, <1>4, <1>5, QuietContents
  <1>7. /\ req'.alloc = s.alloc
        /\ \A i \in DOMAIN s.alloc : req'.want[i] = chunks'[s.alloc[i]].want
    BY <1>2
  <1>8. ReqWantInv'
    BY <1>7 DEF ReqWantInv
  <1>9. ASSUME NEW i \in DOMAIN s.alloc, NEW w, w = chunks'[s.alloc[i]].want, w \in Failed
        PROVE  w \in chunks'[s.alloc[i]].pending
    <2>1. /\ i \in 1..Len(s.alloc) /\ s.alloc[i] \in DOMAIN chunks' /\ s.alloc[i] # NoChunk
          /\ call.allocs \in Seq(Alloc)
      BY <1>1, <1>2, Bounds, RuntimeAssumption DEF Placed
    <2>2. call.allocs[i] \in Alloc
      BY <1>1, <2>1
    <2>3. s.alloc[i] \in DOMAIN chunks
      <3>1. w # None
        BY <1>9, NoneIsNoOperation DEF RInv, Failed
      <3>2. QED
        BY <1>1, <1>3, <1>9, <2>1, <3>1 DEF Grown
    <2>4. call.allocs[i].in # NoBuf /\ call.allocs[i].in \in Bufs
      BY <1>1, <2>1, <2>2, <2>3 DEF Placed, Alloc
    <2>5. bufs'[call.allocs[i].in] = s.alloc[i]
      BY <1>1, <1>2, <2>1, <2>4 DEF Placed
    <2>6. QED
      BY <1>4, <1>9, <2>1, <2>4, <2>5
  <1>10. FailInv'
    BY <1>2, <1>4, <1>7, <1>9 DEF CInv, FailInv, Bound
  <1>11. MapSeesLogical'
    BY <1>2, <1>4 DEF CInv, MapSeesLogical
  <1>12. QED
    BY <1>6, <1>8, <1>10, <1>11 DEF CInv

LEMMA LaunchSucceedsContents ==
    ASSUME RInv, OInv, CInv, RInv', LaunchSucceeds
    PROVE  CInv'
  <1>1. /\ ~Idle /\ req' = NoReq
        /\ bufs' = [b \in Bufs |-> IF b \in Outputs(req.call) THEN req.alloc[LastAlloc(b)] ELSE bufs[b]]
        /\ \A c \in DOMAIN chunks' : c \in DOMAIN chunks /\ chunks'[c] = chunks[c]
        /\ UNCHANGED <<events, mem, maps, views>>
    BY DEF LaunchSucceeds, DropTo
  <1>2. /\ req \in Request /\ Len(req.alloc) = Len(req.call.allocs) /\ req.call \in Calls
        /\ req.call.allocs \in Seq(Alloc) /\ req.alloc \in Seq(ChunkIds)
    BY <1>1, RuntimeAssumption DEF RInv, TypeInv, ReqTyped, Request
  <1>3. DOMAIN req.alloc = DOMAIN req.call.allocs
    BY <1>2
  <1>4. NoneDangles'
    BY OwnersReferNext
  <1>5. ASSUME NEW b \in Bufs, b \in Outputs(req.call)
        PROVE  \E i \in DOMAIN req.alloc : Out(i) # NoBuf /\ req.alloc[i] = bufs'[b]
    <2>1. LastAlloc(b) \in DOMAIN req.alloc /\ req.call.allocs[LastAlloc(b)].out = b
      BY <1>1, <1>5, MemoryPart, LastAllocBound
    <2>2. bufs'[b] = req.alloc[LastAlloc(b)] /\ b # NoBuf
      BY <1>1, <1>5 DEF Outputs
    <2>3. QED
      BY <2>1, <2>2 DEF Out
  <1>6. Failed' = Failed /\ \A c : HostWriting(c)' = HostWriting(c)
    BY <1>1 DEF Failed, HostWriting
  <1>7. WantInv' /\ ReadInv' /\ NoMisread'
    BY <1>1, <1>6, QuietContents
  <1>8. DOMAIN req'.alloc = {} /\ ReqWantInv'
    BY <1>1, IdleContents DEF Idle
  <1>9. MapSeesLogical'
    BY <1>1, <1>4 DEF CInv, MapSeesLogical, NoneDangles
  <1>10. ASSUME NEW b \in Bufs, bufs'[b] # NoChunk, chunks'[bufs'[b]].want \in Failed
         PROVE  chunks'[bufs'[b]].want \in chunks'[bufs'[b]].pending
    <2>1. bufs'[b] \in DOMAIN chunks /\ chunks'[bufs'[b]] = chunks[bufs'[b]]
      BY <1>1, <1>4, <1>10 DEF NoneDangles, Bound
    <2>2. CASE b \in Outputs(req.call)
      <3>1. PICK i \in DOMAIN req.alloc : Out(i) # NoBuf /\ req.alloc[i] = bufs'[b]
        BY <1>5, <2>2
      <3>2. QED
        BY <1>10, <2>1, <3>1 DEF CInv, FailInv, WroteTmp
    <2>3. CASE b \notin Outputs(req.call)
      <3>1. Bound(b) /\ bufs'[b] = bufs[b]
        BY <1>1, <1>10, <2>3 DEF Bound
      <3>2. ASSUME NEW i \in DOMAIN req.alloc, i \in WrittenAllocs(req.call), req.alloc[i] = bufs[b]
            PROVE  FALSE
        <4>1. In(i) # NoBuf
          BY <3>1, <3>2 DEF OInv, AllocInv
        <4>2. In(i) \in Bufs /\ bufs[In(i)] = bufs[b]
          BY <3>2, <4>1, RequestAllocs DEF OInv, AllocInv, RInv
        <4>3. In(i) = b
          BY <3>1, <4>2 DEF OInv, BufInv, Bound
        <4>4. \E o \in DOMAIN req.call.allocs : req.call.allocs[o].out = In(i)
          BY <1>2, <1>3, <3>2, <4>1, BindingAssumption DEF In
        <4>5. QED
          BY <2>3, <4>1, <4>3, <4>4 DEF Outputs
      <3>3. QED
        BY <1>10, <2>1, <3>1, <3>2 DEF CInv, FailInv
    <2>4. QED
      BY <2>2, <2>3
  <1>11. FailInv'
    <2>1. \A m \in maps : chunks'[m.chunk] = chunks[m.chunk]
      BY <1>1, <1>4 DEF NoneDangles
    <2>2. QED
      BY <1>1, <1>6, <1>8, <1>10, <2>1 DEF CInv, FailInv, Bound
  <1>12. QED
    BY <1>7, <1>8, <1>9, <1>11 DEF CInv

-----------------------------------------------------------------------------
(* An operation is given to the device *)

\* Operation n is added; the chunks that it writes want it from now on.
LEMMA AddContents ==
    ASSUME RInv, CInv, RInv', NEW n \in Nat, n # None, Adds(n), UNCHANGED <<bufs, mem, maps>>,
           \A c \in DOMAIN chunks' :
              \/ chunks'[c].want = n /\ chunks[c].hal \in Writes(n)'
              \/ /\ chunks'[c].want = chunks[c].want /\ chunks[c].hal \notin Writes(n)'
                 /\ HostWriting(c) => HostWriting(c)',
           req'.alloc = req.alloc, req'.call = req.call,
           \A k \in DOMAIN req.event : k \in DOMAIN req'.event /\ req'.event[k] = req.event[k]
    PROVE  /\ WantInv' /\ FailInv' /\ NoMisread'
           /\ (\A r \in events'[n].reads : r[2] # None => Finds(n, r[1], r[2])') => ReadInv'
  <1>1. /\ Busy' = Busy \cup {n} /\ n \notin Busy /\ Failed' = Failed /\ n \notin Failed /\ ~Done(n)'
        /\ \A d \in Busy : d \in DOMAIN events /\ Writes(d)' = Writes(d) /\ Reads(d)' = Reads(d)
        /\ \A d \in DOMAIN events : d < n /\ d # n /\ ~(n < d) /\ Done(d)' = Done(d)
        /\ n \in DOMAIN events'
    BY DEF Adds, Busy, Finished, Failed, Writes, Reads, Done
  <1>2. \A c \in DOMAIN chunks' : c \in DOMAIN chunks /\ chunks'[c].hal = chunks[c].hal
    BY DEF Adds
  <1>3. ASSUME NEW h, NEW w, NEW D \in SUBSET Busy, Settled(h, w, D)
        PROVE  Settled(h, w, D)' /\ (Done(w)' => Done(w)) /\ w < n /\ w # n
    <2>1. w \in DOMAIN events /\ w \in DOMAIN events'
      BY <1>3 DEF Settled, Adds
    <2>2. QED
      BY <1>1, <1>3, <2>1 DEF Settled
  <1>4. WantInv'
    <2> SUFFICES ASSUME NEW c \in DOMAIN chunks', NEW h, NEW w, h = chunks'[c].hal, w = chunks'[c].want
                 PROVE  /\ \A d \in Busy' : h \in Writes(d)' => d <= w
                        /\ w # None => Settled(h, w, Busy)'
                        /\ w # None /\ Done(w)' /\ ~HostWriting(c)' => mem[h] = w
      BY DEF WantInv
    <2>1. CASE w = n /\ h \in Writes(n)'
      <3>1. \A d \in Busy' : d <= w
        BY <1>1, <2>1, NoneIsNoOperation DEF RInv
      <3>2. Settled(h, w, Busy)'
        BY <1>1, <2>1 DEF Settled
      <3>3. QED
        BY <1>1, <2>1, <3>1, <3>2
    <2>2. CASE w = chunks[c].want /\ h \notin Writes(n)' /\ (HostWriting(c) => HostWriting(c)')
      <3>1. /\ \A d \in Busy : h \in Writes(d) => d <= w
            /\ w # None => Settled(h, w, Busy)
            /\ w # None /\ Done(w) /\ ~HostWriting(c) => mem[h] = w
        BY <1>2, <2>2 DEF CInv, WantInv
      <3>2. \A d \in Busy' : h \in Writes(d)' => d <= w
        BY <1>1, <2>2, <3>1
      <3>3. ASSUME w # None
            PROVE  Settled(h, w, Busy)' /\ (Done(w)' => Done(w))
        <4>0. PICK D : D = Busy
          OBVIOUS
        <4>1. Settled(h, w, D)' /\ Settled(h, w, D) /\ w # n /\ (Done(w)' => Done(w))
          BY <1>3, <3>1, <3>3, <4>0
        <4>2. \A d \in Busy : Done(w)' => h \notin Writes(d)
          BY <4>0, <4>1 DEF Settled
        <4>3. \A d \in Busy' : Done(w)' => h \notin Writes(d)'
          BY <1>1, <2>2, <4>2
        <4>4. QED
          BY <1>1, <2>2, <4>0, <4>1, <4>3 DEF Settled
      <3>4. QED
        BY <2>2, <3>1, <3>2, <3>3
    <2>3. QED
      BY <1>2, <2>1, <2>2
  <1>5. FailInv'
    <2>1. \A c \in DOMAIN chunks' : chunks'[c].want \in Failed =>
             chunks'[c].want = chunks[c].want /\ chunks[c].pending \subseteq chunks'[c].pending
      BY <1>1 DEF Adds
    <2>2. NoneDangles'
      BY OwnersReferNext
    <2>3. \A i, e : WroteTmp(i, e) => WroteTmp(i, e)'
      BY DEF WroteTmp, Out
    <2>4. ASSUME NEW b \in Bufs, Bound(b), chunks'[bufs[b]].want \in Failed
          PROVE  \/ chunks'[bufs[b]].want \in chunks'[bufs[b]].pending
                 \/ \E i \in DOMAIN req.alloc : i \in WrittenAllocs(req.call) /\ req.alloc[i] = bufs[b]
      <3>1. bufs[b] \in DOMAIN chunks'
        BY <2>2, <2>4 DEF NoneDangles, Bound
      <3>2. QED
        BY <2>1, <2>4, <3>1 DEF CInv, FailInv
    <2>5. ASSUME NEW i \in DOMAIN req.alloc, NEW w, w = chunks'[req.alloc[i]].want, w \in Failed
          PROVE  w \in chunks'[req.alloc[i]].pending \/ WroteTmp(i, w)'
      <3>1. req.alloc[i] \in DOMAIN chunks'
        BY <2>2 DEF NoneDangles, ReqChunks
      <3>2. w \in chunks[req.alloc[i]].pending \/ WroteTmp(i, w)
        BY <2>1, <2>5, <3>1 DEF CInv, FailInv
      <3>3. QED
        BY <2>1, <2>3, <2>5, <3>1, <3>2
    <2>6. ASSUME NEW m \in maps, chunks'[m.chunk].want \in Failed
          PROVE  chunks'[m.chunk].want \in m.deps
      <3>1. m.chunk \in DOMAIN chunks'
        BY <2>2 DEF NoneDangles
      <3>2. QED
        BY <2>1, <2>6, <3>1 DEF CInv, FailInv
    <2>7. QED
      BY <1>1, <2>4, <2>5, <2>6 DEF FailInv, Bound
  <1>6. NoMisread'
    BY DEF CInv, NoMisread, Adds
  <1>7. ASSUME \A r \in events'[n].reads : r[2] # None => Finds(n, r[1], r[2])'
        PROVE  ReadInv'
    <2> SUFFICES ASSUME NEW e \in Busy, NEW r \in events[e].reads, r[2] # None
                 PROVE  Finds(e, r[1], r[2])'
      <3>1. \A e \in Busy : events'[e].reads = events[e].reads
        BY DEF Adds, Busy
      <3>2. QED
        BY <1>1, <1>7, <3>1 DEF ReadInv
    <2>1. Finds(e, r[1], r[2])
      BY DEF CInv, ReadInv
    <2>d. PICK D : D = {d \in Busy : d < e}
      OBVIOUS
    <2>2. {d \in Busy' : d < e} = D
      BY <1>1, <2>d
    <2>3. Settled(r[1], r[2], D)' /\ (Done(r[2])' => Done(r[2])) /\ r[2] \in DOMAIN events
      <3>1. D \in SUBSET Busy /\ Settled(r[1], r[2], D)
        BY <2>1, <2>d DEF Finds
      <3>2. r[2] \in DOMAIN events
        BY <3>1 DEF Settled
      <3>3. QED
        BY <1>3, <3>1, <3>2
    <2>4. Follows(events', r[2], e)
      BY <2>1, <2>3, FollowsNew DEF Finds, Adds
    <2>5. events'[e] = events[e] /\ Writes(e)' = Writes(e)
      BY <1>1 DEF Adds
    <2>6. \A d \in Busy' : d < e /\ r[1] \in Writes(d)' => d <= r[2]
      BY <1>1, <2>1 DEF Finds
    <2>7. QED
      BY <2>1, <2>2, <2>3, <2>4, <2>5, <2>6 DEF Finds
  <1>8. QED
    BY <1>4, <1>5, <1>6, <1>7

\* The request has for every alloc what the step is to read.
LEMMA StepReads ==
    ASSUME SeparateInputs, RInv, OInv, CInv, req.step \in DOMAIN req.call.steps,
           NEW i \in Step.ins, NEW w, w = req.want[i], w # None
    PROVE  /\ w \in DOMAIN events
           /\ events[w].st = "done" \/ Comes(w)
           /\ Settled(chunks[req.alloc[i]].hal, w, Busy)
           /\ \A d \in Busy : chunks[req.alloc[i]].hal \in Writes(d) => d <= w
           /\ Done(w) => mem[chunks[req.alloc[i]].hal] = w
  <1>0. MInv /\ BInv
    BY MemoryPart DEF OInv, BInv
  <1>1. /\ ~Idle /\ req \in Request /\ req.step \in 1..Len(req.call.steps)
        /\ i \in DOMAIN req.alloc
    BY <1>0, CurrentStep
  <1>2. req.call \in Calls /\ req.event \in Seq(1..MaxEvents) /\ req.step = Len(req.event) + 1
    BY <1>1 DEF Request, RInv, TypeInv, ReqTyped
  <1> DEFINE c == req.alloc[i]
             h == chunks[c].hal
  <1>3. c \in DOMAIN chunks /\ w = chunks[c].want
    BY <1>1, OwnersRefer DEF RInv, NoneDangles, ReqChunks, CInv, ReqWantInv
  <1>4. ~HostWriting(c)
    BY <1>0, <1>1, MappedApart DEF HostWriting
  <1>5. /\ Settled(h, w, Busy) /\ (Done(w) => mem[h] = w)
        /\ \A d \in Busy : h \in Writes(d) => d <= w
    BY <1>3, <1>4 DEF CInv, WantInv
  <1>6. w \in DOMAIN events /\ (w \in Busy => h \in Writes(w))
    BY <1>5 DEF Settled
  <1>7. ASSUME w \in Busy PROVE Comes(w)
    BY <1>6, <1>7, StepConflicts
  <1>8. ASSUME w \in Failed PROVE Comes(w)
    <2>1. CASE w \in chunks[c].pending
      BY <2>1 DEF Comes, CurrentDeps, Pending, StepChunks
    <2>2. CASE WroteTmp(i, w)
      <3>1. PICK j \in DOMAIN req.event : w = req.event[j] /\ i \in req.call.steps[j].outs
        BY <2>2 DEF WroteTmp
      <3>2. j \in 1..(req.step - 1) /\ Conflict(req.call.steps[j], Step)
        BY <1>2, <3>1 DEF Conflict
      <3>3. WaitsFor(req.call, j, req.step)
        BY <1>2, <3>2, ScheduleAssumption DEF Step
      <3>4. QED
        BY <3>1, <3>3, WaitsForNext
    <2>3. QED
      BY <1>1, <1>3, <1>8, <2>1, <2>2 DEF CInv, FailInv
  <1>9. QED
    BY <1>5, <1>6, <1>7, <1>8 DEF Busy, Finished, Failed

\* What LaunchStep does to the contents that are expected, beside Launches.
Wants(n) ==
    /\ UNCHANGED mem
    /\ \A c \in DOMAIN chunks : chunks'[c].want = IF chunks[c].hal \in Writes(n)' THEN n ELSE chunks[c].want
    /\ \A i \in DOMAIN req.alloc : req'.want[i] = IF i \in Step.outs THEN n ELSE req.want[i]
    /\ \A r \in events'[n].reads : \E i \in Step.ins : r[1] = chunks[req.alloc[i]].hal /\ r[2] = req.want[i]

LEMMA StepWants ==
    ASSUME RInv, LaunchStep
    PROVE  \E n \in Nat : n # None /\ Launches(n) /\ Wants(n)
  <1>1. Len(events) \in Nat /\ DOMAIN events = 1..Len(events) /\ events \in Seq(Event)
    BY DEF RInv, TypeInv
  <1>2. PICK n \in Nat : Launches(n)
    BY StepLaunches
  <1>3. n = Len(events) + 1 /\ n # None
    <2>1. DOMAIN events' = 1..(Len(events) + 1)
      BY <1>1 DEF LaunchStep
    <2>2. n \in DOMAIN events' /\ n \notin DOMAIN events
      BY <1>2 DEF Launches, Adds
    <2>3. QED
      BY <1>1, <2>1, <2>2 DEF None
  <1> DEFINE outs == {req.alloc[i] : i \in Step.outs}
             addDep(c) == \E i \in DOMAIN req.alloc : req.alloc[i] = c /\ req.call.allocs[i].out # NoBuf
             new == [deps |-> CurrentDeps,
                     reads |-> {<<chunks[req.alloc[i]].hal, req.want[i]>> : i \in Step.ins},
                     writes |-> {chunks[c].hal : c \in outs},
                     kernel |-> TRUE,
                     st |-> "waiting"]
  <1>4. /\ req.step \in DOMAIN req.call.steps
        /\ events' = Append(events, new)
        /\ chunks' = [c \in DOMAIN chunks |->
                        IF c \notin outs THEN chunks[c]
                        ELSE IF addDep(c) THEN AddReadDependency(c, n)
                        ELSE [chunks[c] EXCEPT !.want = n]]
        /\ req' = [req EXCEPT !.step = @ + 1,
                              !.event = Append(@, n),
                              !.want = [i \in DOMAIN @ |-> IF i \in Step.outs THEN n ELSE @[i]],
                              !.terminal = Terminal(n)]
        /\ UNCHANGED mem
    BY <1>3 DEF LaunchStep
  <1>5. /\ ~Idle /\ req \in Request
        /\ Step.ins \cup Step.outs \subseteq DOMAIN req.alloc
    BY <1>4, MemoryPart, CurrentStep
  <1>6. ReqChunks \subseteq DOMAIN chunks /\ \A c \in DOMAIN chunks : chunks[c] \in Chunk
    BY OwnersRefer DEF NoneDangles, RInv, TypeInv
  <1>7. events'[n] = new
    BY <1>1, <1>3, <1>4
  <1>8. \A r \in events'[n].reads : \E i \in Step.ins : r[1] = chunks[req.alloc[i]].hal /\ r[2] = req.want[i]
    BY <1>7
  <1>9. Writes(n)' = {chunks[c].hal : c \in outs}
    BY <1>7 DEF Writes
  <1> HIDE DEF new
  <1>10. \A i \in DOMAIN req.alloc : req'.want[i] = IF i \in Step.outs THEN n ELSE req.want[i]
    <2>1. /\ req.want \in Seq(Values) /\ req.alloc \in Seq(ChunkIds)
          /\ Len(req.want) = Len(req.call.allocs) /\ Len(req.alloc) = Len(req.call.allocs)
      BY <1>5 DEF Request, RInv, TypeInv, ReqTyped
    <2>2. DOMAIN req.want = DOMAIN req.alloc
      BY <2>1
    <2>3. req'.want = [i \in DOMAIN req.want |-> IF i \in Step.outs THEN n ELSE req.want[i]]
      BY <1>4, <1>5 DEF Request
    <2>4. QED
      BY <2>2, <2>3
  <1>11. ASSUME NEW c \in DOMAIN chunks
         PROVE  chunks'[c].want = IF chunks[c].hal \in Writes(n)' THEN n ELSE chunks[c].want
    <2>1. chunks[c].hal \in Writes(n)' <=> c \in outs
      <3>1. outs \subseteq DOMAIN chunks
        BY <1>5, <1>6 DEF ReqChunks
      <3> HIDE DEF outs
      <3>2. QED
        BY <1>9, <3>1 DEF RInv, HalInv, OwnerInv
    <2> HIDE DEF outs, addDep
    <2>2. CASE c \in outs /\ addDep(c)
      <3>1. chunks'[c] = AddReadDependency(c, n) /\ chunks[c] \in Chunk
        BY <1>4, <1>6, <2>2
      <3>2. QED
        BY <2>1, <2>2, <3>1 DEF AddReadDependency, Chunk
    <2>3. CASE c \in outs /\ ~addDep(c)
      <3>1. chunks'[c] = [chunks[c] EXCEPT !.want = n] /\ chunks[c] \in Chunk
        BY <1>4, <1>6, <2>3
      <3>2. QED
        BY <2>1, <2>3, <3>1 DEF Chunk
    <2>4. CASE c \notin outs
      BY <1>4, <2>1, <2>4
    <2>5. QED
      BY <2>2, <2>3, <2>4
  <1>12. QED
    BY <1>2, <1>3, <1>4, <1>8, <1>10, <1>11 DEF Wants

LEMMA LaunchStepContents ==
    ASSUME SeparateInputs, RInv, OInv, CInv, RInv', LaunchStep
    PROVE  CInv'
  <1>1. PICK n \in Nat : n # None /\ Launches(n) /\ Wants(n)
    BY StepWants
  <1>0. MInv /\ BInv
    BY MemoryPart DEF OInv, BInv
  <1>2. /\ req.step \in DOMAIN req.call.steps /\ ~Idle /\ req \in Request
        /\ Step.ins \cup Step.outs \subseteq DOMAIN req.alloc
    BY <1>0, CurrentStep DEF LaunchStep
  <1>3. /\ Adds(n) /\ req'.call = req.call /\ req'.alloc = req.alloc /\ req'.event = Append(req.event, n)
        /\ UNCHANGED <<bufs, maps, views, mem>> /\ DOMAIN chunks' = DOMAIN chunks
        /\ Writes(n)' = {chunks[req.alloc[i]].hal : i \in Step.outs}
    BY <1>1 DEF Launches, Wants
  <1>4. /\ req.event \in Seq(1..MaxEvents)
        /\ \A k \in DOMAIN req.event : k \in DOMAIN req'.event /\ req'.event[k] = req.event[k]
    BY <1>2, <1>3 DEF Request
  <1>5. \A c : HostWriting(c)' = HostWriting(c)
    BY <1>3 DEF HostWriting
  <1>6. /\ WantInv' /\ FailInv' /\ NoMisread'
        /\ (\A r \in events'[n].reads : r[2] # None => Finds(n, r[1], r[2])') => ReadInv'
    BY <1>1, <1>3, <1>4, <1>5, AddContents DEF Wants
  <1>7. /\ ReqChunks \subseteq DOMAIN chunks
        /\ \A x \in maps \cup views : x.chunk \in DOMAIN chunks
    BY OwnersRefer DEF RInv, NoneDangles
  <1>8. ReqWantInv'
    <2> SUFFICES ASSUME NEW i \in DOMAIN req.alloc
                 PROVE  req'.want[i] = chunks'[req.alloc[i]].want
      BY <1>3 DEF ReqWantInv
    <2>1. req.alloc[i] \in DOMAIN chunks
      BY <1>7 DEF ReqChunks
    <2>2. chunks[req.alloc[i]].hal \in Writes(n)' <=> i \in Step.outs
      <3>1. ASSUME chunks[req.alloc[i]].hal \in Writes(n)'
            PROVE  i \in Step.outs
        <4>1. PICK o \in Step.outs : chunks[req.alloc[o]].hal = chunks[req.alloc[i]].hal
          BY <1>3, <3>1
        <4>2. o \in WrittenAllocs(req.call) /\ o \in DOMAIN req.alloc
          BY <1>2 DEF WrittenAllocs, Step
        <4>3. QED
          BY <1>0, <4>1, <4>2, AllocsApart
      <3>2. QED
        BY <1>3, <3>1
    <2>3. QED
      BY <1>1, <2>1, <2>2 DEF Wants, CInv, ReqWantInv
  <1>9. MapSeesLogical'
    <2> SUFFICES ASSUME NEW v \in views PROVE chunks'[v.chunk].want = chunks[v.chunk].want
      BY <1>3 DEF CInv, MapSeesLogical
    <2>1. chunks[v.chunk].hal \notin Writes(n)'
      BY <1>0, <1>2, <1>3, MappedApart
    <2>2. QED
      BY <1>1, <1>7, <2>1 DEF Wants
  <1>10. ASSUME NEW r \in events'[n].reads, r[2] # None
         PROVE  Finds(n, r[1], r[2])'
    <2>1. PICK i \in Step.ins : r[1] = chunks[req.alloc[i]].hal /\ r[2] = req.want[i]
      BY <1>1 DEF Wants
    <2>2. PICK h : h = r[1]
      OBVIOUS
    <2>3. PICK w : w = r[2]
      OBVIOUS
    <2>4. /\ w \in DOMAIN events
          /\ events[w].st = "done" \/ Comes(w)
          /\ Settled(h, w, Busy)
          /\ \A d \in Busy : h \in Writes(d) => d <= w
          /\ Done(w) => mem[h] = w
      BY <1>2, <1>10, <2>1, <2>2, <2>3, StepReads
    <2>5. /\ DOMAIN events' = DOMAIN events \cup {n} /\ n \notin DOMAIN events
          /\ \A x \in DOMAIN events : events'[x] = events[x] /\ x < n /\ ~(n < n)
          /\ events'[n].st = "waiting" /\ events'[n].deps = CurrentDeps
      BY <1>1 DEF Launches, Adds
    <2>6. Follows(events', w, n)
      <3>1. CASE events[w].st = "done"
        BY <2>4, <2>5, <3>1 DEF Follows
      <3>2. CASE Comes(w)
        <4>1. w \in events'[n].deps \/ \E y \in events'[n].deps : Follows(events, w, y)
          BY <2>5, <3>2 DEF Comes
        <4>2. QED
          BY <2>4, <2>5, <4>1, FollowsNew
      <3>3. QED
        BY <2>4, <3>1, <3>2
    <2>7. /\ Busy' = Busy \cup {n}
          /\ \A d \in Busy : Writes(d)' = Writes(d) /\ d \in DOMAIN events
          /\ (Done(w)' => Done(w))
      BY <2>4, <2>5 DEF Busy, Finished, Writes, Done
    <2>8. {d \in Busy' : d < n} = Busy
      BY <2>5, <2>7
    <2>9. Settled(h, w, {d \in Busy : d < n})'
      <3>1. w \in DOMAIN events' /\ w # n /\ (w \in Busy => h \in Writes(w)')
        BY <2>4, <2>5, <2>7 DEF Settled
      <3>2. Done(w)' => \A d \in Busy : h \notin Writes(d)'
        BY <2>4, <2>7 DEF Settled
      <3>3. QED
        BY <2>7, <2>8, <3>1, <3>2 DEF Settled
    <2>10. Finds(n, h, w)'
      BY <1>3, <2>4, <2>5, <2>6, <2>7, <2>8, <2>9 DEF Finds
    <2>11. QED
      BY <2>2, <2>3, <2>10
  <1>11. QED
    BY <1>6, <1>8, <1>9, <1>10 DEF CInv

LEMMA WriteBackContents ==
    ASSUME RInv, OInv, CInv, RInv', NEW v \in views, WriteBack(v)
    PROVE  CInv'
  <1>1. Len(events) \in Nat /\ DOMAIN events = 1..Len(events) /\ events \in Seq(Event)
    BY DEF RInv, TypeInv
  <1>2. PICK n \in Nat : n = Len(events) + 1 /\ n # None
    BY <1>1 DEF None
  <1>3. PICK hal : hal = chunks[v.chunk].hal
    OBVIOUS
  <1> DEFINE new == [deps |-> {}, reads |-> {}, kernel |-> FALSE, st |-> "waiting",
                     writes |-> IF v.wrote THEN {hal} ELSE {}]
             chunk == [AddReadDependency(v.chunk, n) EXCEPT
                         !.want = IF v.wrote THEN n ELSE chunks[v.chunk].want]
             cs == Put(chunks, v.chunk, chunk)
  <1>4. /\ events' = Append(events, new) /\ views' = views \ {v}
        /\ UNCHANGED <<bufs, req, maps, mem>> /\ Idle
        /\ DOMAIN chunks' \subseteq DOMAIN cs /\ \A c \in DOMAIN chunks' : chunks'[c] = cs[c]
    BY <1>2, <1>3 DEF WriteBack, DropTo
  <1>5. v.chunk \in DOMAIN chunks /\ chunks[v.chunk] \in Chunk /\ v.buf \in Bufs /\ bufs[v.buf] = v.chunk
    BY OwnersRefer DEF RInv, TypeInv, NoneDangles, View, OInv, BufInv
  <1>6. /\ chunk.hal = hal /\ chunk.pending = chunks[v.chunk].pending \cup {n}
        /\ chunk.want = IF v.wrote THEN n ELSE chunks[v.chunk].want
    BY <1>3, <1>5 DEF AddReadDependency, Chunk
  <1> HIDE DEF chunk
  <1>7. \A c \in DOMAIN chunks' :
           /\ c \in DOMAIN chunks /\ chunks'[c].hal = chunks[c].hal
           /\ chunks[c].pending \subseteq chunks'[c].pending
           /\ chunks'[c].want = IF c = v.chunk /\ v.wrote THEN n ELSE chunks[c].want
    BY <1>3, <1>4, <1>5, <1>6 DEF Put
  <1>8. /\ DOMAIN events' = DOMAIN events \cup {n} /\ n \notin DOMAIN events
        /\ \A x \in DOMAIN events : events'[x] = events[x] /\ x < n /\ ~(n < x)
        /\ events'[n] = new
    BY <1>1, <1>2, <1>4
  <1>9. Adds(n)
    BY <1>2, <1>7, <1>8 DEF Adds
  <1>10. Writes(n)' = (IF v.wrote THEN {hal} ELSE {}) /\ events'[n].reads = {}
    BY <1>8 DEF Writes
  <1> HIDE DEF new, cs
  <1>11. ASSUME NEW c \in DOMAIN chunks'
         PROVE  \/ chunks'[c].want = n /\ chunks[c].hal \in Writes(n)'
                \/ /\ chunks'[c].want = chunks[c].want /\ chunks[c].hal \notin Writes(n)'
                   /\ HostWriting(c) => HostWriting(c)'
    <2>1. CASE c = v.chunk /\ v.wrote
      BY <1>3, <1>7, <1>10, <2>1
    <2>2. CASE c # v.chunk \/ ~v.wrote
      <3>1. chunks[c].hal \notin Writes(n)'
        BY <1>3, <1>5, <1>7, <1>10, <2>2 DEF RInv, HalInv, OwnerInv
      <3>2. HostWriting(c) => HostWriting(c)'
        BY <1>4, <2>2 DEF HostWriting
      <3>3. QED
        BY <1>7, <2>2, <3>1, <3>2
    <2>3. QED
      BY <2>1, <2>2
  <1>12. WantInv' /\ FailInv' /\ NoMisread' /\ ReadInv'
    BY <1>2, <1>4, <1>9, <1>10, <1>11, AddContents
  <1>13. ReqWantInv'
    BY <1>4, IdleContents DEF Idle
  <1>14. MapSeesLogical'
    <2> SUFFICES ASSUME NEW x \in views' PROVE x \in views /\ chunks'[x.chunk].want = chunks[x.chunk].want
      BY DEF CInv, MapSeesLogical
    <2>1. x \in views /\ x # v /\ x.buf \in Bufs /\ bufs[x.buf] = x.chunk /\ x.chunk # NoChunk
      BY <1>4, Bounds DEF OInv, BufInv, RInv, TypeInv, View
    <2>2. x.chunk # v.chunk
      BY <1>5, <2>1 DEF OInv, BufInv, Bound
    <2>3. x.chunk \in DOMAIN chunks'
      BY OwnersReferNext DEF NoneDangles
    <2>4. QED
      BY <1>7, <2>1, <2>2, <2>3
  <1>15. QED
    BY <1>12, <1>13, <1>14 DEF CInv

-----------------------------------------------------------------------------
(* The device *)

\* An operation that is on the device is alone with the memory that it touches, and what it
\* is to read was written in time.
LEMMA OnDevice ==
    ASSUME RInv, OInv, CInv, NEW x \in Busy,
           events[x].st \in Started \/ events[x].deps \subseteq Finished \ Failed
    PROVE  /\ \A d \in Busy : d < x => ~Clash(d, x)
           /\ \A r \in events[x].reads : r[2] # None => Done(r[2])
  <1>1. ASSUME NEW d \in DOMAIN events, Follows(events, d, x)
        PROVE  events[d].st = "done"
    <2> SUFFICES ASSUME events[d].st # "done" PROVE FALSE
      OBVIOUS
    <2>1. PICK E \in SUBSET DOMAIN events :
             /\ x \in E
             /\ \A y \in E : \/ events[y].st = "failed"
                             \/ events[y].st = "waiting" /\ (d \in events[y].deps \/ E \cap events[y].deps # {})
      BY <1>1 DEF Follows
    <2>2. events[x].st = "waiting" /\ (d \in events[x].deps \/ E \cap events[x].deps # {})
      BY <2>1 DEF Busy, Finished
    <2>3. \A y \in events[x].deps : events[y].st = "done"
      BY <2>2 DEF Started, Finished, Failed
    <2>4. QED
      BY <2>1, <2>2, <2>3
  <1>2. ASSUME NEW d \in Busy, d < x, Clash(d, x)
        PROVE  FALSE
    <2>1. Follows(events, d, x)
      BY <1>2 DEF OInv, OrderInv
    <2>2. QED
      BY <1>1, <2>1 DEF Busy, Finished
  <1>3. ASSUME NEW r \in events[x].reads, r[2] # None
        PROVE  Done(r[2])
    <2>1. r[2] \in DOMAIN events /\ Follows(events, r[2], x)
      BY <1>3 DEF CInv, ReadInv, Finds, Settled
    <2>2. QED
      BY <1>1, <2>1 DEF Done
  <1>4. QED
    BY <1>2, <1>3

\* Of two operations, one is earlier.
LEMMA BusyOrdered ==
    ASSUME RInv, NEW x \in Busy, NEW e \in Busy, x # e
    PROVE  x < e \/ e < x
  BY DEF RInv, TypeInv, Busy

LEMMA StartEventContents ==
    ASSUME RInv, OInv, CInv, RInv', NEW x \in DOMAIN events, StartEvent(x)
    PROVE  CInv'
  <1>1. /\ events[x].st = "waiting" /\ events[x].deps \subseteq Finished \ Failed
        /\ events' = [events EXCEPT ![x].st = IF ReadsRight(x, {}) THEN "active" ELSE "misread"]
        /\ mem' = Overwrite(Writes(x), Torn)
        /\ UNCHANGED <<bufs, chunks, req, maps, views>>
    BY DEF StartEvent, Writes
  <1>2. x \in Busy /\ events[x] \in Event
    BY <1>1 DEF Busy, Finished, RInv, TypeInv
  <1>3. /\ \A d \in Busy : d < x => ~Clash(d, x)
        /\ \A r \in events[x].reads : r[2] # None => Done(r[2])
    BY <1>1, <1>2, OnDevice
  <1>4. ReadsRight(x, {})
    <2> SUFFICES ASSUME NEW r \in events[x].reads, r[2] # None
                 PROVE  mem[r[1]] = r[2]
      BY DEF ReadsRight, None
    <2>1. QED
      BY <1>1, <1>2, <1>3 DEF CInv, ReadInv, Finds
  <1>5. /\ DOMAIN events' = DOMAIN events
        /\ \A d \in DOMAIN events : d # x => events'[d] = events[d]
        /\ events'[x].st = "active" /\ events'[x].deps = events[x].deps
        /\ events'[x].reads = events[x].reads /\ events'[x].writes = events[x].writes
    BY <1>1, <1>2, <1>4 DEF Event
  <1>6. /\ Busy' = Busy /\ Failed' = Failed
        /\ \A d \in DOMAIN events : Writes(d)' = Writes(d) /\ events'[d].reads = events[d].reads
        /\ \A d : Done(d)' = Done(d)
    BY <1>1, <1>5 DEF Busy, Finished, Failed, Writes, Done
  <1>7. \A h \in Hals : h \notin Writes(x) => mem'[h] = mem[h]
    BY <1>1 DEF Overwrite
  <1>8. ASSUME NEW h, NEW w, NEW D
        PROVE  D \subseteq Busy => Settled(h, w, D)' = Settled(h, w, D)
    BY <1>5, <1>6 DEF Settled, Busy
  <1>9. WantInv'
    <2> SUFFICES ASSUME NEW c \in DOMAIN chunks, NEW h, NEW w, h = chunks[c].hal, w = chunks[c].want
                 PROVE  /\ \A d \in Busy : h \in Writes(d) => d <= w
                        /\ w # None => Settled(h, w, Busy)
                        /\ w # None /\ Done(w) /\ ~HostWriting(c) => mem'[h] = w
      <3>1. \A c : HostWriting(c)' = HostWriting(c)
        BY <1>1 DEF HostWriting
      <3>2. \A d \in Busy : Writes(d)' = Writes(d)
        BY <1>6 DEF Busy
      <3>3. QED
        BY <1>1, <1>6, <1>8, <3>1, <3>2 DEF WantInv
    <2>1. /\ \A d \in Busy : h \in Writes(d) => d <= w
          /\ w # None => Settled(h, w, Busy)
          /\ w # None /\ Done(w) /\ ~HostWriting(c) => mem[h] = w
      BY DEF CInv, WantInv
    <2>2. h \in Hals
      BY DEF RInv, TypeInv, Chunk
    <2>3. QED
      BY <1>2, <1>7, <2>1, <2>2 DEF Settled
  <1>10. ReadInv'
    <2> SUFFICES ASSUME NEW e \in Busy, NEW r \in events[e].reads, r[2] # None
                 PROVE  Finds(e, r[1], r[2])'
      BY <1>6 DEF ReadInv, Busy
    <2>1. PICK h : h = r[1]
      OBVIOUS
    <2>2. PICK w : w = r[2]
      OBVIOUS
    <2>3. PICK D : D = {d \in Busy : d < e}
      OBVIOUS
    <2>4. Finds(e, h, w)
      BY <2>1, <2>2 DEF CInv, ReadInv
    <2>5. w < e /\ Settled(h, w, D) /\ w \in DOMAIN events /\ h \in Hals /\ h \in Reads(e)
      BY <2>1, <2>3, <2>4, ReadsTyped DEF Finds, Settled, RInv, Busy
    <2>6. Follows(events', w, e)
      <3>1. \A d \in DOMAIN events : Moves(events, events', d)
        BY <1>1, <1>5 DEF Moves, Started, Finished, Failed
      <3>2. QED
        BY <1>5, <2>4, <2>5, <3>1, FollowsKept DEF Finds
    <2>7. Settled(h, w, D)'
      BY <1>8, <2>3, <2>5
    <2>8. \A d \in Busy : d < e /\ h \in Writes(d)' => d <= w
      BY <1>6, <2>4 DEF Finds, Busy
    <2>9. ASSUME Done(w), events'[e].st = "waiting" \/ h \notin Writes(e)
          PROVE  mem'[h] = w
      <3>1. CASE e = x
        BY <1>1, <1>5, <1>7, <2>4, <2>5, <2>9, <3>1 DEF Finds
      <3>2. CASE e # x
        <4>1. mem[h] = w
          BY <1>5, <2>4, <2>9, <3>2 DEF Finds, Busy
        <4>2. h \notin Writes(x)
          <5>1. CASE x < e
            BY <1>2, <2>3, <2>5, <2>9, <5>1 DEF Settled
          <5>2. CASE e < x
            BY <1>3, <2>5, <5>2 DEF Clash
          <5>3. QED
            BY <1>2, <3>2, <5>1, <5>2, BusyOrdered
        <4>3. QED
          BY <1>7, <2>5, <4>1, <4>2
      <3>3. QED
        BY <3>1, <3>2
    <2>10. Finds(e, h, w)'
      <3>1. {d \in Busy : d < e} = D
        BY <2>3
      <3>2. Writes(e)' = Writes(e)
        BY <1>6 DEF Busy
      <3>3. QED
        BY <1>6, <2>5, <2>6, <2>7, <2>8, <2>9, <3>1, <3>2 DEF Finds
    <2>11. QED
      BY <2>1, <2>2, <2>10
  <1>11. NoMisread'
    BY <1>5 DEF CInv, NoMisread
  <1>12. FailInv' /\ ReqWantInv' /\ MapSeesLogical'
    <2>1. \A i, e : WroteTmp(i, e)' = WroteTmp(i, e)
      BY <1>1 DEF WroteTmp, Out
    <2>2. FailInv'
      BY <1>1, <1>6, <2>1 DEF CInv, FailInv, Bound
    <2>3. QED
      BY <1>1, <2>2 DEF CInv, ReqWantInv, MapSeesLogical
  <1>13. QED
    BY <1>9, <1>10, <1>11, <1>12 DEF CInv

\* An operation that gets to a final state is not waited for by those that are left.
LEMMA LeavesOrder ==
    ASSUME RInv, NEW x \in Busy, NEW st \in {"done", "failed"},
           events' = [events EXCEPT ![x] = Final(x, st)],
           st = "done" => events[x].st \in Started
    PROVE  /\ DOMAIN events' = DOMAIN events /\ x \in DOMAIN events /\ events'[x].st = st
           /\ Busy' = Busy \ {x}
           /\ \A d \in DOMAIN events : d # x => events'[d] = events[d] /\ Writes(d)' = Writes(d)
           /\ \A d, e : d \in DOMAIN events /\ Follows(events, d, e) => Follows(events', d, e)
           /\ \A d : d # x => Done(d)' = Done(d)
           /\ ~Done(x)
  <1>1. /\ DOMAIN events' = DOMAIN events /\ x \in DOMAIN events /\ events'[x].st = st
        /\ \A d \in DOMAIN events : d # x => events'[d] = events[d]
        /\ events[x].st \notin {"done", "failed"}
    BY DEF Busy, Finished, Final
  <1>2. \A d \in DOMAIN events : Moves(events, events', d)
    BY <1>1 DEF Moves
  <1>3. \A d, e : d \in DOMAIN events /\ Follows(events, d, e) => Follows(events', d, e)
    BY <1>1, <1>2, FollowsKept
  <1>4. Busy' = Busy \ {x} /\ ~Done(x) /\ \A d : d # x => Done(d)' = Done(d)
    BY <1>1 DEF Busy, Finished, Done
  <1>5. QED
    BY <1>1, <1>3, <1>4 DEF Writes

LEMMA FinishEventContents ==
    ASSUME RInv, OInv, CInv, RInv', NEW x \in DOMAIN events, FinishEvent(x)
    PROVE  CInv'
  <1>1. /\ events[x].st \in Started
        /\ events' = [events EXCEPT ![x] = Final(x, "done")]
        /\ chunks' = Erase(x)
        /\ mem' = Overwrite(Writes(x), IF events[x].st = "active" /\ ReadsRight(x, Writes(x)) THEN x ELSE Torn)
        /\ UNCHANGED <<bufs, req, maps, views>>
    BY DEF FinishEvent, Writes, Started
  <1>2. x \in Busy
    BY <1>1 DEF Busy, Finished, Started
  <1>3. /\ \A d \in Busy : d < x => ~Clash(d, x)
        /\ \A r \in events[x].reads : r[2] # None => Done(r[2])
    BY <1>1, <1>2, OnDevice
  <1>4. events[x].st = "active" /\ ReadsRight(x, Writes(x))
    <2>1. events[x].st = "active"
      BY <1>1 DEF Started, CInv, NoMisread
    <2>2. ASSUME NEW r \in events[x].reads, r[2] # None, r[1] \notin Writes(x)
          PROVE  mem[r[1]] = r[2]
      BY <1>2, <1>3, <2>2 DEF CInv, ReadInv, Finds
    <2>3. QED
      BY <2>1, <2>2 DEF ReadsRight, None
  <1>5. \A h \in Hals : mem'[h] = IF h \in Writes(x) THEN x ELSE mem[h]
    BY <1>1, <1>4 DEF Overwrite
  <1>6. /\ DOMAIN events' = DOMAIN events /\ x \in DOMAIN events /\ events'[x].st = "done"
        /\ Busy' = Busy \ {x}
        /\ \A d \in DOMAIN events : d # x => events'[d] = events[d] /\ Writes(d)' = Writes(d)
        /\ \A d, e : d \in DOMAIN events /\ Follows(events, d, e) => Follows(events', d, e)
        /\ \A d : d # x => Done(d)' = Done(d)
        /\ ~Done(x)
    BY <1>1, <1>2, LeavesOrder
  <1>7. Failed' = Failed /\ x \notin Failed
    BY <1>1, <1>6 DEF Failed, Started
  <1>8. /\ DOMAIN chunks' = DOMAIN chunks
        /\ \A c \in DOMAIN chunks : /\ chunks'[c].hal = chunks[c].hal /\ chunks'[c].want = chunks[c].want
                                    /\ chunks'[c].pending = chunks[c].pending \ {x}
                                    /\ chunks[c].hal \in Hals
    <2>1. \A c \in DOMAIN chunks : chunks[c] \in Chunk
      BY DEF RInv, TypeInv
    <2>2. QED
      BY <1>1, <2>1 DEF Erase, Chunk
  \* memory that settles on x is not written by anything else that is left
  <1>9. ASSUME NEW h, NEW w, NEW D, D \subseteq Busy, Settled(h, w, D),
               \A d \in D : h \in Writes(d) => d <= w
        PROVE  /\ Settled(h, w, D \ {x})'
               /\ Done(w)' /\ h \in Hals /\ (w # x => mem[h] = w /\ h \notin Writes(x)) => mem'[h] = w
    <2>1. CASE w = x
      <3>1. h \in Writes(x)
        BY <1>2, <1>9, <2>1 DEF Settled
      <3>2. ASSUME NEW d \in D, d # x, h \in Writes(d)
            PROVE  FALSE
        <4>1. d <= x /\ d \in Nat /\ x \in Nat
          BY <1>2, <1>9, <2>1, <3>2, NoneIsNoOperation DEF RInv, Busy
        <4>2. d < x /\ d \in Busy
          BY <1>9, <3>2, <4>1
        <4>3. QED
          BY <1>3, <3>1, <3>2, <4>2 DEF Clash
      <3>3. \A d \in D \ {x} : h \notin Writes(d)'
        BY <1>6, <1>9, <3>2 DEF Busy
      <3>4. Settled(h, w, D \ {x})'
        BY <1>6, <2>1, <3>3 DEF Settled
      <3>5. QED
        BY <1>5, <2>1, <3>1, <3>4
    <2>2. CASE w # x
      <3>1. \A d \in D \ {x} : Writes(d)' = Writes(d)
        BY <1>6, <1>9 DEF Busy
      <3>2. w \in Busy' => h \in Writes(w)'
        BY <1>6, <1>9 DEF Settled, Busy
      <3>3. w \in DOMAIN events' /\ (Done(w)' => \A d \in D \ {x} : h \notin Writes(d)')
        BY <1>6, <1>9, <2>2, <3>1 DEF Settled
      <3>4. Settled(h, w, D \ {x})'
        BY <3>2, <3>3 DEF Settled
      <3>5. QED
        BY <1>5, <2>2, <3>4
    <2>3. QED
      BY <2>1, <2>2
  <1>10. WantInv'
    <2> SUFFICES ASSUME NEW c \in DOMAIN chunks, NEW h, NEW w, h = chunks[c].hal, w = chunks[c].want
                 PROVE  /\ \A d \in Busy' : h \in Writes(d)' => d <= w
                        /\ w # None => Settled(h, w, Busy)'
                        /\ w # None /\ Done(w)' /\ ~HostWriting(c) => mem'[h] = w
      <3>1. \A c : HostWriting(c)' = HostWriting(c)
        BY <1>1 DEF HostWriting
      <3>2. QED
        BY <1>8, <3>1 DEF WantInv
    <2>1. /\ \A d \in Busy : h \in Writes(d) => d <= w
          /\ w # None => Settled(h, w, Busy)
          /\ w # None /\ Done(w) /\ ~HostWriting(c) => mem[h] = w
      BY DEF CInv, WantInv
    <2>2. \A d \in Busy' : h \in Writes(d)' => d <= w
      BY <1>6, <2>1 DEF Busy
    <2>3. PICK D : D = Busy
      OBVIOUS
    <2>4. ASSUME w # None
          PROVE  /\ Settled(h, w, D \ {x})'
                 /\ Done(w)' /\ ~HostWriting(c) => mem'[h] = w
      <3>1. /\ Settled(h, w, D \ {x})'
            /\ Done(w)' /\ h \in Hals /\ (w # x => mem[h] = w /\ h \notin Writes(x)) => mem'[h] = w
        BY <1>9, <2>1, <2>3, <2>4
      <3>2. Done(w)' /\ ~HostWriting(c) /\ w # x => mem[h] = w /\ h \notin Writes(x)
        BY <1>2, <1>6, <2>1, <2>4 DEF Settled
      <3>3. QED
        BY <1>8, <3>1, <3>2
    <2>5. D \ {x} = Busy'
      BY <1>6, <2>3
    <2>6. w # None => Settled(h, w, Busy)'
      BY <2>4, <2>5
    <2>7. QED
      BY <2>2, <2>4, <2>6
  <1>11. ReadInv'
    <2> SUFFICES ASSUME NEW e \in Busy', NEW r \in events'[e].reads, r[2] # None
                 PROVE  Finds(e, r[1], r[2])'
      BY DEF ReadInv
    <2>1. e \in Busy /\ e # x /\ e \in DOMAIN events /\ r \in events[e].reads /\ events'[e] = events[e]
      BY <1>6 DEF Busy
    <2>2. PICK h : h = r[1]
      OBVIOUS
    <2>3. PICK w : w = r[2]
      OBVIOUS
    <2>4. PICK D : D = {d \in Busy : d < e}
      OBVIOUS
    <2>5. Finds(e, h, w)
      BY <2>1, <2>2, <2>3 DEF CInv, ReadInv
    <2>6. /\ w < e /\ Settled(h, w, D) /\ w \in DOMAIN events /\ h \in Hals /\ h \in Reads(e)
          /\ \A d \in D : h \in Writes(d) => d <= w
      BY <2>1, <2>2, <2>4, <2>5, ReadsTyped DEF Finds, Settled, RInv
    <2>7. Follows(events', w, e)
      BY <1>6, <2>5, <2>6 DEF Finds
    <2>8. /\ Settled(h, w, D \ {x})'
          /\ Done(w)' /\ h \in Hals /\ (w # x => mem[h] = w /\ h \notin Writes(x)) => mem'[h] = w
      BY <1>9, <2>4, <2>6
    <2>9. ASSUME Done(w)', events'[e].st = "waiting" \/ h \notin Writes(e)'
          PROVE  mem'[h] = w
      <3>1. ASSUME w # x
            PROVE  mem[h] = w /\ h \notin Writes(x)
        <4>1. Done(w)
          BY <1>6, <2>9, <3>1
        <4>2. mem[h] = w
          BY <1>6, <2>1, <2>5, <2>9, <4>1 DEF Finds
        <4>3. h \notin Writes(x)
          <5>1. CASE x < e
            BY <1>2, <2>4, <2>6, <4>1, <5>1 DEF Settled
          <5>2. CASE e < x
            BY <1>3, <2>1, <2>6, <5>2 DEF Clash
          <5>3. QED
            BY <1>2, <2>1, <5>1, <5>2, BusyOrdered
        <4>4. QED
          BY <4>2, <4>3
      <3>2. QED
        BY <2>6, <2>8, <2>9, <3>1
    <2>10. Finds(e, h, w)'
      <3>1. {d \in Busy' : d < e} = D \ {x}
        BY <1>6, <2>4
      <3>2. \A d \in Busy' : d < e /\ h \in Writes(d)' => d <= w
        BY <1>6, <2>5 DEF Finds, Busy
      <3>3. QED
        BY <2>6, <2>7, <2>8, <2>9, <3>1, <3>2 DEF Finds
    <2>11. QED
      BY <2>2, <2>3, <2>10
  <1>12. NoMisread'
    BY <1>6 DEF CInv, NoMisread
  <1>13. NoneDangles
    BY OwnersRefer DEF RInv
  <1>14. FailInv'
    <2>1. \A c \in DOMAIN chunks : chunks[c].want \in Failed /\ chunks[c].want \in chunks[c].pending =>
             chunks'[c].want \in chunks'[c].pending
      BY <1>7, <1>8
    <2>2. \A b \in Bufs : Bound(b) /\ chunks'[bufs[b]].want \in Failed =>
             \/ chunks'[bufs[b]].want \in chunks'[bufs[b]].pending
             \/ \E i \in DOMAIN req.alloc : i \in WrittenAllocs(req.call) /\ req.alloc[i] = bufs[b]
      BY <1>8, <1>13, <2>1 DEF CInv, FailInv, NoneDangles
    <2>3. \A i \in DOMAIN req.alloc : chunks'[req.alloc[i]].want \in Failed =>
             \/ chunks'[req.alloc[i]].want \in chunks'[req.alloc[i]].pending
             \/ WroteTmp(i, chunks'[req.alloc[i]].want)
      BY <1>8, <1>13, <2>1 DEF CInv, FailInv, NoneDangles, ReqChunks
    <2>4. \A m \in maps : chunks'[m.chunk].want \in Failed => chunks'[m.chunk].want \in m.deps
      BY <1>8, <1>13 DEF CInv, FailInv, NoneDangles
    <2>5. \A i, e : WroteTmp(i, e)' = WroteTmp(i, e)
      BY <1>1 DEF WroteTmp, Out
    <2>6. QED
      BY <1>1, <1>7, <2>2, <2>3, <2>4, <2>5 DEF FailInv, Bound
  <1>15. ReqWantInv' /\ MapSeesLogical'
    BY <1>1, <1>8, <1>13 DEF CInv, ReqWantInv, MapSeesLogical, NoneDangles, ReqChunks
  <1>16. QED
    BY <1>10, <1>11, <1>12, <1>14, <1>15 DEF CInv

\* An operation that fails is pending in what it was to write.
LEMMA FailEventContents ==
    ASSUME SeparateInputs, RInv, OInv, CInv, RInv', NEW x \in DOMAIN events, FailEvent(x)
    PROVE  CInv'
  <1>1. /\ events' = [events EXCEPT ![x] = Final(x, "failed")]
        /\ UNCHANGED <<bufs, chunks, req, mem, maps, views>> /\ x \in Busy
    BY DEF FailEvent, Busy, Finished
  <1>2. /\ DOMAIN events' = DOMAIN events /\ x \in DOMAIN events /\ events'[x].st = "failed"
        /\ Busy' = Busy \ {x}
        /\ \A d \in DOMAIN events : d # x => events'[d] = events[d] /\ Writes(d)' = Writes(d)
        /\ \A d, e : d \in DOMAIN events /\ Follows(events, d, e) => Follows(events', d, e)
        /\ \A d : d # x => Done(d)' = Done(d)
        /\ ~Done(x)
    BY <1>1, LeavesOrder
  <1>3. Failed' = Failed \cup {x} /\ \A d : Done(d)' = Done(d)
    BY <1>2 DEF Failed, Done
  <1>4. ASSUME NEW h, NEW w, NEW D, D \subseteq Busy, Settled(h, w, D)
        PROVE  Settled(h, w, D \ {x})'
    <2>1. \A d \in D \ {x} : Writes(d)' = Writes(d)
      BY <1>2, <1>4 DEF Busy
    <2>2. w \in Busy' => h \in Writes(w)'
      BY <1>2, <1>4 DEF Settled, Busy
    <2>3. w \in DOMAIN events' /\ (Done(w)' => \A d \in D \ {x} : h \notin Writes(d)')
      BY <1>2, <1>3, <1>4, <2>1 DEF Settled
    <2>4. QED
      BY <2>2, <2>3 DEF Settled
  <1>5. NoneDangles
    BY OwnersRefer DEF RInv
  <1>6. WantInv'
    <2> SUFFICES ASSUME NEW c \in DOMAIN chunks, NEW h, NEW w, h = chunks[c].hal, w = chunks[c].want
                 PROVE  /\ \A d \in Busy' : h \in Writes(d)' => d <= w
                        /\ w # None => Settled(h, w, Busy)'
                        /\ w # None /\ Done(w)' /\ ~HostWriting(c) => mem[h] = w
      <3>1. \A c : HostWriting(c)' = HostWriting(c)
        BY <1>1 DEF HostWriting
      <3>2. QED
        BY <1>1, <3>1 DEF WantInv
    <2>1. /\ \A d \in Busy : h \in Writes(d) => d <= w
          /\ w # None => Settled(h, w, Busy)
          /\ w # None /\ Done(w) /\ ~HostWriting(c) => mem[h] = w
      BY DEF CInv, WantInv
    <2>2. \A d \in Busy' : h \in Writes(d)' => d <= w
      BY <1>2, <2>1 DEF Busy
    <2>3. PICK D : D = Busy
      OBVIOUS
    <2>4. w # None => Settled(h, w, D \ {x})'
      BY <1>4, <2>1, <2>3
    <2>5. D \ {x} = Busy'
      BY <1>2, <2>3
    <2>6. QED
      BY <1>3, <2>1, <2>2, <2>4, <2>5
  <1>7. ReadInv'
    <2> SUFFICES ASSUME NEW e \in Busy', NEW r \in events'[e].reads, r[2] # None
                 PROVE  Finds(e, r[1], r[2])'
      BY DEF ReadInv
    <2>1. e \in Busy /\ e # x /\ e \in DOMAIN events /\ r \in events[e].reads /\ events'[e] = events[e]
      BY <1>2 DEF Busy
    <2>2. PICK h : h = r[1]
      OBVIOUS
    <2>3. PICK w : w = r[2]
      OBVIOUS
    <2>4. PICK D : D = {d \in Busy : d < e}
      OBVIOUS
    <2>5. Finds(e, h, w)
      BY <2>1, <2>2, <2>3 DEF CInv, ReadInv
    <2>6. w < e /\ Settled(h, w, D) /\ w \in DOMAIN events
      BY <2>4, <2>5 DEF Finds, Settled
    <2>7. Follows(events', w, e) /\ Settled(h, w, D \ {x})'
      BY <1>2, <1>4, <2>4, <2>5, <2>6 DEF Finds
    <2>8. {d \in Busy' : d < e} = D \ {x}
      BY <1>2, <2>4
    <2>9. \A d \in Busy' : d < e /\ h \in Writes(d)' => d <= w
      BY <1>2, <2>5 DEF Finds, Busy
    <2>10. Done(w)' /\ (events'[e].st = "waiting" \/ h \notin Writes(e)') => mem[h] = w
      BY <1>2, <1>3, <2>1, <2>5 DEF Finds
    <2>11. Finds(e, h, w)'
      BY <1>1, <2>6, <2>7, <2>8, <2>9, <2>10 DEF Finds
    <2>12. QED
      BY <2>2, <2>3, <2>11
  <1>8. NoMisread'
    BY <1>2 DEF CInv, NoMisread
  <1>9. ASSUME NEW c \in DOMAIN chunks, chunks[c].want = x
        PROVE  chunks[c].hal \in Writes(x)
    <2>1. x # None
      BY NoneIsNoOperation DEF RInv
    <2>2. Settled(chunks[c].hal, x, Busy)
      BY <1>9, <2>1 DEF CInv, WantInv
    <2>3. QED
      BY <1>1, <2>2 DEF Settled
  \* what x writes for the request is an alloc of it
  <1>10. ASSUME NEW c \in DOMAIN chunks, chunks[c].hal \in Writes(x), x \in ReqEvents
         PROVE  \E j \in DOMAIN req.event : \E o \in req.call.steps[j].outs :
                   /\ x = req.event[j] /\ o \in DOMAIN req.alloc /\ req.alloc[o] = c
                   /\ o \in WrittenAllocs(req.call)
                   /\ Out(o) # NoBuf => x \in chunks[c].pending
    <2>1. PICK j \in DOMAIN req.event : x = req.event[j]
      BY <1>10 DEF ReqEvents
    <2>2. Launched(j, x)
      BY <1>1, <2>1 DEF OInv, LaunchInv
    <2>3. PICK o \in req.call.steps[j].outs : chunks[req.alloc[o]].hal = chunks[c].hal
      BY <1>10, <2>2 DEF Launched
    <2>4. j \in DOMAIN req.call.steps /\ o \in DOMAIN req.alloc
      BY <2>1, <2>3, StepAllocs DEF RInv
    <2>5. o \in WrittenAllocs(req.call)
      BY <2>3, <2>4 DEF WrittenAllocs
    <2>6. req.alloc[o] = c
      BY <1>5, <2>3, <2>4 DEF NoneDangles, ReqChunks, RInv, HalInv, OwnerInv
    <2>7. QED
      BY <2>1, <2>2, <2>3, <2>4, <2>5, <2>6 DEF Launched
  <1>11. ASSUME NEW b \in Bufs, Bound(b), chunks[bufs[b]].want = x
         PROVE  \/ x \in chunks[bufs[b]].pending
                \/ \E i \in DOMAIN req.alloc : i \in WrittenAllocs(req.call) /\ req.alloc[i] = bufs[b]
    <2>1. bufs[b] \in DOMAIN chunks /\ chunks[bufs[b]].hal \in Writes(x)
      BY <1>5, <1>9, <1>11 DEF NoneDangles
    <2>2. x \in chunks[bufs[b]].pending \/ x \in ReqEvents
      BY <1>1, <1>11, <2>1 DEF OInv, RecordInv
    <2>3. QED
      BY <1>10, <2>1, <2>2
  <1>12. ASSUME NEW i \in DOMAIN req.alloc, chunks[req.alloc[i]].want = x
         PROVE  x \in chunks[req.alloc[i]].pending \/ WroteTmp(i, x)
    <2>1. req.alloc[i] \in DOMAIN chunks /\ chunks[req.alloc[i]].hal \in Writes(x)
      BY <1>5, <1>9, <1>12 DEF NoneDangles, ReqChunks
    <2>2. CASE x \in ReqEvents
      <3>1. PICK j \in DOMAIN req.event : \E o \in req.call.steps[j].outs :
                   /\ x = req.event[j] /\ o \in DOMAIN req.alloc /\ req.alloc[o] = req.alloc[i]
                   /\ o \in WrittenAllocs(req.call)
                   /\ Out(o) # NoBuf => x \in chunks[req.alloc[i]].pending
        BY <1>10, <2>1, <2>2
      <3>2. PICK o \in req.call.steps[j].outs :
                   /\ x = req.event[j] /\ o \in DOMAIN req.alloc /\ req.alloc[o] = req.alloc[i]
                   /\ o \in WrittenAllocs(req.call)
                   /\ Out(o) # NoBuf => x \in chunks[req.alloc[i]].pending
        BY <3>1
      <3>3. o = i
        BY <3>2, MemoryPart, AllocsApart DEF OInv, BInv
      <3>4. QED
        BY <3>2, <3>3 DEF WroteTmp
    <2>3. CASE x \notin ReqEvents
      <3>1. In(i) # NoBuf
        BY <1>1, <2>1, <2>3 DEF OInv, OwnInv
      <3>2. In(i) \in Bufs /\ bufs[In(i)] = req.alloc[i] /\ Bound(In(i))
        BY <2>1, <3>1, RequestAllocs, Bounds DEF OInv, AllocInv, Bound, RInv, TypeInv
      <3>3. QED
        BY <1>1, <2>1, <2>3, <3>2 DEF OInv, RecordInv
    <2>4. QED
      BY <2>2, <2>3
  <1>13. ASSUME NEW m \in maps, chunks[m.chunk].want = x
         PROVE  x \in m.deps
    <2>1. m.chunk \in DOMAIN chunks
      BY <1>5 DEF NoneDangles
    <2>2. QED
      BY <1>1, <1>9, <1>13, <2>1 DEF OInv, MapInv
  <1>14. FailInv'
    <2>1. \A i, e : WroteTmp(i, e)' = WroteTmp(i, e)
      BY <1>1 DEF WroteTmp, Out
    <2>2. \A b \in Bufs : Bound(b) /\ chunks[bufs[b]].want \in Failed \cup {x} =>
             \/ chunks[bufs[b]].want \in chunks[bufs[b]].pending
             \/ \E i \in DOMAIN req.alloc : i \in WrittenAllocs(req.call) /\ req.alloc[i] = bufs[b]
      BY <1>11 DEF CInv, FailInv
    <2>3. \A i \in DOMAIN req.alloc : chunks[req.alloc[i]].want \in Failed \cup {x} =>
             \/ chunks[req.alloc[i]].want \in chunks[req.alloc[i]].pending
             \/ WroteTmp(i, chunks[req.alloc[i]].want)
      BY <1>12 DEF CInv, FailInv
    <2>4. \A m \in maps : chunks[m.chunk].want \in Failed \cup {x} => chunks[m.chunk].want \in m.deps
      BY <1>13 DEF CInv, FailInv
    <2>5. QED
      BY <1>1, <1>3, <2>1, <2>2, <2>3, <2>4 DEF FailInv, Bound
  <1>15. ReqWantInv' /\ MapSeesLogical'
    BY <1>1 DEF CInv, ReqWantInv, MapSeesLogical
  <1>16. QED
    BY <1>6, <1>7, <1>8, <1>14, <1>15 DEF CInv

-----------------------------------------------------------------------------
(* The invariant *)

LEMMA CInit ==
    ASSUME RtInit
    PROVE  CInv
  <1>1. /\ Busy = {} /\ DOMAIN req.alloc = {} /\ DOMAIN events = {} /\ DOMAIN chunks = {}
        /\ \A b \in Bufs : ~Bound(b)
        /\ maps = {} /\ views = {}
    BY DEF RtInit, Busy, Finished, NoReq, Bound
  <1>2. QED
    BY <1>1 DEF CInv, WantInv, FailInv, ReqWantInv, ReadInv, NoMisread, MapSeesLogical

LEMMA CStep ==
    ASSUME SeparateInputs, RInv, OInv, CInv, RInv', OInv', ~MayFailLaunch, [RtNext]_rtVars
    PROVE  CInv'
  <1>1. CASE ClientNext
    BY <1>1, StartRunContents, LaunchStepContents, LaunchFailsStep, LaunchSucceedsContents,
       MapCurrentContents, MapDiscardContents, FreeBufferContents, HostWritesContents,
       WriteBackContents DEF ClientNext
  <1>2. CASE Continuation
    BY <1>2, ReleaseShimContents, MapReadyContents, MapFailsContents DEF Continuation
  <1>3. CASE DeviceNext
    BY <1>3, StartEventContents, FinishEventContents, FailEventContents DEF DeviceNext
  <1>4. CASE UNCHANGED rtVars
    <2>1. UNCHANGED <<bufs, chunks, events, mem, req, maps, views>>
      BY <1>4 DEF rtVars
    <2>2. Failed' = Failed /\ \A c : HostWriting(c)' = HostWriting(c)
      BY <2>1 DEF Failed, HostWriting
    <2>3. \A i, e : WroteTmp(i, e)' = WroteTmp(i, e)
      BY <2>1 DEF WroteTmp, Out
    <2>4. WantInv' /\ ReadInv' /\ NoMisread'
      BY <2>1, <2>2, QuietContents
    <2>5. FailInv' /\ ReqWantInv' /\ MapSeesLogical'
      BY <2>1, <2>2, <2>3 DEF CInv, FailInv, ReqWantInv, MapSeesLogical, Bound
    <2>6. QED
      BY <2>4, <2>5 DEF CInv
  <1>5. QED
    BY <1>1, <1>2, <1>3, <1>4 DEF RtNext

LEMMA ContentsInvariant ==
    ~MayFailLaunch /\ Polite /\ SeparateInputs => (RtSpec => [](RInv /\ OInv /\ CInv))
  <1> SUFFICES ASSUME ~MayFailLaunch, Polite, SeparateInputs PROVE RtSpec => [](RInv /\ OInv /\ CInv)
    OBVIOUS
  <1>1. RtInit => RInv /\ OInv /\ CInv
    BY RInit, OInit, CInit
  <1>2. RInv /\ OInv /\ CInv /\ [RtNext]_rtVars => RInv' /\ OInv' /\ CInv'
    <2> SUFFICES ASSUME RInv, OInv, CInv, [RtNext]_rtVars PROVE RInv' /\ OInv' /\ CInv'
      OBVIOUS
    <2>1. RInv'
      BY RStep
    <2>2. OInv'
      BY <2>1, OStep
    <2>3. CInv'
      BY <2>1, <2>2, CStep
    <2>4. QED
      BY <2>1, <2>2, <2>3
  <1>3. QED
    BY <1>1, <1>2, PTL DEF RtSpec

\* plaidml.h:541-544, for any programs and buffers, while the device runs what it was given
\* in any order that the dependencies allow, and kernels fail on it: a mapping that succeeds
\* shows what the last operation wrote that was launched on the buffer before the mapping --
\* never what an earlier one left, half of what a later one writes, or the memory of a kernel
\* that failed.  The hypotheses are those of KernelsDoNotRace.
THEOREM MappingsShowTheResult ==
    ~MayFailLaunch /\ Polite /\ SeparateInputs => (RtSpec => []MapSeesLogical)
  <1>1. CInv => MapSeesLogical
    BY DEF CInv
  <1>2. QED
    BY <1>1, ContentsInvariant, PTL

\* Whatever an operation reads is there when it starts and stays until it has finished, so
\* that what it writes is right: no operation reads too early, or memory that was reused.
THEOREM NothingIsMisread ==
    ~MayFailLaunch /\ Polite /\ SeparateInputs => (RtSpec => []NoMisread)
  <1>1. CInv => NoMisread
    BY DEF CInv
  <1>2. QED
    BY <1>1, ContentsInvariant, PTL

-----------------------------------------------------------------------------
(* Launches that are refused *)

\* What memory holds was written by an operation that there has been, and so was what a
\* view has shown.
Past == DOMAIN events \cup {None, Torn}

HistoryInv ==
    /\ aborted \subseteq DOMAIN events
    /\ \A h \in Hals : mem[h] \in Past
    /\ \A v \in views : v.seen \in Past
    /\ ~Idle => runs > 0

\* What a request has written is in its chunks only, and nobody has seen it.
UnseenInv ==
    \A e \in ReqEvents :
        /\ e \in Busy => Writes(e) \subseteq Mem(ReqChunks)
        /\ \A h \in Hals : mem[h] = e => h \in Mem(ReqChunks)
        /\ \A v \in views : v.seen # e

\* The operations of a refused launch that are still to run write no memory that a buffer
\* can show.
CleanInv ==
    \A c \in DOMAIN chunks : ~chunks[c].tmp /\ Readable(chunks[c]) =>
        \A e \in aborted \cap Busy : chunks[c].hal \notin Writes(e)

\* Memory that a refused launch has written
Stale(h) == mem[h] \in aborted

\* Operation w was to write memory h, and has not.
Overdue(ev, w, h) ==
    /\ w \in DOMAIN ev
    /\ ev[w].st = "failed" \/ (ev[w].st = "waiting" /\ h \in ev[w].writes)

\* The request writes the chunk for itself: the buffer will have another one.
Replaced(c) ==
    \E i \in DOMAIN req.alloc : req.alloc[i] = c /\ i \in WrittenAllocs(req.call) /\ Out(i) = NoBuf

\* Stale memory may come to be the memory of a buffer, by way of the cache or of a run that
\* overwrites it: what writes it next is then still to run, or has failed, and whoever maps
\* the buffer waits for it.
Awaits(c) ==
    Readable(chunks[c]) /\ chunks[c].want # None /\ Stale(chunks[c].hal) =>
        /\ Overdue(events, chunks[c].want, chunks[c].hal)
        /\ chunks[c].want \in chunks[c].pending \/ Replaced(c)

StaleInv ==
    /\ \A b \in Bufs : Bound(b) => Awaits(bufs[b])
    /\ \A i \in DOMAIN req.alloc : Out(i) # NoBuf => Awaits(req.alloc[i])
    /\ \A m \in maps : chunks[m.chunk].want # None /\ Stale(chunks[m.chunk].hal) =>
          chunks[m.chunk].want \in m.deps

\* What is mapped is not poisoned, and what the application has written is not stale.
ViewInv ==
    /\ \A x \in maps \cup views : Readable(chunks[x.chunk])
    /\ \A v \in views : v.wrote => ~Stale(chunks[v.chunk].hal)

SInv == HistoryInv /\ UnseenInv /\ CleanInv /\ StaleInv /\ ViewInv /\ HalfRunUnreadable

LEMMA TornIsNoOperation ==
    ASSUME TypeInv
    PROVE  Torn \notin DOMAIN events /\ None \notin DOMAIN events
  <1>1. DOMAIN events \subseteq 1..MaxEvents
    BY Bounds DEF TypeInv
  <1>2. QED
    BY <1>1, Bounds DEF Torn, None

\* References that are dropped
LEMMA DropStale ==
    ASSUME MInv, BInv, SInv, MInv', NEW refs, DropTo(chunks, refs),
           UNCHANGED <<events, mem, req, views, aborted, runs>>, Frees(bufs'), maps' \subseteq maps
    PROVE  SInv'
  <1>1. \A c \in DOMAIN chunks' : c \in DOMAIN chunks /\ chunks'[c] = chunks[c]
    BY DEF DropTo
  <1>2. NoneDangles'
    BY OwnersReferMemory
  <1>3. /\ Idle' = Idle /\ Busy' = Busy /\ ReqEvents' = ReqEvents /\ ReqChunks' = ReqChunks
        /\ \A e : Writes(e)' = Writes(e)
    BY DEF Idle, Busy, Finished, ReqEvents, ReqChunks, Writes
  <1>4. HistoryInv'
    BY <1>3 DEF SInv, HistoryInv, Past
  <1>5. UnseenInv'
    <2>1. Mem(ReqChunks)' = Mem(ReqChunks)
      BY <1>1, <1>2, <1>3 DEF Mem, NoneDangles
    <2>2. QED
      BY <1>3, <2>1 DEF SInv, UnseenInv
  <1>6. CleanInv'
    BY <1>1, <1>3 DEF SInv, CleanInv
  <1>7. StaleInv'
    <2>1. ASSUME NEW b \in Bufs, bufs'[b] # NoChunk
          PROVE  bufs'[b] = bufs[b] /\ Bound(b) /\ bufs'[b] \in DOMAIN chunks'
      BY <1>2, <2>1 DEF Frees, Bound, NoneDangles
    <2>2. \A i \in DOMAIN req.alloc : req.alloc[i] \in DOMAIN chunks'
      BY <1>2 DEF NoneDangles, ReqChunks
    <2>3. \A m \in maps' : m.chunk \in DOMAIN chunks'
      BY <1>2 DEF NoneDangles
    <2>4. QED
      BY <1>1, <2>1, <2>2, <2>3 DEF SInv, StaleInv, Awaits, Bound, Stale, Replaced, Out
  <1>8. ViewInv' /\ HalfRunUnreadable'
    BY <1>1, <1>2 DEF SInv, ViewInv, HalfRunUnreadable, NoneDangles, Stale
  <1>9. QED
    BY <1>4, <1>5, <1>6, <1>7, <1>8 DEF SInv

LEMMA FreeBufferStale ==
    ASSUME MInv, BInv, SInv, MInv', NEW b \in Bufs, FreeBuffer(b)
    PROVE  SInv'
  <1>1. Frees(bufs')
    BY DEF FreeBuffer, Frees, MInv, TypeInv
  <1>2. QED
    BY <1>1, DropStale DEF FreeBuffer

LEMMA MapFailsStale ==
    ASSUME MInv, BInv, SInv, MInv', NEW m \in maps, MapFails(m)
    PROVE  SInv'
  <1>1. Frees(bufs')
    BY DEF MapFails, Frees
  <1>2. QED
    BY <1>1, DropStale DEF MapFails

LEMMA ReleaseShimStale ==
    ASSUME MInv, BInv, SInv, MInv', NEW s \in shims, ReleaseShim(s)
    PROVE  SInv'
  <1>1. Frees(bufs')
    BY DEF ReleaseShim, Frees
  <1>2. QED
    BY <1>1, DropStale DEF ReleaseShim

\* The chunk of a buffer, which no request overwrites, is readable only if what it shows is
\* not stale, or is awaited.
BufsAwait ==
    \A b \in Bufs : bufs'[b] # NoChunk =>
        LET k == chunks'[bufs'[b]]
        IN k.ep = 0 /\ k.want # None /\ mem'[k.hal] \in aborted =>
              Overdue(events, k.want, k.hal) /\ k.want \in k.pending

\* While no request is being queued, chunks are added.
LEMMA GrowStale ==
    ASSUME MInv, BInv, SInv, Idle, UNCHANGED <<events, aborted>>,
           Grown(chunks', cache'), Ensured(chunks', bufs'),
           \A h \in Hals : mem'[h] = mem[h] \/ mem'[h] = Torn
    PROVE  CleanInv' /\ BufsAwait /\ GrownBindings
  <1>1. \A c \in DOMAIN chunks' :
           \/ c \in DOMAIN chunks /\ chunks'[c] = chunks[c]
           \/ /\ c \notin DOMAIN chunks /\ chunks'[c].want = None
              /\ chunks'[c].tmp \/ chunks'[c].hal \notin InUse
    BY DEF Grown
  <1>2. Busy' = Busy /\ \A e : Writes(e)' = Writes(e)
    BY DEF Busy, Finished, Writes
  <1>3. \A e \in Busy : Writes(e) \subseteq InUse
    BY DEF InUse, Touches, Writes
  <1>4. CleanInv'
    BY <1>1, <1>2, <1>3 DEF SInv, CleanInv, Readable
  <1>5. BufsAwait
    <2> SUFFICES ASSUME NEW b \in Bufs, bufs'[b] # NoChunk, NEW k, k = chunks'[bufs'[b]],
                        k.ep = 0, k.want # None, mem'[k.hal] \in aborted
                 PROVE  Overdue(events, k.want, k.hal) /\ k.want \in k.pending
      BY DEF BufsAwait
    <2>1. bufs'[b] \in DOMAIN chunks' /\ (Bound(b) \/ bufs'[b] \notin DOMAIN chunks)
      BY DEF Ensured
    <2>2. Bound(b) /\ bufs'[b] = bufs[b] /\ k = chunks[bufs[b]] /\ bufs[b] \in DOMAIN chunks
      BY <1>1, <2>1 DEF Ensured
    <2>3. k.hal \in Hals /\ Torn \notin aborted
      BY <2>2, TornIsNoOperation DEF MInv, TypeInv, Chunk, SInv, HistoryInv
    <2>4. Stale(k.hal)
      BY <2>3 DEF Stale
    <2>5. \A c : ~Replaced(c)
      BY DEF Replaced, Idle, NoReq
    <2>6. QED
      BY <2>2, <2>4, <2>5 DEF SInv, StaleInv, Awaits, Readable
  <1>6. QED
    BY <1>4, <1>5, GrowBindings

\* No request has operations.
LEMMA IdleStale ==
    ASSUME Idle'
    PROVE  DOMAIN req'.alloc = {} /\ UnseenInv'
  <1>1. DOMAIN req'.alloc = {} /\ DOMAIN req'.event = {}
    BY DEF Idle, NoReq
  <1>2. QED
    BY <1>1 DEF UnseenInv, ReqEvents

LEMMA MapCurrentStale ==
    ASSUME MInv, BInv, SInv, MInv', NEW b \in Bufs, MapCurrent(b)
    PROVE  SInv'
  <1> DEFINE t == EnsureChunk(Current, b)
             m == [buf |-> b, chunk |-> t.bufs[b], deps |-> t.chunks[t.bufs[b]].pending]
  <1>1. t.bufs[b] \in DOMAIN t.chunks /\ t.bufs[b] # NoChunk
    BY CurrentEnsured, Bounds DEF MInv, MapCurrent, MayMap, Grown
  <1>2. /\ chunks' = t.chunks /\ bufs' = t.bufs /\ maps' = maps \cup {m}
        /\ t.chunks[t.bufs[b]].ep = 0
        /\ UNCHANGED <<events, mem, req, views, aborted, runs>> /\ Idle
    BY DEF MapCurrent, Readable
  <1>3. m.chunk = t.bufs[b] /\ m.deps = t.chunks[t.bufs[b]].pending
    OBVIOUS
  <1> HIDE DEF t, m
  <1>4. m.chunk = bufs'[b] /\ m.deps = chunks'[m.chunk].pending /\ chunks'[m.chunk].ep = 0 /\ m.chunk # NoChunk
    BY <1>1, <1>2, <1>3
  <1>5. CleanInv' /\ BufsAwait /\ GrownBindings
    BY <1>2, GrowStale, MapCurrentMemory
  <1>6. Idle' /\ UnseenInv' /\ DOMAIN req'.alloc = {}
    BY <1>2, IdleStale DEF Idle
  <1>7. HistoryInv'
    BY <1>2, <1>6 DEF SInv, HistoryInv, Past
  <1>8. StaleInv'
    <2>1. \A d \in Bufs : bufs'[d] # NoChunk => Awaits(bufs[d])'
      BY <1>2, <1>5 DEF BufsAwait, Awaits, Readable, Stale
    <2>2. \A x \in maps : chunks'[x.chunk].want # None /\ mem'[chunks'[x.chunk].hal] \in aborted' =>
             chunks'[x.chunk].want \in x.deps
      BY <1>2, <1>5 DEF SInv, StaleInv, Stale, GrownBindings
    <2>3. chunks'[m.chunk].want # None /\ mem'[chunks'[m.chunk].hal] \in aborted' =>
             chunks'[m.chunk].want \in m.deps
      BY <1>2, <1>4, <1>5 DEF BufsAwait
    <2>4. QED
      BY <1>2, <1>6, <2>1, <2>2, <2>3 DEF StaleInv, Bound, Stale
  <1>9. ViewInv'
    <2>1. \A x \in maps \cup views : chunks'[x.chunk] = chunks[x.chunk]
      BY <1>5 DEF GrownBindings
    <2>2. \A x \in maps \cup views : chunks'[x.chunk].ep = 0
      BY <2>1 DEF SInv, ViewInv, Readable
    <2>3. \A v \in views : v.wrote => mem'[chunks'[v.chunk].hal] \notin aborted'
      BY <1>2, <2>1 DEF SInv, ViewInv, Stale
    <2>4. maps' = maps \cup {m} /\ views' = views /\ chunks'[m.chunk].ep = 0
      BY <1>2, <1>4
    <2>5. QED
      BY <2>2, <2>3, <2>4 DEF ViewInv, Readable, Stale
  <1>10. HalfRunUnreadable'
    BY <1>2, <1>5 DEF SInv, HalfRunUnreadable, GrownBindings
  <1>11. QED
    BY <1>5, <1>6, <1>7, <1>8, <1>9, <1>10 DEF SInv

LEMMA MapDiscardStale ==
    ASSUME MInv, BInv, SInv, MInv', NEW b \in Bufs, MapDiscard(b)
    PROVE  SInv'
  <1> DEFINE t == EnsureChunk(Current, b)
             v == [buf |-> b, chunk |-> t.bufs[b], seen |-> None, wrote |-> TRUE]
  <1>1. t.bufs[b] \in DOMAIN t.chunks /\ t.chunks[t.bufs[b]].hal \in Hals
    <2>1. TypeInv /\ RefInv /\ OwnerInv /\ KeepInv /\ MayEnsure(b)
      BY DEF MInv, MapDiscard, MayMap
    <2>2. Grown(t.chunks, cache) /\ t.bufs[b] \in DOMAIN t.chunks
      BY <2>1, CurrentEnsured
    <2> HIDE DEF t
    <2>3. t.chunks \in [DOMAIN t.chunks -> Chunk]
      BY <2>2 DEF Grown
    <2>4. t.chunks[t.bufs[b]] \in Chunk
      BY <2>2, <2>3
    <2>5. QED
      BY <2>2, <2>4 DEF Chunk
  <1>2. /\ chunks' = t.chunks /\ bufs' = t.bufs /\ views' = views \cup {v}
        /\ mem' = [mem EXCEPT ![t.chunks[t.bufs[b]].hal] = Torn]
        /\ t.chunks[t.bufs[b]].ep = 0
        /\ UNCHANGED <<events, req, maps, aborted, runs>> /\ Idle
    BY DEF MapDiscard, Readable
  <1>3. v.chunk = t.bufs[b] /\ v.seen = None /\ v.wrote
    OBVIOUS
  <1> HIDE DEF t, v
  <1>4. /\ chunks'[v.chunk].ep = 0 /\ mem'[chunks'[v.chunk].hal] = Torn
        /\ \A h \in Hals : mem'[h] = mem[h] \/ mem'[h] = Torn
    BY <1>1, <1>2, <1>3 DEF MInv, TypeInv
  <1>5. CleanInv' /\ BufsAwait /\ GrownBindings
    BY <1>2, <1>4, GrowStale, MapDiscardMemory
  <1>6. Idle' /\ UnseenInv' /\ DOMAIN req'.alloc = {}
    BY <1>2, IdleStale DEF Idle
  <1>7. HistoryInv'
    BY <1>2, <1>3, <1>4, <1>6 DEF SInv, HistoryInv, Past
  <1>t. Torn \notin aborted
    BY TornIsNoOperation DEF MInv, SInv, HistoryInv
  <1>8. \A x \in maps \cup views : chunks'[x.chunk].hal \in Hals
    BY <1>5, OwnersRefer DEF MInv, TypeInv, Chunk, NoneDangles, GrownBindings
  <1>9. StaleInv'
    <2>1. \A d \in Bufs : bufs'[d] # NoChunk => Awaits(bufs[d])'
      BY <1>2, <1>5 DEF BufsAwait, Awaits, Readable, Stale
    <2>2. \A x \in maps : chunks'[x.chunk].want # None /\ mem'[chunks'[x.chunk].hal] \in aborted' =>
             chunks'[x.chunk].want \in x.deps
      BY <1>2, <1>t, <1>4, <1>5, <1>8 DEF SInv, StaleInv, Stale, GrownBindings
    <2>3. QED
      BY <1>2, <1>6, <2>1, <2>2 DEF StaleInv, Bound, Stale
  <1>10. ViewInv'
    BY <1>2, <1>t, <1>4, <1>5, <1>8 DEF SInv, ViewInv, GrownBindings, Readable, Stale
  <1>11. HalfRunUnreadable'
    BY <1>2, <1>3, <1>5 DEF SInv, HalfRunUnreadable, GrownBindings
  <1>12. QED
    BY <1>5, <1>6, <1>7, <1>9, <1>10, <1>11 DEF SInv

LEMMA StartRunStale ==
    ASSUME MInv, BInv, SInv, MInv', NEW call \in Calls, StartRun(call)
    PROVE  SInv'
  <1> DEFINE s == BuildChunkMap(call)
  <1>1. Placed(s, call.allocs) /\ Len(s.alloc) = Len(call.allocs)
    BY ChunkMapBuilt DEF MInv, StartRun
  <1> HIDE DEF s
  <1>2. /\ chunks' = s.chunks /\ bufs' = s.bufs
        /\ req'.call = call /\ req'.alloc = s.alloc /\ req'.event = <<>>
        /\ runs' = runs + 1
        /\ UNCHANGED <<events, mem, maps, views, aborted>> /\ Idle
    BY DEF StartRun, s
  <1>3. CleanInv' /\ BufsAwait /\ GrownBindings
    BY <1>2, GrowStale, StartRunMemory
  <1>4. HistoryInv'
    <2>1. runs' > 0
      BY <1>2, Bounds DEF MInv, TypeInv
    <2>2. QED
      BY <1>2, <2>1 DEF SInv, HistoryInv, Past
  <1>5. UnseenInv'
    BY <1>2 DEF UnseenInv, ReqEvents
  <1>6. StaleInv'
    <2>1. \A d \in Bufs : bufs'[d] # NoChunk => Awaits(bufs[d])'
      BY <1>2, <1>3 DEF BufsAwait, Awaits, Readable, Stale
    <2>2. ASSUME NEW i \in DOMAIN s.alloc, NEW k, k = chunks'[s.alloc[i]],
                 k.ep = 0, k.want # None, mem'[k.hal] \in aborted'
          PROVE  Overdue(events', k.want, k.hal) /\ k.want \in k.pending
      <3>1. /\ i \in 1..Len(s.alloc) /\ s.alloc[i] \in DOMAIN chunks' /\ s.alloc[i] # NoChunk
            /\ call.allocs \in Seq(Alloc)
        BY <1>1, <1>2, Bounds, RuntimeAssumption DEF Placed
      <3>2. call.allocs[i] \in Alloc
        BY <1>1, <3>1
      <3>3. s.alloc[i] \in DOMAIN chunks
        BY <1>2, <2>2, <3>1, StartRunMemory DEF Grown
      <3>4. call.allocs[i].in # NoBuf /\ call.allocs[i].in \in Bufs
        BY <1>1, <3>1, <3>2, <3>3 DEF Placed, Alloc
      <3>5. bufs'[call.allocs[i].in] = s.alloc[i]
        BY <1>1, <1>2, <3>1, <3>4 DEF Placed
      <3>6. QED
        BY <1>2, <1>3, <2>2, <3>1, <3>4, <3>5 DEF BufsAwait
    <2>3. \A i \in DOMAIN req'.alloc : Awaits(req.alloc[i])'
      BY <1>2, <2>2 DEF Awaits, Readable, Stale
    <2>4. \A x \in maps : chunks'[x.chunk].want # None /\ mem'[chunks'[x.chunk].hal] \in aborted' =>
             chunks'[x.chunk].want \in x.deps
      BY <1>2, <1>3 DEF SInv, StaleInv, Stale, GrownBindings
    <2>5. QED
      BY <1>2, <2>1, <2>3, <2>4 DEF StaleInv, Bound, Stale
  <1>7. ViewInv'
    BY <1>2, <1>3 DEF SInv, ViewInv, GrownBindings, Readable, Stale
  <1>8. HalfRunUnreadable'
    BY <1>2, <1>3 DEF SInv, HalfRunUnreadable, GrownBindings
  <1>9. QED
    BY <1>3, <1>4, <1>5, <1>6, <1>7, <1>8 DEF SInv

\* A mapping that succeeds does not show stale memory: it waited for what was to write it.
LEMMA MapReadyStale ==
    ASSUME MInv, BInv, SInv, MInv', NEW m \in maps, MapReady(m)
    PROVE  SInv'
  <1> DEFINE v == [buf |-> m.buf, chunk |-> m.chunk, seen |-> mem[chunks[m.chunk].hal], wrote |-> FALSE]
  <1>1. /\ m.deps \subseteq Finished \ Failed
        /\ maps' = maps \ {m} /\ views' = views \cup {v}
        /\ UNCHANGED <<bufs, chunks, events, mem, req, aborted, runs>>
        /\ v.chunk = m.chunk /\ v.seen = mem[chunks[m.chunk].hal] /\ ~v.wrote
    BY DEF MapReady
  <1> HIDE DEF v
  <1>2. m.chunk \in DOMAIN chunks /\ m.buf \in Bufs /\ Bound(m.buf) /\ bufs[m.buf] = m.chunk
    BY OwnersRefer, Bounds DEF MInv, TypeInv, Map, NoneDangles, BInv, BufInv, Bound
  <1>3. chunks[m.chunk].hal \in Hals
    BY <1>2 DEF MInv, TypeInv, Chunk
  <1>4. chunks[m.chunk].want # None => v.seen \notin aborted
    <2> SUFFICES ASSUME chunks[m.chunk].want # None, Stale(chunks[m.chunk].hal) PROVE FALSE
      BY <1>1 DEF Stale
    <2>1. chunks[m.chunk].want \in m.deps
      BY DEF SInv, StaleInv
    <2>2. Readable(chunks[m.chunk])
      BY DEF SInv, ViewInv
    <2>3. Overdue(events, chunks[m.chunk].want, chunks[m.chunk].hal)
      BY <1>2, <2>2 DEF SInv, StaleInv, Awaits
    <2>4. QED
      BY <1>1, <2>1, <2>3 DEF Overdue, Finished, Failed
  <1>5. \A e \in ReqEvents : v.seen # e
    <2>1. chunks[m.chunk].hal \notin Mem(ReqChunks)
      BY MappedApart DEF Mem, ReqChunks
    <2>2. QED
      BY <1>1, <1>3, <2>1 DEF SInv, UnseenInv
  <1>6. /\ Idle' = Idle /\ Busy' = Busy /\ ReqEvents' = ReqEvents /\ ReqChunks' = ReqChunks
        /\ \A e : Writes(e)' = Writes(e)
        /\ Mem(ReqChunks)' = Mem(ReqChunks)
    BY <1>1 DEF Idle, Busy, Finished, ReqEvents, ReqChunks, Writes, Mem
  <1>7. HistoryInv'
    BY <1>1, <1>3, <1>6 DEF SInv, HistoryInv, Past
  <1>8. UnseenInv'
    BY <1>1, <1>5, <1>6 DEF SInv, UnseenInv
  <1>9. CleanInv'
    BY <1>1, <1>6 DEF SInv, CleanInv
  <1>10. StaleInv'
    BY <1>1 DEF SInv, StaleInv, Awaits, Bound, Stale, Replaced, Out
  <1>11. ViewInv'
    BY <1>1 DEF SInv, ViewInv, Stale
  <1>12. HalfRunUnreadable'
    BY <1>1, <1>4 DEF SInv, HalfRunUnreadable
  <1>13. QED
    BY <1>7, <1>8, <1>9, <1>10, <1>11, <1>12 DEF SInv

LEMMA HostWritesStale ==
    ASSUME MInv, BInv, SInv, MInv', NEW v \in views, HostWrites(v)
    PROVE  SInv'
  <1> DEFINE w == [v EXCEPT !.wrote = TRUE]
  <1>1. /\ mem' = [mem EXCEPT ![chunks[v.chunk].hal] = Torn]
        /\ views' = (views \ {v}) \cup {w}
        /\ UNCHANGED <<bufs, chunks, events, req, maps, aborted, runs>> /\ Idle
    BY DEF HostWrites
  <1>2. w.chunk = v.chunk /\ w.seen = v.seen /\ w.wrote
    BY DEF MInv, TypeInv, View
  <1> HIDE DEF w
  <1>3. /\ chunks[v.chunk].hal \in Hals
        /\ \A x \in maps \cup views : chunks[x.chunk].hal \in Hals
        /\ \A b \in Bufs : Bound(b) => chunks[bufs[b]].hal \in Hals
    BY OwnersRefer DEF MInv, TypeInv, Chunk, NoneDangles
  <1>4. Torn \notin aborted
    BY TornIsNoOperation DEF MInv, SInv, HistoryInv
  <1>5. /\ mem'[chunks[v.chunk].hal] = Torn
        /\ \A h \in Hals : mem'[h] = mem[h] \/ mem'[h] = Torn
    BY <1>1, <1>3 DEF MInv, TypeInv
  <1>6. \A h \in Hals : mem'[h] \in aborted' => Stale(h)
    BY <1>1, <1>4, <1>5 DEF Stale
  <1>7. Idle' /\ UnseenInv' /\ DOMAIN req'.alloc = {} /\ Busy' = Busy /\ \A e : Writes(e)' = Writes(e)
    BY <1>1, IdleStale DEF Idle, Busy, Finished, Writes
  <1>8. HistoryInv'
    BY <1>1, <1>2, <1>5, <1>7 DEF SInv, HistoryInv, Past
  <1>9. CleanInv'
    BY <1>1, <1>7 DEF SInv, CleanInv
  <1>10. StaleInv'
    <2>1. \A b \in Bufs : Bound(b) => Awaits(bufs[b])'
      BY <1>1, <1>3, <1>6 DEF SInv, StaleInv, Awaits, Stale, Replaced, Out
    <2>2. \A m \in maps : chunks[m.chunk].want # None /\ mem'[chunks[m.chunk].hal] \in aborted' =>
             chunks[m.chunk].want \in m.deps
      BY <1>3, <1>6 DEF SInv, StaleInv
    <2>3. QED
      BY <1>1, <1>7, <2>1, <2>2 DEF StaleInv, Bound, Stale
  <1>11. ViewInv'
    <2>1. mem'[chunks[w.chunk].hal] \notin aborted'
      BY <1>1, <1>2, <1>4, <1>5
    <2>2. \A x \in views : x.wrote => mem'[chunks[x.chunk].hal] \notin aborted'
      BY <1>3, <1>6 DEF SInv, ViewInv
    <2>3. \A x \in views' : x.wrote => mem'[chunks[x.chunk].hal] \notin aborted'
      BY <1>1, <2>1, <2>2
    <2>4. \A x \in maps' \cup views' : Readable(chunks[x.chunk])
      BY <1>1, <1>2 DEF SInv, ViewInv
    <2>5. QED
      BY <1>1, <2>3, <2>4 DEF ViewInv, Stale
  <1>12. HalfRunUnreadable'
    BY <1>1, <1>2 DEF SInv, HalfRunUnreadable
  <1>13. QED
    BY <1>7, <1>8, <1>9, <1>10, <1>11, <1>12 DEF SInv

LEMMA LaunchStepStale ==
    ASSUME MInv, BInv, SInv, MInv', LaunchStep
    PROVE  SInv'
  <1>1. PICK n \in Nat : TakesStep(n)
    BY StepTaken
  <1>2. /\ UNCHANGED <<bufs, mem, maps, views, aborted, runs>>
        /\ req.step \in DOMAIN req.call.steps
        /\ \A c \in StepChunks : Readable(chunks[c])
    BY DEF LaunchStep
  <1>3. ~Idle /\ req.step \in DOMAIN req.call.steps /\ Step.ins \cup Step.outs \subseteq DOMAIN req.alloc
    BY <1>2, CurrentStep
  <1>4. /\ n \notin DOMAIN events /\ n \in 1..MaxEvents /\ DOMAIN events' = DOMAIN events \cup {n}
        /\ \A x \in DOMAIN events : events'[x] = events[x]
        /\ events'[n].st = "waiting" /\ events'[n].writes = Mem(StepOuts)
        /\ Busy' = Busy \cup {n} /\ Busy \subseteq DOMAIN events
        /\ ReqEvents' = ReqEvents \cup {n} /\ ReqChunks' = ReqChunks
        /\ StepOuts \subseteq ReqChunks /\ ReqChunks \subseteq DOMAIN chunks
    BY <1>1 DEF TakesStep, Added
  <1>5. /\ DOMAIN chunks' = DOMAIN chunks
        /\ \A c \in DOMAIN chunks :
              /\ chunks'[c].hal = chunks[c].hal /\ chunks'[c].tmp = chunks[c].tmp
              /\ chunks'[c].ep = chunks[c].ep
              /\ c \notin StepOuts => chunks'[c] = chunks[c]
              /\ c \in StepOuts => chunks'[c].want = n
              /\ chunks'[c].pending =
                   IF c \in StepOuts /\ AddDep(c) THEN chunks[c].pending \cup {n} ELSE chunks[c].pending
    BY <1>1 DEF TakesStep
  <1>6. /\ req'.call = req.call /\ req'.alloc = req.alloc
        /\ \A i : Out(i)' = Out(i)
        /\ \A c : Replaced(c)' = Replaced(c)
    BY <1>1 DEF TakesStep, Out, Replaced
  <1>7. n \notin Past /\ n \notin aborted
    BY <1>4, Bounds DEF Past, None, Torn, SInv, HistoryInv
  <1>8. Mem(ReqChunks)' = Mem(ReqChunks) /\ Mem(StepOuts) \subseteq Mem(ReqChunks)
    <2>1. \A c \in ReqChunks : chunks'[c].hal = chunks[c].hal
      BY <1>4, <1>5
    <2>2. ReqChunks' = ReqChunks /\ StepOuts \subseteq ReqChunks
      BY <1>4
    <2>3. QED
      BY <2>1, <2>2 DEF Mem
  <1>9. HistoryInv'
    BY <1>2, <1>3, <1>4 DEF SInv, HistoryInv, Past
  <1>10. UnseenInv'
    <2> SUFFICES ASSUME NEW e \in ReqEvents \cup {n}
                 PROVE  /\ e \in Busy' => events'[e].writes \subseteq Mem(ReqChunks)
                        /\ \A h \in Hals : mem[h] = e => h \in Mem(ReqChunks)
                        /\ \A v \in views : v.seen # e
      BY <1>2, <1>4, <1>8 DEF UnseenInv, Writes
    <2>1. CASE e = n
      BY <1>4, <1>7, <1>8, <2>1 DEF SInv, HistoryInv
    <2>2. CASE e # n
      <3>1. e \in ReqEvents /\ (e \in Busy' => e \in Busy /\ events'[e] = events[e])
        BY <1>4, <2>2
      <3>2. QED
        BY <3>1 DEF SInv, UnseenInv, Writes
    <2>3. QED
      BY <2>1, <2>2
  <1>11. CleanInv'
    <2> SUFFICES ASSUME NEW c \in DOMAIN chunks, ~chunks[c].tmp, chunks[c].ep = 0,
                        NEW e \in aborted, e \in Busy'
                 PROVE  chunks[c].hal \notin events'[e].writes
      BY <1>2, <1>5 DEF CleanInv, Readable, Writes
    <2>1. e \in Busy /\ events'[e] = events[e]
      BY <1>4, <1>7
    <2>2. chunks[c].hal \notin events[e].writes
      BY <2>1 DEF SInv, CleanInv, Readable, Writes
    <2>3. QED
      BY <2>1, <2>2
  <1>12. ASSUME NEW c \in DOMAIN chunks, Awaits(c) \/ c \in StepOuts,
                chunks'[c].ep = 0, chunks'[c].want # None, mem[chunks[c].hal] \in aborted
         PROVE  /\ Overdue(events', chunks'[c].want, chunks[c].hal)
                /\ chunks'[c].want \in chunks'[c].pending \/ Replaced(c)
    <2>1. CASE c \in StepOuts
      <3>1. chunks'[c].want = n /\ chunks[c].hal \in Mem(StepOuts)
        BY <1>5, <2>1 DEF Mem
      <3>2. Overdue(events', n, chunks[c].hal)
        BY <1>4, <3>1 DEF Overdue
      <3>3. AddDep(c) => n \in chunks'[c].pending
        BY <1>5, <2>1
      <3>4. ~AddDep(c) => Replaced(c)
        <4> SUFFICES ASSUME ~AddDep(c) PROVE Replaced(c)
          OBVIOUS
        <4>1. PICK i \in Step.outs : req.alloc[i] = c
          BY <2>1 DEF StepOuts
        <4>2. i \in DOMAIN req.alloc /\ i \in WrittenAllocs(req.call)
          BY <1>3 DEF WrittenAllocs, Step
        <4>3. Out(i) = NoBuf
          BY <4>1, <4>2 DEF AddDep, Out
        <4>4. QED
          BY <4>1, <4>2, <4>3 DEF Replaced
      <3>5. QED
        BY <3>1, <3>2, <3>3, <3>4
    <2>2. CASE c \notin StepOuts
      <3>1. chunks'[c] = chunks[c] /\ Awaits(c)
        BY <1>5, <1>12, <2>2
      <3>2. /\ Overdue(events, chunks[c].want, chunks[c].hal)
            /\ chunks[c].want \in chunks[c].pending \/ Replaced(c)
        BY <1>12, <3>1 DEF Awaits, Readable, Stale
      <3>3. QED
        BY <1>4, <3>1, <3>2 DEF Overdue
    <2>3. QED
      BY <2>1, <2>2
  <1>13. StaleInv'
    <2>1. ASSUME NEW b \in Bufs, Bound(b)
          PROVE  bufs[b] \in DOMAIN chunks /\ Awaits(bufs[b])
      BY <2>1, OwnersRefer DEF MInv, NoneDangles, SInv, StaleInv
    <2>2. ASSUME NEW i \in DOMAIN req.alloc, Out(i) # NoBuf
          PROVE  req.alloc[i] \in DOMAIN chunks /\ Awaits(req.alloc[i])
      BY <1>4, <2>2 DEF ReqChunks, SInv, StaleInv
    <2>c. \A c \in DOMAIN chunks : Awaits(c) \/ c \in StepOuts => Awaits(c)'
      BY <1>2, <1>5, <1>6, <1>12 DEF Awaits, Readable, Stale
    <2>3. \A b \in Bufs : Bound(b) => Awaits(bufs[b])'
      BY <1>2, <2>c, <2>1
    <2>4. \A i \in DOMAIN req.alloc : Out(i) # NoBuf => Awaits(req.alloc[i])'
      BY <1>6, <2>c, <2>2
    <2>5. ASSUME NEW m \in maps
          PROVE  chunks'[m.chunk] = chunks[m.chunk]
      <3>1. m.chunk \notin ReqChunks /\ m.chunk \in DOMAIN chunks
        BY MappedApart, OwnersRefer DEF ReqChunks, MInv, NoneDangles
      <3>2. QED
        BY <1>4, <1>5, <3>1
    <2>6. QED
      BY <1>2, <1>6, <2>3, <2>4, <2>5 DEF SInv, StaleInv, Bound, Stale
  <1>14. \A x \in maps \cup views : chunks'[x.chunk] = chunks[x.chunk]
    <2> SUFFICES ASSUME NEW x \in maps \cup views PROVE chunks'[x.chunk] = chunks[x.chunk]
      OBVIOUS
    <2>1. x.chunk \notin ReqChunks /\ x.chunk \in DOMAIN chunks
      BY MappedApart, OwnersRefer DEF ReqChunks, MInv, NoneDangles
    <2>2. QED
      BY <1>4, <1>5, <2>1
  <1>15. ViewInv' /\ HalfRunUnreadable'
    BY <1>2, <1>14 DEF SInv, ViewInv, HalfRunUnreadable, Stale
  <1>16. QED
    BY <1>9, <1>10, <1>11, <1>13, <1>15 DEF SInv

\* A launch is refused: what it was given is poisoned, and all that its operations write.
LEMMA LaunchFailsStale ==
    ASSUME MInv, BInv, SInv, MInv', LaunchFails
    PROVE  SInv'
  <1>1. PICK cs : Poisons(cs)
    BY LaunchPoisons
  <1>2. /\ req' = NoReq /\ aborted' = aborted \cup ReqEvents
        /\ req.step \in DOMAIN req.call.steps
        /\ UNCHANGED <<bufs, events, mem, maps, views, runs>>
    BY DEF LaunchFails, ReqEvents
  <1>3. runs > 0
    BY <1>2, CurrentStep DEF SInv, HistoryInv
  <1>4. \A c \in DOMAIN chunks' :
           /\ c \in DOMAIN chunks
           /\ chunks'[c].hal = chunks[c].hal /\ chunks'[c].tmp = chunks[c].tmp
           /\ chunks'[c].ep = 0 => c \notin ReqChunks /\ chunks'[c] = chunks[c]
           /\ c \notin ReqChunks => chunks'[c] = chunks[c]
    BY <1>1, <1>3 DEF Poisons, DropTo
  <1>5. NoneDangles' /\ NoneDangles
    BY OwnersReferMemory, OwnersRefer DEF MInv
  <1>6. /\ Idle' /\ Busy' = Busy /\ \A e : Writes(e)' = Writes(e)
    BY <1>2 DEF Idle, Busy, Finished, Writes
  <1>7. DOMAIN req'.alloc = {} /\ UnseenInv'
    BY <1>6, IdleStale
  <1>8. HistoryInv'
    BY <1>2, <1>6 DEF SInv, HistoryInv, Past, MInv, PastInv
  <1>9. ASSUME NEW c \in DOMAIN chunks \ ReqChunks
        PROVE  /\ chunks[c].hal \notin Mem(ReqChunks)
               /\ mem[chunks[c].hal] \notin ReqEvents
               /\ \A e \in ReqEvents \cap Busy : chunks[c].hal \notin Writes(e)
    <2>1. chunks[c].hal \notin Mem(ReqChunks)
      BY <1>5 DEF MInv, OwnerInv, Mem, NoneDangles
    <2>2. chunks[c].hal \in Hals
      BY DEF MInv, TypeInv, Chunk
    <2>3. QED
      BY <2>1, <2>2 DEF SInv, UnseenInv
  <1>10. CleanInv'
    BY <1>2, <1>4, <1>6, <1>9 DEF SInv, CleanInv, Readable
  <1>11. \A x \in maps \cup views : x.chunk \in DOMAIN chunks \ ReqChunks /\ chunks'[x.chunk] = chunks[x.chunk]
    <2> SUFFICES ASSUME NEW x \in maps \cup views
                 PROVE  x.chunk \in DOMAIN chunks \ ReqChunks /\ chunks'[x.chunk] = chunks[x.chunk]
      OBVIOUS
    <2>1. x.chunk \notin ReqChunks /\ x.chunk \in DOMAIN chunks
      BY <1>5, MappedApart DEF ReqChunks, NoneDangles
    <2>2. x.chunk \in DOMAIN chunks'
      BY <1>2, <1>5 DEF NoneDangles
    <2>3. QED
      BY <1>4, <2>1, <2>2
  <1>12. StaleInv'
    <2>1. ASSUME NEW b \in Bufs, Bound(b), NEW k, k = chunks'[bufs[b]],
                 k.ep = 0, k.want # None, mem[k.hal] \in aborted'
          PROVE  Overdue(events, k.want, k.hal) /\ k.want \in k.pending
      <3>1. bufs[b] \in DOMAIN chunks'
        BY <1>2, <1>5, <2>1 DEF NoneDangles, Bound
      <3>2. bufs[b] \in DOMAIN chunks \ ReqChunks /\ k = chunks[bufs[b]]
        BY <1>4, <2>1, <3>1
      <3>3. Stale(k.hal)
        BY <1>2, <1>9, <2>1, <3>2 DEF Stale
      <3>4. ~Replaced(bufs[b])
        BY <3>2 DEF Replaced, ReqChunks
      <3>5. Awaits(bufs[b])
        BY <2>1 DEF SInv, StaleInv
      <3>6. QED
        BY <2>1, <3>2, <3>3, <3>4, <3>5 DEF Awaits, Readable
    <2>2. \A b \in Bufs : Bound(b) => Awaits(bufs[b])'
      BY <1>2, <2>1 DEF Awaits, Readable, Stale
    <2>3. \A m \in maps : chunks'[m.chunk].want # None /\ mem[chunks'[m.chunk].hal] \in aborted' =>
             chunks'[m.chunk].want \in m.deps
      BY <1>2, <1>9, <1>11 DEF SInv, StaleInv, Stale
    <2>4. QED
      BY <1>2, <1>7, <2>2, <2>3 DEF StaleInv, Bound, Stale
  <1>13. ViewInv'
    BY <1>2, <1>9, <1>11 DEF SInv, ViewInv, Stale
  <1>14. HalfRunUnreadable'
    BY <1>2, <1>11 DEF SInv, HalfRunUnreadable, UnseenInv
  <1>15. QED
    BY <1>7, <1>8, <1>10, <1>12, <1>13, <1>14 DEF SInv

\* A buffer that a request does not overwrite gets no chunk that the request wrote for itself.
LEMMA LaunchSucceedsStale ==
    ASSUME SeparateInputs, MInv, BInv, SInv, MInv', LaunchSucceeds
    PROVE  SInv'
  <1>1. /\ req' = NoReq /\ DropTo(chunks, Referenced(bufs', NoReq, shims', maps, views))
        /\ UNCHANGED <<events, mem, maps, views, aborted, runs>>
    BY DEF LaunchSucceeds
  <1>2. /\ \A c \in DOMAIN chunks' : c \in DOMAIN chunks /\ chunks'[c] = chunks[c]
    BY <1>1 DEF DropTo
  <1>3. NoneDangles'
    BY OwnersReferMemory
  <1>4. /\ Idle' /\ Busy' = Busy /\ \A e : Writes(e)' = Writes(e)
    BY <1>1 DEF Idle, Busy, Finished, Writes
  <1>5. DOMAIN req'.alloc = {} /\ UnseenInv'
    BY <1>4, IdleStale
  <1>6. HistoryInv'
    BY <1>1, <1>4 DEF SInv, HistoryInv, Past
  <1>7. CleanInv'
    BY <1>1, <1>2, <1>4 DEF SInv, CleanInv
  <1>8. ASSUME NEW b \in Bufs, bufs'[b] # NoChunk
        PROVE  Awaits(bufs'[b]) /\ ~Replaced(bufs'[b])
    <2>1. ASSUME NEW i \in DOMAIN req.alloc, Out(i) = b, bufs'[b] = req.alloc[i]
          PROVE  Awaits(bufs'[b]) /\ ~Replaced(bufs'[b])
      <3>1. Out(i) # NoBuf
        BY <2>1, RuntimeAssumption
      <3>2. \A j \in DOMAIN req.alloc : j \in WrittenAllocs(req.call) /\ req.alloc[j] = req.alloc[i] => j = i
        BY AllocsApart
      <3>3. QED
        BY <2>1, <3>1, <3>2 DEF SInv, StaleInv, Replaced
    <2>2. ASSUME b \notin Outputs(req.call), Bound(b), bufs'[b] = bufs[b]
          PROVE  Awaits(bufs'[b]) /\ ~Replaced(bufs'[b])
      <3>1. ASSUME NEW j \in DOMAIN req.alloc, req.alloc[j] = bufs[b], j \in WrittenAllocs(req.call)
            PROVE  FALSE
        <4>1. In(j) # NoBuf
          BY <3>1 DEF BInv, AllocInv
        <4>2. In(j) \in Outputs(req.call)
          BY <3>1, <4>1, ConsumedInput
        <4>3. In(j) \in Bufs /\ bufs[In(j)] = bufs[b]
          BY <3>1, <4>1, RequestAllocs DEF BInv, AllocInv, MInv
        <4>4. In(j) = b
          BY <2>2, <4>3 DEF BInv, BufInv, Bound
        <4>5. QED
          BY <2>2, <4>2, <4>4
      <3>2. QED
        BY <2>2, <3>1 DEF SInv, StaleInv, Replaced
    <2>3. QED
      BY <1>8, <2>1, <2>2, BufferRemapped
  <1>9. StaleInv'
    <2>1. ASSUME NEW b \in Bufs, bufs'[b] # NoChunk, NEW k, k = chunks'[bufs'[b]],
                 k.ep = 0, k.want # None, mem[k.hal] \in aborted
          PROVE  Overdue(events, k.want, k.hal) /\ k.want \in k.pending
      <3>1. bufs'[b] \in DOMAIN chunks' /\ k = chunks[bufs'[b]]
        BY <1>2, <1>3, <2>1 DEF NoneDangles, Bound
      <3>2. QED
        BY <1>8, <2>1, <3>1 DEF Awaits, Readable, Stale
    <2>2. \A b \in Bufs : bufs'[b] # NoChunk => Awaits(bufs[b])'
      BY <1>1, <2>1 DEF Awaits, Readable, Stale
    <2>3. \A m \in maps : chunks'[m.chunk] = chunks[m.chunk]
      BY <1>1, <1>2, <1>3 DEF NoneDangles
    <2>4. QED
      BY <1>1, <1>5, <2>2, <2>3 DEF SInv, StaleInv, Bound, Stale
  <1>10. ViewInv' /\ HalfRunUnreadable'
    BY <1>1, <1>2, <1>3 DEF SInv, ViewInv, HalfRunUnreadable, NoneDangles, Stale
  <1>11. QED
    BY <1>5, <1>6, <1>7, <1>9, <1>10 DEF SInv

LEMMA WriteBackStale ==
    ASSUME MInv, BInv, SInv, MInv', NEW v \in views, WriteBack(v)
    PROVE  SInv'
  <1>1. PICK n \in Nat : WritesBack(v, n)
    BY WriteBackAdds
  <1>2. UNCHANGED <<bufs, mem, req, maps, aborted, runs>> /\ views' = views \ {v} /\ Idle
    BY DEF WriteBack
  <1>3. /\ n \notin DOMAIN events /\ n \in 1..MaxEvents /\ DOMAIN events' = DOMAIN events \cup {n}
        /\ \A x \in DOMAIN events : events'[x] = events[x]
        /\ Busy' = Busy \cup {n} /\ Busy \subseteq DOMAIN events
    BY <1>1 DEF WritesBack, Added
  <1>4. /\ v.chunk \in DOMAIN chunks
        /\ \A c \in DOMAIN chunks' :
              /\ c \in DOMAIN chunks
              /\ chunks'[c].hal = chunks[c].hal /\ chunks'[c].tmp = chunks[c].tmp
              /\ c # v.chunk => chunks'[c] = chunks[c]
              /\ c = v.chunk => /\ chunks'[c].ep = 0 /\ chunks'[c].pending = chunks[c].pending \cup {n}
                                /\ chunks'[c].want = IF v.wrote THEN n ELSE chunks[c].want
    BY <1>1 DEF WritesBack
  <1>5. /\ Readable(chunks[v.chunk])
        /\ v.wrote => ~Stale(chunks[v.chunk].hal)
    BY DEF SInv, ViewInv
  <1>6. n \notin aborted
    BY <1>3 DEF SInv, HistoryInv
  <1>7. NoneDangles'
    BY OwnersReferMemory
  <1>8. Idle' /\ UnseenInv' /\ DOMAIN req'.alloc = {}
    BY <1>2, IdleStale DEF Idle
  <1>9. HistoryInv'
    BY <1>2, <1>3, <1>8 DEF SInv, HistoryInv, Past
  <1>10. CleanInv'
    <2> SUFFICES ASSUME NEW c \in DOMAIN chunks', ~chunks'[c].tmp, chunks'[c].ep = 0, NEW e \in aborted \cap Busy'
                 PROVE  chunks'[c].hal \notin events'[e].writes
      BY <1>2 DEF CleanInv, Readable, Writes
    <2>1. e \in Busy /\ events'[e] = events[e]
      BY <1>3, <1>6
    <2>2. ~chunks[c].tmp /\ Readable(chunks[c]) /\ chunks'[c].hal = chunks[c].hal /\ c \in DOMAIN chunks
      BY <1>4, <1>5 DEF Readable
    <2>3. QED
      BY <2>1, <2>2 DEF SInv, CleanInv, Writes
  <1>11. \A x \in maps \cup views' : x.chunk # v.chunk /\ x.chunk \in DOMAIN chunks' /\ chunks'[x.chunk] = chunks[x.chunk]
    <2> SUFFICES ASSUME NEW x \in maps \cup views'
                 PROVE  x.chunk # v.chunk /\ x.chunk \in DOMAIN chunks' /\ chunks'[x.chunk] = chunks[x.chunk]
      OBVIOUS
    <2>1. x.buf # v.buf
      BY <1>2 DEF BInv, BufInv
    <2>2. /\ x.buf \in Bufs /\ v.buf \in Bufs /\ bufs[x.buf] = x.chunk /\ bufs[v.buf] = v.chunk
          /\ v.chunk # NoChunk
      BY <1>2, <1>4, Bounds DEF BInv, BufInv, MInv, TypeInv, Map, View
    <2>3. x.chunk # v.chunk
      BY <2>1, <2>2 DEF BInv, BufInv, Bound
    <2>4. x.chunk \in DOMAIN chunks'
      BY <1>2, <1>7 DEF NoneDangles
    <2>5. QED
      BY <1>4, <2>3, <2>4
  <1>12. StaleInv'
    <2>1. ASSUME NEW b \in Bufs, Bound(b), NEW k, k = chunks'[bufs[b]],
                 k.ep = 0, k.want # None, mem[k.hal] \in aborted
          PROVE  Overdue(events', k.want, k.hal) /\ k.want \in k.pending
      <3>1. bufs[b] \in DOMAIN chunks'
        BY <1>2, <1>7, <2>1 DEF NoneDangles, Bound
      <3>2. k.want = chunks[bufs[b]].want /\ k.hal = chunks[bufs[b]].hal
            /\ Readable(chunks[bufs[b]]) /\ chunks[bufs[b]].pending \subseteq k.pending
        BY <1>4, <1>5, <2>1, <3>1 DEF Stale, Readable
      <3>3. ~Replaced(bufs[b])
        BY <1>2, <1>8 DEF Replaced
      <3>4. Overdue(events, k.want, k.hal) /\ k.want \in k.pending
        BY <2>1, <3>2, <3>3 DEF SInv, StaleInv, Awaits, Stale
      <3>5. QED
        BY <1>3, <3>4 DEF Overdue
    <2>2. \A b \in Bufs : Bound(b) => Awaits(bufs[b])'
      BY <1>2, <2>1 DEF Awaits, Readable, Stale
    <2>3. \A m \in maps : chunks'[m.chunk].want # None /\ mem[chunks'[m.chunk].hal] \in aborted =>
             chunks'[m.chunk].want \in m.deps
      BY <1>11 DEF SInv, StaleInv, Stale
    <2>4. QED
      BY <1>2, <1>8, <2>2, <2>3 DEF StaleInv, Bound, Stale
  <1>13. ViewInv'
    BY <1>2, <1>11 DEF SInv, ViewInv, Stale
  <1>14. HalfRunUnreadable'
    BY <1>2, <1>11 DEF SInv, HalfRunUnreadable
  <1>15. QED
    BY <1>8, <1>9, <1>10, <1>12, <1>13, <1>14 DEF SInv

\* The device writes the memory of operation e, or is finished with it.
LEMMA DeviceStale ==
    ASSUME MInv, SInv, MInv', NEW e \in Busy,
           UNCHANGED <<bufs, req, maps, views, aborted, runs>>,
           SameMemory(chunks'),
           \A c \in DOMAIN chunks : chunks'[c].want = chunks[c].want
                                    /\ chunks[c].pending \ {e} \subseteq chunks'[c].pending,
           DOMAIN events' = DOMAIN events, Busy' \subseteq Busy,
           events'[e].writes \subseteq Writes(e),
           \A x \in DOMAIN events : x # e => events'[x] = events[x],
           \A h \in Hals : mem'[h] = mem[h] \/ (h \in Writes(e) /\ mem'[h] \in {e, Torn}),
           \A h \in Hals : Overdue(events, e, h) =>
              \/ mem'[h] = Torn
              \/ Overdue(events', e, h) /\ \A c \in DOMAIN chunks : chunks'[c].pending = chunks[c].pending
    PROVE  SInv'
  <1>1. /\ DOMAIN chunks' = DOMAIN chunks
        /\ \A c \in DOMAIN chunks :
              /\ chunks'[c].hal = chunks[c].hal /\ chunks'[c].tmp = chunks[c].tmp
              /\ chunks'[c].ep = chunks[c].ep /\ chunks[c].hal \in Hals
    BY DEF SameMemory, MInv, TypeInv, Chunk
  <1>2. /\ Idle' = Idle /\ ReqEvents' = ReqEvents /\ ReqChunks' = ReqChunks
        /\ ReqEvents \subseteq DOMAIN events
        /\ \A c : Replaced(c)' = Replaced(c)
    BY DEF Idle, ReqEvents, ReqChunks, Replaced, Out, MInv, PastInv
  <1>3. Torn \notin DOMAIN events /\ Torn \notin aborted
    BY TornIsNoOperation DEF MInv, SInv, HistoryInv
  <1>4. \A x \in Busy' : events'[x].writes \subseteq Writes(x)
    BY DEF Writes, Busy
  <1>5. NoneDangles
    BY OwnersRefer DEF MInv
  <1>6. Mem(ReqChunks)' = Mem(ReqChunks)
    <2>1. \A c \in ReqChunks : chunks'[c].hal = chunks[c].hal
      BY <1>1, <1>5 DEF NoneDangles
    <2>2. ReqChunks' = ReqChunks
      BY <1>2
    <2>3. QED
      BY <2>1, <2>2 DEF Mem
  <1>7. HistoryInv'
    BY <1>2 DEF SInv, HistoryInv, Past, Busy
  <1>8. UnseenInv'
    <2> SUFFICES ASSUME NEW x \in ReqEvents
                 PROVE  /\ x \in Busy' => events'[x].writes \subseteq Mem(ReqChunks)
                        /\ \A h \in Hals : mem'[h] = x => h \in Mem(ReqChunks)
                        /\ \A v \in views : v.seen # x
      BY <1>2, <1>6 DEF UnseenInv, Writes
    <2>1. /\ x \in Busy => Writes(x) \subseteq Mem(ReqChunks)
          /\ \A h \in Hals : mem[h] = x => h \in Mem(ReqChunks)
          /\ \A v \in views : v.seen # x
      BY DEF SInv, UnseenInv
    <2>2. x # Torn
      BY <1>2, <1>3
    <2>3. QED
      BY <1>4, <2>1, <2>2
  <1>9. CleanInv'
    <2>1. ASSUME NEW c \in DOMAIN chunks, ~chunks[c].tmp, chunks[c].ep = 0, NEW x \in aborted \cap Busy'
          PROVE  chunks[c].hal \notin events'[x].writes
      BY <1>4, <2>1 DEF SInv, CleanInv, Readable
    <2>2. QED
      BY <1>1, <2>1 DEF CleanInv, Readable, Writes
  <1>10. ASSUME NEW c \in DOMAIN chunks, ~chunks[c].tmp, Readable(chunks[c]), mem'[chunks[c].hal] \in aborted
         PROVE  Stale(chunks[c].hal)
    <2>1. e \in aborted => chunks[c].hal \notin Writes(e)
      BY <1>10 DEF SInv, CleanInv
    <2>2. QED
      BY <1>1, <1>3, <1>10, <2>1 DEF Stale
  <1>11. ASSUME NEW c \in DOMAIN chunks, ~chunks[c].tmp, Awaits(c)
         PROVE  Awaits(c)'
    <2> SUFFICES ASSUME chunks[c].ep = 0, chunks[c].want # None, mem'[chunks[c].hal] \in aborted
                 PROVE  /\ Overdue(events', chunks[c].want, chunks[c].hal)
                        /\ chunks[c].want \in chunks'[c].pending \/ Replaced(c)
      BY <1>1, <1>2 DEF Awaits, Readable, Stale
    <2>1. /\ Overdue(events, chunks[c].want, chunks[c].hal)
          /\ chunks[c].want \in chunks[c].pending \/ Replaced(c)
      BY <1>10, <1>11 DEF Awaits, Readable
    <2>2. CASE chunks[c].want = e
      BY <1>1, <1>3, <2>1, <2>2
    <2>3. CASE chunks[c].want # e
      BY <2>1, <2>3 DEF Overdue
    <2>4. QED
      BY <2>2, <2>3
  <1>12. StaleInv'
    <2>1. \A b \in Bufs : Bound(b) => bufs[b] \in DOMAIN chunks /\ ~chunks[bufs[b]].tmp /\ Awaits(bufs[b])
      BY <1>5 DEF NoneDangles, MInv, KeepInv, SInv, StaleInv
    <2>2. \A i \in DOMAIN req.alloc : Out(i) # NoBuf =>
             req.alloc[i] \in DOMAIN chunks /\ ~chunks[req.alloc[i]].tmp /\ Awaits(req.alloc[i])
      BY <1>5 DEF NoneDangles, ReqChunks, MInv, KeepInv, SInv, StaleInv, Out
    <2>3. \A m \in maps : m.chunk \in DOMAIN chunks /\ ~chunks[m.chunk].tmp /\ Readable(chunks[m.chunk])
      BY <1>5 DEF NoneDangles, MInv, KeepInv, SInv, ViewInv
    <2>4. \A c \in DOMAIN chunks : ~chunks[c].tmp /\ Awaits(c) => Awaits(c)'
      BY <1>11
    <2>5. \A b \in Bufs : Bound(b) => Awaits(bufs[b])'
      BY <2>1, <2>4
    <2>6. \A i \in DOMAIN req.alloc : Out(i) # NoBuf => Awaits(req.alloc[i])'
      BY <2>2, <2>4
    <2>7. \A m \in maps : chunks'[m.chunk].want # None /\ mem'[chunks'[m.chunk].hal] \in aborted =>
             chunks'[m.chunk].want \in m.deps
      BY <1>1, <1>10, <2>3 DEF SInv, StaleInv
    <2>8. QED
      BY <2>5, <2>6, <2>7 DEF StaleInv, Bound, Stale, Out
  <1>13. ViewInv'
    <2>1. \A x \in maps \cup views : /\ x.chunk \in DOMAIN chunks /\ ~chunks[x.chunk].tmp
                                     /\ Readable(chunks[x.chunk])
      BY <1>5 DEF NoneDangles, MInv, KeepInv, SInv, ViewInv
    <2>2. \A v \in views : v.wrote => mem'[chunks[v.chunk].hal] \notin aborted
      BY <1>10, <2>1 DEF SInv, ViewInv
    <2>3. QED
      BY <1>1, <2>1, <2>2 DEF ViewInv, Readable, Stale
  <1>14. HalfRunUnreadable'
    BY <1>1, <1>5 DEF SInv, HalfRunUnreadable, NoneDangles
  <1>15. QED
    BY <1>7, <1>8, <1>9, <1>12, <1>13, <1>14 DEF SInv

LEMMA StartEventStale ==
    ASSUME MInv, SInv, MInv', NEW e \in DOMAIN events, StartEvent(e)
    PROVE  SInv'
  <1>1. /\ events[e].st = "waiting"
        /\ events' = [events EXCEPT ![e].st = IF ReadsRight(e, {}) THEN "active" ELSE "misread"]
        /\ mem' = Overwrite(Writes(e), Torn)
        /\ UNCHANGED <<bufs, chunks, cache, req, shims, maps, views, aborted, runs>>
    BY DEF StartEvent, Writes
  <1>2. /\ DOMAIN events' = DOMAIN events
        /\ \A x \in DOMAIN events : x # e => events'[x] = events[x]
        /\ events'[e].writes = Writes(e) /\ events'[e].st \in Started
    BY <1>1 DEF MInv, TypeInv, Event, Writes, Started
  <1>3. e \in Busy /\ Busy' \subseteq Busy
    BY <1>1, <1>2 DEF Busy, Finished
  <1>4. \A h \in Hals : mem'[h] = IF h \in Writes(e) THEN Torn ELSE mem[h]
    BY <1>1 DEF Overwrite
  <1>5. \A h \in Hals : Overdue(events, e, h) => mem'[h] = Torn
    BY <1>1, <1>4 DEF Overdue, Writes
  <1>6. SameMemory(chunks')
    BY <1>1 DEF SameMemory
  <1>7. QED
    BY <1>1, <1>2, <1>3, <1>4, <1>5, <1>6, DeviceStale

LEMMA FinishEventStale ==
    ASSUME MInv, SInv, MInv', NEW e \in DOMAIN events, FinishEvent(e)
    PROVE  SInv'
  <1>1. /\ events[e].st \in Started
        /\ events' = [events EXCEPT ![e] = Final(e, "done")]
        /\ chunks' = Erase(e)
        /\ UNCHANGED <<bufs, cache, req, shims, maps, views, aborted, runs>>
    BY DEF FinishEvent, Started
  <1>2. /\ DOMAIN events' = DOMAIN events
        /\ \A x \in DOMAIN events : x # e => events'[x] = events[x]
        /\ events'[e] = Final(e, "done")
    BY <1>1 DEF MInv, TypeInv
  <1>3. e \in Busy /\ Busy' \subseteq Busy /\ events'[e].writes \subseteq Writes(e)
    BY <1>1, <1>2 DEF Busy, Finished, Final, Started, Writes
  <1>4. \A h \in Hals : mem'[h] = mem[h] \/ (h \in Writes(e) /\ mem'[h] \in {e, Torn})
    BY DEF FinishEvent, Overwrite, Writes
  <1>5. \A h : ~Overdue(events, e, h)
    BY <1>1 DEF Overdue, Started
  <1>6. SameMemory(chunks')
    BY FinishEventMemory
  <1>7. \A c \in DOMAIN chunks : chunks'[c].want = chunks[c].want
                                 /\ chunks[c].pending \ {e} \subseteq chunks'[c].pending
    BY <1>1 DEF Erase, MInv, TypeInv, Chunk
  <1>8. QED
    BY <1>1, <1>2, <1>3, <1>4, <1>5, <1>6, <1>7, DeviceStale

LEMMA FailEventStale ==
    ASSUME MInv, SInv, MInv', NEW e \in DOMAIN events, FailEvent(e)
    PROVE  SInv'
  <1>1. /\ events[e].st \in Started \cup {"waiting"}
        /\ events' = [events EXCEPT ![e] = Final(e, "failed")]
        /\ UNCHANGED <<bufs, chunks, cache, mem, req, shims, maps, views, aborted, runs>>
    BY DEF FailEvent, Started
  <1>2. /\ DOMAIN events' = DOMAIN events
        /\ \A x \in DOMAIN events : x # e => events'[x] = events[x]
        /\ events'[e] = Final(e, "failed")
    BY <1>1 DEF MInv, TypeInv
  <1>3. e \in Busy /\ Busy' \subseteq Busy /\ events'[e].writes \subseteq Writes(e)
    BY <1>1, <1>2 DEF Busy, Finished, Final, Started, Writes
  <1>4. \A h : Overdue(events', e, h)
    BY <1>2 DEF Overdue, Final
  <1>5. SameMemory(chunks')
    BY <1>1 DEF SameMemory
  <1>6. QED
    BY <1>1, <1>2, <1>3, <1>4, <1>5, DeviceStale

LEMMA SInit ==
    ASSUME RtInit
    PROVE  SInv
  <1>1. /\ Idle /\ ReqEvents = {} /\ DOMAIN req.alloc = {} /\ DOMAIN chunks = {}
        /\ aborted = {} /\ maps = {} /\ views = {}
        /\ \A b \in Bufs : ~Bound(b)
        /\ \A h \in Hals : mem[h] = None
    BY DEF RtInit, Idle, ReqEvents, NoReq, Bound
  <1>2. QED
    BY <1>1 DEF SInv, HistoryInv, UnseenInv, CleanInv, StaleInv, ViewInv, HalfRunUnreadable, Past

LEMMA SStep ==
    ASSUME SeparateInputs, MInv, BInv, SInv, MInv', [RtNext]_rtVars
    PROVE  SInv'
  <1>1. CASE ClientNext
    BY <1>1, StartRunStale, LaunchStepStale, LaunchFailsStale, LaunchSucceedsStale,
       MapCurrentStale, MapDiscardStale, FreeBufferStale, HostWritesStale, WriteBackStale DEF ClientNext
  <1>2. CASE Continuation
    BY <1>2, ReleaseShimStale, MapReadyStale, MapFailsStale DEF Continuation
  <1>3. CASE DeviceNext
    BY <1>3, StartEventStale, FinishEventStale, FailEventStale DEF DeviceNext
  <1>4. CASE UNCHANGED rtVars
    <2>1. UNCHANGED <<bufs, chunks, events, mem, req, maps, views, aborted, runs>>
      BY <1>4 DEF rtVars
    <2>2. /\ Idle' = Idle /\ Busy' = Busy /\ ReqEvents' = ReqEvents /\ Mem(ReqChunks)' = Mem(ReqChunks)
          /\ (\A e : Writes(e)' = Writes(e)) /\ (\A c : Replaced(c)' = Replaced(c)) /\ Past' = Past
          /\ (\A i : Out(i)' = Out(i)) /\ \A b : Bound(b)' = Bound(b)
      BY <2>1 DEF Idle, Busy, Finished, ReqEvents, Mem, ReqChunks, Writes, Replaced, Out, Past, Bound
    <2>3. HistoryInv' /\ UnseenInv' /\ CleanInv'
      BY <2>1, <2>2 DEF SInv, HistoryInv, UnseenInv, CleanInv
    <2>4. StaleInv' /\ ViewInv' /\ HalfRunUnreadable'
      BY <2>1, <2>2 DEF SInv, StaleInv, Awaits, Stale, ViewInv, HalfRunUnreadable
    <2>5. QED
      BY <2>3, <2>4 DEF SInv
  <1>5. QED
    BY <1>1, <1>2, <1>3, <1>4 DEF RtNext

\* For any programs and buffers, whatever the HAL refuses (shim.cc poisons the chunks) and
\* whatever the device fails, in any order it may take: a mapping of a buffer that something
\* was launched to write never shows what the steps of a launch wrote before a later step of
\* it was refused.  The hypothesis is on the calls only: a buffer that a run overwrites is
\* one of its inputs once.
THEOREM RefusedLaunchesAreNotSeen ==
    SeparateInputs => (RtSpec => []HalfRunUnreadable)
  <1> SUFFICES ASSUME SeparateInputs PROVE RtSpec => []HalfRunUnreadable
    OBVIOUS
  <1>1. RtInit => BInv /\ SInv
    BY BInit, SInit
  <1>2. MInv /\ MInv' /\ BInv /\ SInv /\ [RtNext]_rtVars => BInv' /\ SInv'
    BY BStep, SStep
  <1>3. SInv => HalfRunUnreadable
    BY DEF SInv
  <1>4. QED
    BY <1>1, <1>2, <1>3, MemoryInvariant, PTL DEF RtSpec

=============================================================================
