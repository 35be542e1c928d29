-------------------------- MODULE RuntimeOrderProofs --------------------------
(***************************************************************************)
(* The order of the run time: for any programs whose schedules order what  *)
(* conflicts, two operations that conflict on a piece of memory are never   *)
(* on the device at a time, as long as the HAL refuses no operation and the *)
(* application does not overwrite what a launched operation has to read.   *)
(*                                                                         *)
(* An operation waits for what the schedule names and for what the chunks  *)
(* it touches have pending.  That this is all it has to wait for needs     *)
(* three facts: whatever writes the memory of a buffer is pending in the   *)
(* buffer's chunk, or of the request being queued (RecordInv); memory that *)
(* a request did not get from a buffer is touched by the request only, and *)
(* nobody else reads what it overwrites (OwnInv); and no kernel uses memory *)
(* that the application has mapped (MapInv).  Which chunk is whose (BInv)   *)
(* does not depend on the hypotheses about launches and overwriting.       *)
(***************************************************************************)
EXTENDS RuntimeProofs

Reads(e) == {r[1] : r \in events[e].reads}
Writes(e) == events[e].writes

In(i) == req.call.allocs[i].in
Out(i) == req.call.allocs[i].out

\* A chunk is the chunk of one buffer; what is mapped is the chunk of a buffer, which is
\* mapped once.
BufInv ==
    /\ \A b, d \in Bufs : Bound(b) /\ bufs[b] = bufs[d] => b = d
    /\ \A x \in maps \cup views : bufs[x.buf] = x.chunk
    /\ \A x, y \in maps : x.buf = y.buf => x = y
    /\ \A x, y \in views : x.buf = y.buf => x = y
    /\ \A x \in maps, y \in views : x.buf # y.buf

\* The chunk of an alloc is the chunk of its buffer, or one of its own.
AllocInv ==
    \A i \in DOMAIN req.alloc :
        /\ In(i) # NoBuf => bufs[In(i)] = req.alloc[i]
        /\ In(i) = NoBuf =>
              /\ \A b \in Bufs : bufs[b] # req.alloc[i]
              /\ \A j \in DOMAIN req.alloc : j # i => req.alloc[j] # req.alloc[i]

\* What a request uses is not mapped.
OutInv == ~Idle => \A x \in maps \cup views : x.buf \notin Inputs(req.call) \cup Outputs(req.call)

\* Operation e is step k of the request: it touches the memory of the step's allocs, and
\* is pending where it writes an output.
Launched(k, e) ==
    /\ Writes(e) = {chunks[req.alloc[i]].hal : i \in req.call.steps[k].outs}
    /\ Reads(e) = {chunks[req.alloc[i]].hal : i \in req.call.steps[k].ins}
    /\ \A i \in req.call.steps[k].outs : Out(i) # NoBuf => e \in chunks[req.alloc[i]].pending

LaunchInv == \A k \in DOMAIN req.event : req.event[k] \in Busy => Launched(k, req.event[k])

\* An operation that writes the memory of a buffer is pending, or one of the request.
RecordInv ==
    \A b \in Bufs : Bound(b) =>
        \A d \in Busy : chunks[bufs[b]].hal \in Writes(d) => d \in chunks[bufs[b]].pending \cup ReqEvents

\* Memory of a request that belongs to no buffer is used by nobody else, and what the
\* request overwrites is read by nobody else.
OwnInv ==
    \A i \in DOMAIN req.alloc : \A d \in Busy \ ReqEvents :
        /\ In(i) = NoBuf => chunks[req.alloc[i]].hal \notin Writes(d) \cup Reads(d)
        /\ i \in WrittenAllocs(req.call) => chunks[req.alloc[i]].hal \notin Reads(d)

\* A mapping waits for all that writes the memory; when it is there nothing writes it any
\* more, and nothing reads it if the application has written it.
MapInv ==
    /\ \A m \in maps : \A d \in Busy : chunks[m.chunk].hal \in Writes(d) => d \in m.deps
    /\ \A v \in views : \A d \in Busy :
          /\ chunks[v.chunk].hal \notin Writes(d)
          /\ v.wrote => chunks[v.chunk].hal \notin Reads(d)

\* In ev, e comes after d: d is done, or e waits for it, itself or through operations that
\* wait or have failed (an operation that waits for one that has failed will fail).
Follows(ev, d, e) ==
    \/ ev[d].st = "done"
    \/ \E E \in SUBSET DOMAIN ev :
          /\ e \in E
          /\ \A x \in E : \/ ev[x].st = "failed"
                          \/ ev[x].st = "waiting" /\ (d \in ev[x].deps \/ E \cap ev[x].deps # {})

Clash(d, e) == Writes(d) \cap (Writes(e) \cup Reads(e)) # {} \/ Reads(d) \cap Writes(e) # {}

\* Of two operations that clash the later one comes after the earlier one.
OrderInv == \A d, e \in Busy : d < e /\ Clash(d, e) => Follows(events, d, e)

\* The operations of a request come after each other as its steps do.
ReqOrderInv ==
    \A j, k \in DOMAIN req.event :
        WaitsFor(req.call, j, k) => Follows(events, req.event[j], req.event[k])

\* These three do not depend on whether launches are refused.
BInv == BufInv /\ AllocInv /\ OutInv

OInv ==
    /\ BufInv /\ AllocInv /\ OutInv /\ LaunchInv /\ RecordInv /\ OwnInv /\ MapInv
    /\ OrderInv /\ ReqOrderInv

-----------------------------------------------------------------------------
(* The bindings of buffers *)

\* The allocs of a request are those of its program.
LEMMA RequestAllocs ==
    ASSUME TypeInv
    PROVE  \A i \in DOMAIN req.alloc :
              /\ ~Idle
              /\ i \in DOMAIN req.call.allocs
              /\ In(i) # NoBuf => In(i) \in Bufs /\ In(i) \in Inputs(req.call)
              /\ Out(i) # NoBuf => Out(i) \in Bufs /\ Out(i) \in Outputs(req.call)
  <1> SUFFICES ASSUME NEW i \in DOMAIN req.alloc
               PROVE  /\ ~Idle
                      /\ i \in DOMAIN req.call.allocs
                      /\ In(i) # NoBuf => In(i) \in Bufs /\ In(i) \in Inputs(req.call)
                      /\ Out(i) # NoBuf => Out(i) \in Bufs /\ Out(i) \in Outputs(req.call)
    OBVIOUS
  <1>1. ~Idle
    BY DEF Idle, NoReq
  <1>2. /\ req.call \in Calls /\ req.alloc \in Seq(ChunkIds)
        /\ Len(req.alloc) = Len(req.call.allocs)
    BY <1>1 DEF TypeInv, ReqTyped, Request
  <1>3. req.call.allocs \in Seq(Alloc)
    BY <1>2, RuntimeAssumption
  <1>4. i \in DOMAIN req.call.allocs /\ req.call.allocs[i] \in Alloc
    BY <1>2, <1>3
  <1>5. QED
    BY <1>1, <1>4 DEF In, Out, Alloc, Inputs, Outputs

\* A buffer that the application freed is neither mapped nor used by a request.
Frees(bs) ==
    \A b \in Bufs : bs[b] = bufs[b] \/ (bs[b] = NoChunk /\ Idle /\ ~Mapped(b))

\* The application frees buffers, or mappings end.
LEMMA BindingsKept ==
    ASSUME MInv, BInv, UNCHANGED req, Frees(bufs'), maps' \subseteq maps, views' \subseteq views
    PROVE  BInv'
  <1>1. Idle' = Idle /\ \A i : In(i)' = In(i) /\ Out(i)' = Out(i)
    BY DEF Idle, In, Out
  <1>2. \A x \in maps' \cup views' : x.buf \in Bufs /\ bufs'[x.buf] = bufs[x.buf]
    <2>1. \A x \in maps' \cup views' : x.buf \in Bufs
      BY DEF MInv, TypeInv, Map, View
    <2>2. \A x \in maps' \cup views' : Mapped(x.buf)
      BY DEF Mapped
    <2>3. QED
      BY <2>1, <2>2 DEF Frees
  <1>3. \A b \in Bufs : bufs'[b] # NoChunk => bufs'[b] = bufs[b] /\ Bound(b)
    BY DEF Frees, Bound
  <1>4. BufInv'
    <2>1. \A b, d \in Bufs : bufs'[b] # NoChunk /\ bufs'[b] = bufs'[d] => b = d
      BY <1>3 DEF BInv, BufInv
    <2>2. \A x \in maps' \cup views' : bufs'[x.buf] = x.chunk
      BY <1>2 DEF BInv, BufInv
    <2>3. QED
      BY <2>1, <2>2 DEF BInv, BufInv, Bound
  <1>5. AllocInv'
    <2> SUFFICES ASSUME NEW i \in DOMAIN req.alloc
                 PROVE  /\ In(i) # NoBuf => bufs'[In(i)] = req.alloc[i]
                        /\ In(i) = NoBuf =>
                              /\ \A b \in Bufs : bufs'[b] # req.alloc[i]
                              /\ \A j \in DOMAIN req.alloc : j # i => req.alloc[j] # req.alloc[i]
      BY <1>1 DEF AllocInv
    <2>1. ~Idle /\ (In(i) # NoBuf => In(i) \in Bufs)
      BY RequestAllocs DEF MInv
    <2>2. bufs'[In(i)] = bufs[In(i)] \/ In(i) = NoBuf
      BY <2>1 DEF Frees
    <2>3. req.alloc[i] # NoChunk
      BY Bounds, OwnersRefer DEF MInv, TypeInv, NoneDangles, ReqChunks
    <2>4. QED
      BY <1>3, <2>1, <2>2, <2>3 DEF BInv, AllocInv
  <1>6. OutInv'
    BY <1>1 DEF BInv, OutInv
  <1>7. QED
    BY <1>4, <1>5, <1>6 DEF BInv

\* A buffer that had none may get a chunk of its own.
GrownBindings ==
    /\ \A b, d \in Bufs : bufs'[b] # NoChunk /\ bufs'[b] = bufs'[d] => b = d
    /\ \A x \in maps \cup views : bufs'[x.buf] = x.chunk /\ chunks'[x.chunk] = chunks[x.chunk]

LEMMA GrowBindings ==
    ASSUME MInv, BInv, Grown(chunks', cache'), Ensured(chunks', bufs')
    PROVE  GrownBindings
  <1>1. \A c \in DOMAIN chunks : chunks'[c] = chunks[c]
    BY DEF Grown
  <1>2. /\ \A b \in Bufs : Bound(b) => bufs'[b] = bufs[b]
        /\ \A b, d \in Bufs : bufs'[b] = bufs'[d] /\ bufs'[b] # NoChunk => b = d \/ (Bound(b) /\ Bound(d))
    BY DEF Ensured
  <1>3. ASSUME NEW b \in Bufs, NEW d \in Bufs, bufs'[b] # NoChunk, bufs'[b] = bufs'[d]
        PROVE  b = d
    BY <1>2, <1>3 DEF BInv, BufInv, Bound
  <1>4. ASSUME NEW x \in maps \cup views
        PROVE  bufs'[x.buf] = x.chunk /\ chunks'[x.chunk] = chunks[x.chunk]
    <2>1. x.chunk \in DOMAIN chunks /\ bufs[x.buf] = x.chunk /\ x.buf \in Bufs /\ x.chunk # NoChunk
      BY OwnersRefer, Bounds DEF BInv, BufInv, NoneDangles, MInv, TypeInv, Map, View
    <2>2. QED
      BY <1>1, <1>2, <2>1 DEF Bound
  <1>5. QED
    BY <1>3, <1>4 DEF GrownBindings

LEMMA IdleBindings ==
    ASSUME Idle', BufInv'
    PROVE  BInv'
  <1>1. DOMAIN req'.alloc = {}
    BY DEF Idle, NoReq
  <1>2. QED
    BY <1>1 DEF AllocInv, OutInv, BInv

LEMMA MapCurrentBindings ==
    ASSUME MInv, BInv, NEW b \in Bufs, MapCurrent(b)
    PROVE  BInv'
  <1> DEFINE t == EnsureChunk(Current, b)
             m == [buf |-> b, chunk |-> t.bufs[b], deps |-> t.chunks[t.bufs[b]].pending]
  <1>1. Grown(t.chunks, cache) /\ Ensured(t.chunks, t.bufs) /\ t.bufs[b] \in DOMAIN t.chunks
    BY CurrentEnsured DEF MInv, MapCurrent, MayMap
  <1> HIDE DEF t
  <1>2. /\ chunks' = t.chunks /\ bufs' = t.bufs /\ maps' = maps \cup {m}
        /\ UNCHANGED <<cache, req, views>> /\ Idle /\ ~Mapped(b)
    BY DEF MapCurrent, MayMap, t
  <1>3. GrownBindings
    BY <1>1, <1>2, GrowBindings
  <1>4. m.buf = b /\ m.chunk = bufs'[b] /\ \A x \in maps \cup views : x.buf # b
    BY <1>2 DEF Mapped
  <1> HIDE DEF m
  <1>5. BufInv'
    BY <1>2, <1>3, <1>4 DEF BInv, BufInv, GrownBindings, Bound
  <1>6. Idle'
    BY <1>2 DEF Idle
  <1>7. QED
    BY <1>5, <1>6, IdleBindings

LEMMA MapDiscardBindings ==
    ASSUME MInv, BInv, NEW b \in Bufs, MapDiscard(b)
    PROVE  BInv'
  <1> DEFINE t == EnsureChunk(Current, b)
             v == [buf |-> b, chunk |-> t.bufs[b], seen |-> None, wrote |-> TRUE]
  <1>1. Grown(t.chunks, cache) /\ Ensured(t.chunks, t.bufs) /\ t.bufs[b] \in DOMAIN t.chunks
    BY CurrentEnsured DEF MInv, MapDiscard, MayMap
  <1> HIDE DEF t
  <1>2. /\ chunks' = t.chunks /\ bufs' = t.bufs /\ views' = views \cup {v}
        /\ UNCHANGED <<cache, req, maps>> /\ Idle /\ ~Mapped(b)
    BY DEF MapDiscard, MayMap, t
  <1>3. GrownBindings
    BY <1>1, <1>2, GrowBindings
  <1>4. v.buf = b /\ v.chunk = bufs'[b] /\ \A x \in maps \cup views : x.buf # b
    BY <1>2 DEF Mapped
  <1> HIDE DEF v
  <1>5. BufInv'
    BY <1>2, <1>3, <1>4 DEF BInv, BufInv, GrownBindings, Bound
  <1>6. Idle'
    BY <1>2 DEF Idle
  <1>7. QED
    BY <1>5, <1>6, IdleBindings

LEMMA MapReadyBindings ==
    ASSUME MInv, BInv, NEW m \in maps, MapReady(m)
    PROVE  BInv'
  <1> DEFINE v == [buf |-> m.buf, chunk |-> m.chunk, seen |-> mem[chunks[m.chunk].hal], wrote |-> FALSE]
  <1>1. /\ maps' = maps \ {m} /\ views' = views \cup {v} /\ UNCHANGED <<bufs, req>>
        /\ v.buf = m.buf /\ v.chunk = m.chunk
    BY DEF MapReady
  <1> HIDE DEF v
  <1>2. BufInv'
    BY <1>1 DEF BInv, BufInv, Bound
  <1>3. AllocInv'
    BY <1>1 DEF BInv, AllocInv, In
  <1>4. OutInv'
    BY <1>1 DEF BInv, OutInv, Idle, Inputs, Outputs
  <1>5. QED
    BY <1>2, <1>3, <1>4 DEF BInv

LEMMA HostWritesBindings ==
    ASSUME MInv, BInv, NEW v \in views, HostWrites(v)
    PROVE  BInv'
  <1> DEFINE w == [v EXCEPT !.wrote = TRUE]
  <1>1. views' = (views \ {v}) \cup {w} /\ Idle /\ UNCHANGED <<bufs, req, maps>>
    BY DEF HostWrites
  <1>2. w.buf = v.buf /\ w.chunk = v.chunk
    BY DEF MInv, TypeInv, View
  <1> HIDE DEF w
  <1>3. BufInv'
    BY <1>1, <1>2 DEF BInv, BufInv, Bound
  <1>4. Idle'
    BY <1>1 DEF Idle
  <1>5. QED
    BY <1>3, <1>4, IdleBindings

LEMMA StartRunBindings ==
    ASSUME MInv, BInv, NEW call \in Calls, StartRun(call)
    PROVE  BInv'
  <1> DEFINE s == BuildChunkMap(call)
  <1>1. Memory(s, 0) /\ Placed(s, call.allocs) /\ Len(s.alloc) = Len(call.allocs)
    BY ChunkMapBuilt DEF MInv, StartRun
  <1> HIDE DEF s
  <1>2. /\ chunks' = s.chunks /\ cache' = s.cache /\ bufs' = s.bufs
        /\ req'.call = call /\ req'.alloc = s.alloc
        /\ UNCHANGED <<maps, views>>
        /\ \A b \in Inputs(call) \cup Outputs(call) : ~Mapped(b)
    BY DEF StartRun, s
  <1>3. GrownBindings
    BY <1>1, <1>2, GrowBindings DEF Memory
  <1>4. BufInv'
    BY <1>2, <1>3 DEF BInv, BufInv, GrownBindings, Bound
  <1>5. AllocInv'
    <2>1. DOMAIN s.alloc = 1..Len(s.alloc)
      BY <1>1 DEF Placed
    <2>2. \A i : In(i)' = call.allocs[i].in
      BY <1>2 DEF In
    <2> SUFFICES ASSUME NEW i \in DOMAIN s.alloc
                 PROVE  /\ call.allocs[i].in # NoBuf => s.bufs[call.allocs[i].in] = s.alloc[i]
                        /\ call.allocs[i].in = NoBuf =>
                              /\ \A b \in Bufs : s.bufs[b] # s.alloc[i]
                              /\ \A j \in DOMAIN s.alloc : j # i => s.alloc[j] # s.alloc[i]
      BY <1>2, <2>2 DEF AllocInv
    <2>3. QED
      BY <1>1, <2>1 DEF Placed
  <1>6. OutInv'
    BY <1>2 DEF OutInv, Mapped
  <1>7. QED
    BY <1>4, <1>5, <1>6 DEF BInv

LEMMA LaunchStepBindings ==
    ASSUME MInv, BInv, LaunchStep
    PROVE  BInv'
  <1>1. req'.call = req.call /\ req'.alloc = req.alloc /\ ~Idle
    BY StepTaken, CurrentStep DEF TakesStep, LaunchStep
  <1>2. UNCHANGED <<bufs, maps, views>>
    BY DEF LaunchStep
  <1>3. \A i : In(i)' = In(i)
    BY <1>1 DEF In
  <1>4. QED
    BY <1>1, <1>2, <1>3 DEF BInv, BufInv, AllocInv, OutInv, Bound

LEMMA LaunchFailsBindings ==
    ASSUME MInv, BInv, LaunchFails
    PROVE  BInv'
  <1>1. req' = NoReq /\ UNCHANGED <<bufs, maps, views>>
    BY DEF LaunchFails
  <1>2. BufInv'
    BY <1>1 DEF BInv, BufInv, Bound
  <1>3. Idle'
    BY <1>1 DEF Idle
  <1>4. QED
    BY <1>2, <1>3, IdleBindings

LEMMA WriteBackBindings ==
    ASSUME MInv, BInv, NEW v \in views, WriteBack(v)
    PROVE  BInv'
  <1>1. views' = views \ {v} /\ UNCHANGED <<bufs, req, maps>>
    BY DEF WriteBack
  <1>2. Frees(bufs')
    BY <1>1 DEF Frees
  <1>3. QED
    BY <1>1, <1>2, BindingsKept

\* What a request overwrites is the memory of one of its allocs.
LEMMA AllocsApart ==
    ASSUME SeparateInputs, MInv, BInv, NEW i \in DOMAIN req.alloc, NEW j \in DOMAIN req.alloc,
           i \in WrittenAllocs(req.call), chunks[req.alloc[i]].hal = chunks[req.alloc[j]].hal
    PROVE  i = j
  <1>1. req.alloc[i] \in DOMAIN chunks /\ req.alloc[j] \in DOMAIN chunks
    BY OwnersRefer DEF MInv, NoneDangles, ReqChunks
  <1>2. req.alloc[i] = req.alloc[j]
    BY <1>1 DEF MInv, OwnerInv
  <1>3. /\ ~Idle /\ i \in DOMAIN req.call.allocs /\ j \in DOMAIN req.call.allocs
        /\ In(i) # NoBuf => In(i) \in Bufs
        /\ In(j) # NoBuf => In(j) \in Bufs
    BY RequestAllocs DEF MInv
  <1>4. req.call \in Calls
    BY <1>3 DEF MInv, TypeInv, ReqTyped, Request
  <1>5. CASE In(i) = NoBuf \/ In(j) = NoBuf
    BY <1>2, <1>5 DEF BInv, AllocInv
  <1>6. CASE In(i) # NoBuf /\ In(j) # NoBuf
    <2>1. bufs[In(i)] = bufs[In(j)] /\ bufs[In(i)] # NoChunk
      <3>1. req.alloc[i] # NoChunk
        BY <1>1, Bounds DEF MInv, TypeInv
      <3>2. QED
        BY <1>2, <1>6, <3>1 DEF BInv, AllocInv
    <2>2. In(i) = In(j)
      BY <1>3, <1>6, <2>1 DEF BInv, BufInv, Bound
    <2>3. QED
      BY <1>3, <1>4, <1>6, <2>2 DEF In, SeparateInputs
  <1>7. QED
    BY <1>5, <1>6

\* No alloc of a request is mapped.
LEMMA MappedApart ==
    ASSUME MInv, BInv, NEW i \in DOMAIN req.alloc, NEW x \in maps \cup views
    PROVE  chunks[req.alloc[i]].hal # chunks[x.chunk].hal
  <1>1. req.alloc[i] \in DOMAIN chunks /\ x.chunk \in DOMAIN chunks
    BY OwnersRefer DEF MInv, NoneDangles, ReqChunks
  <1>2. x.buf \in Bufs /\ bufs[x.buf] = x.chunk /\ x.chunk # NoChunk
    BY <1>1, Bounds DEF MInv, TypeInv, Map, View, BInv, BufInv
  <1>3. ~Idle /\ (In(i) # NoBuf => In(i) \in Bufs /\ In(i) \in Inputs(req.call))
    BY RequestAllocs DEF MInv
  <1>4. req.alloc[i] # x.chunk
    <2>1. CASE In(i) = NoBuf
      BY <1>2, <2>1 DEF BInv, AllocInv
    <2>2. CASE In(i) # NoBuf
      <3>1. In(i) # x.buf
        BY <1>3, <2>2 DEF BInv, OutInv
      <3>2. QED
        BY <1>2, <1>3, <2>2, <3>1 DEF BInv, AllocInv, BufInv, Bound
    <2>3. QED
      BY <2>1, <2>2
  <1>5. QED
    BY <1>1, <1>4 DEF MInv, OwnerInv

\* An alloc of an output that is an input, too, is overwritten, and its buffer is an output.
LEMMA ConsumedInput ==
    ASSUME MInv, NEW i \in DOMAIN req.alloc, Out(i) # NoBuf \/ i \in WrittenAllocs(req.call), In(i) # NoBuf
    PROVE  i \in WrittenAllocs(req.call) /\ In(i) \in Outputs(req.call)
  <1>1. ~Idle /\ i \in DOMAIN req.call.allocs
    BY RequestAllocs DEF MInv
  <1>2. req.call \in Calls
    BY <1>1 DEF MInv, TypeInv, ReqTyped, Request
  <1>3. /\ i \in WrittenAllocs(req.call)
        /\ \E o \in DOMAIN req.call.allocs : req.call.allocs[o].out = In(i)
    BY <1>1, <1>2, BindingAssumption DEF In, Out
  <1>4. QED
    BY <1>3 DEF Outputs

\* When a launch succeeds the chunk of a buffer is the one it had, or that of an alloc bound
\* to it.
LEMMA BufferRemapped ==
    ASSUME MInv, LaunchSucceeds, NEW b \in Bufs, bufs'[b] # NoChunk
    PROVE  \/ b \in Outputs(req.call) /\ \E i \in DOMAIN req.alloc : Out(i) = b /\ bufs'[b] = req.alloc[i]
           \/ b \notin Outputs(req.call) /\ Bound(b) /\ bufs'[b] = bufs[b]
  <1>1. ~Idle /\ bufs'[b] = IF b \in Outputs(req.call) THEN req.alloc[LastAlloc(b)] ELSE bufs[b]
    BY DEF LaunchSucceeds
  <1>2. b \in Outputs(req.call) =>
          LastAlloc(b) \in DOMAIN req.alloc /\ req.call.allocs[LastAlloc(b)].out = b
    BY <1>1, LastAllocBound
  <1>3. QED
    BY <1>1, <1>2 DEF Out, Bound

LEMMA LaunchSucceedsBindings ==
    ASSUME SeparateInputs, MInv, BInv, LaunchSucceeds
    PROVE  BInv'
  <1>0. NoBuf \notin Bufs
    BY RuntimeAssumption
  <1>1. ~Idle /\ req' = NoReq /\ UNCHANGED <<maps, views>>
    BY DEF LaunchSucceeds
  <1>2. ASSUME NEW x \in Bufs, NEW y \in Bufs, bufs'[x] # NoChunk, bufs'[x] = bufs'[y],
               NEW i \in DOMAIN req.alloc, Out(i) = x, bufs'[x] = req.alloc[i],
               y \notin Outputs(req.call), Bound(y), bufs'[y] = bufs[y]
        PROVE  FALSE
    <2>1. In(i) # NoBuf
      BY <1>2 DEF BInv, AllocInv
    <2>2. In(i) \in Bufs /\ bufs[In(i)] = bufs[y]
      BY <1>2, <2>1, RequestAllocs DEF BInv, AllocInv, MInv
    <2>3. In(i) = y
      BY <1>2, <2>2 DEF BInv, BufInv, Bound
    <2>4. QED
      BY <1>0, <1>2, <2>1, <2>3, ConsumedInput
  <1>3. ASSUME NEW b \in Bufs, NEW c \in Bufs, bufs'[b] # NoChunk, bufs'[b] = bufs'[c]
        PROVE  b = c
    <2>1. ASSUME NEW i \in DOMAIN req.alloc, NEW j \in DOMAIN req.alloc,
                 Out(i) = b, bufs'[b] = req.alloc[i], Out(j) = c, bufs'[c] = req.alloc[j]
          PROVE  b = c
      <3>1. req.alloc[i] = req.alloc[j]
        BY <1>3, <2>1
      <3>2. CASE In(i) = NoBuf
        <4>1. i = j
          BY <3>1, <3>2 DEF BInv, AllocInv
        <4>2. QED
          BY <2>1, <4>1
      <3>3. CASE In(i) # NoBuf
        <4>1. i \in WrittenAllocs(req.call)
          BY <1>0, <2>1, <3>3, ConsumedInput
        <4>2. i = j
          BY <3>1, <4>1, AllocsApart
        <4>3. QED
          BY <2>1, <4>2
      <3>4. QED
        BY <3>2, <3>3
    <2>2. CASE b \in Outputs(req.call) /\ c \in Outputs(req.call)
      BY <1>3, <2>1, <2>2, BufferRemapped
    <2>3. CASE b \in Outputs(req.call) /\ c \notin Outputs(req.call)
      BY <1>2, <1>3, <2>3, BufferRemapped
    <2>4. CASE b \notin Outputs(req.call) /\ c \in Outputs(req.call)
      BY <1>2, <1>3, <2>4, BufferRemapped
    <2>5. CASE b \notin Outputs(req.call) /\ c \notin Outputs(req.call)
      <3>1. bufs[b] = bufs[c] /\ Bound(b)
        BY <1>3, <2>5, BufferRemapped
      <3>2. QED
        BY <3>1 DEF BInv, BufInv
    <2>6. QED
      BY <2>2, <2>3, <2>4, <2>5
  <1>4. BufInv'
    <2>1. ASSUME NEW x \in maps \cup views
          PROVE  bufs'[x.buf] = x.chunk
      <3>1. x.buf \in Bufs /\ x.buf \notin Outputs(req.call) /\ bufs[x.buf] = x.chunk
        BY <1>1 DEF BInv, OutInv, BufInv, MInv, TypeInv, Map, View
      <3>2. QED
        BY <3>1 DEF LaunchSucceeds
    <2>2. QED
      BY <1>1, <1>3, <2>1 DEF BInv, BufInv, Bound
  <1>5. Idle'
    BY <1>1 DEF Idle
  <1>6. QED
    BY <1>4, <1>5, IdleBindings

LEMMA BInit ==
    ASSUME RtInit
    PROVE  BInv
  <1>1. DOMAIN req.alloc = {} /\ Idle /\ (\A b \in Bufs : ~Bound(b)) /\ maps = {} /\ views = {}
    BY DEF RtInit, Idle, NoReq, Bound
  <1>2. QED
    BY <1>1 DEF BInv, BufInv, AllocInv, OutInv

LEMMA BStep ==
    ASSUME SeparateInputs, MInv, BInv, [RtNext]_rtVars
    PROVE  BInv'
  <1>1. ASSUME UNCHANGED <<bufs, req>>, maps' \subseteq maps, views' \subseteq views
        PROVE  BInv'
    BY <1>1, BindingsKept DEF Frees
  <1>2. ASSUME NEW b \in Bufs, FreeBuffer(b)
        PROVE  BInv'
    <2>1. Frees(bufs') /\ UNCHANGED <<req, maps, views>>
      BY <1>2 DEF FreeBuffer, Frees, MInv, TypeInv
    <2>2. QED
      BY <2>1, BindingsKept
  <1>3. CASE ClientNext
    BY <1>2, <1>3, StartRunBindings, LaunchStepBindings, LaunchFailsBindings, LaunchSucceedsBindings,
       MapCurrentBindings, MapDiscardBindings, HostWritesBindings, WriteBackBindings DEF ClientNext
  <1>4. CASE Continuation
    <2>1. ASSUME NEW s \in shims, ReleaseShim(s)
          PROVE  BInv'
      BY <1>1, <2>1 DEF ReleaseShim
    <2>2. ASSUME NEW m \in maps, MapFails(m)
          PROVE  BInv'
      BY <1>1, <2>2 DEF MapFails
    <2>3. QED
      BY <1>4, <2>1, <2>2, MapReadyBindings DEF Continuation
  <1>5. CASE DeviceNext
    BY <1>1, <1>5 DEF DeviceNext, StartEvent, FinishEvent, FailEvent
  <1>6. CASE UNCHANGED rtVars
    BY <1>1, <1>6 DEF rtVars
  <1>7. QED
    BY <1>3, <1>4, <1>5, <1>6 DEF RtNext

-----------------------------------------------------------------------------
(* Waiting *)

\* What an operation may do in a step of the device.
Moves(ev, ev2, x) ==
    \/ ev2[x] = ev[x]
    \/ ev[x].st # "done" /\ ev2[x].st = "failed"
    \/ ev[x].st \in Started /\ ev2[x].st = "done"
    \/ ev[x].st = "waiting" /\ ev2[x].st \in Started /\ \A y \in ev[x].deps : ev[y].st = "done"

LEMMA FollowsKept ==
    ASSUME NEW ev, NEW ev2, DOMAIN ev2 = DOMAIN ev, \A x \in DOMAIN ev : Moves(ev, ev2, x),
           NEW d \in DOMAIN ev, NEW e, Follows(ev, d, e)
    PROVE  Follows(ev2, d, e)
  <1>1. CASE ev[d].st = "done"
    BY <1>1 DEF Follows, Moves, Started
  <1>2. CASE ev[d].st # "done"
    <2>1. PICK E \in SUBSET DOMAIN ev :
             /\ e \in E
             /\ \A x \in E : \/ ev[x].st = "failed"
                             \/ ev[x].st = "waiting" /\ (d \in ev[x].deps \/ E \cap ev[x].deps # {})
      BY <1>2 DEF Follows
    <2>2. ASSUME NEW x \in E
          PROVE  ev2[x] = ev[x] \/ ev2[x].st = "failed"
      <3>1. ev[x].st = "failed" \/ ~(\A y \in ev[x].deps : ev[y].st = "done")
        BY <1>2, <2>1
      <3>2. QED
        BY <2>1, <3>1 DEF Moves, Started
    <2>3. QED
      BY <2>1, <2>2 DEF Follows
  <1>3. QED
    BY <1>1, <1>2

\* An operation that is added comes after what it waits for, and changes nothing else.
LEMMA FollowsNew ==
    ASSUME NEW ev, NEW ev2, NEW n, DOMAIN ev2 = DOMAIN ev \cup {n}, n \notin DOMAIN ev,
           \A x \in DOMAIN ev : ev2[x] = ev[x]
    PROVE  /\ \A d \in DOMAIN ev : \A e : Follows(ev, d, e) => Follows(ev2, d, e)
           /\ ev2[n].st = "waiting" =>
                /\ \A d \in ev2[n].deps : Follows(ev2, d, n)
                /\ \A d \in DOMAIN ev : \A y \in ev2[n].deps : Follows(ev, d, y) => Follows(ev2, d, n)
  <1>1. ASSUME NEW d \in DOMAIN ev, NEW e, Follows(ev, d, e)
        PROVE  Follows(ev2, d, e)
    BY <1>1 DEF Follows
  <1>2. ASSUME ev2[n].st = "waiting", NEW d \in ev2[n].deps
        PROVE  Follows(ev2, d, n)
    <2> DEFINE E == {n}
    <2>1. /\ E \in SUBSET DOMAIN ev2 /\ n \in E
          /\ \A x \in E : ev2[x].st = "waiting" /\ d \in ev2[x].deps
      BY <1>2
    <2> HIDE DEF E
    <2>2. QED
      BY <2>1 DEF Follows
  <1>3. ASSUME ev2[n].st = "waiting", NEW d \in DOMAIN ev, NEW y \in ev2[n].deps, Follows(ev, d, y)
        PROVE  Follows(ev2, d, n)
    <2>1. CASE ev[d].st = "done"
      BY <2>1 DEF Follows
    <2>2. CASE ev[d].st # "done"
      <3>1. PICK E \in SUBSET DOMAIN ev :
               /\ y \in E
               /\ \A x \in E : \/ ev[x].st = "failed"
                               \/ ev[x].st = "waiting" /\ (d \in ev[x].deps \/ E \cap ev[x].deps # {})
        BY <1>3, <2>2 DEF Follows
      <3> DEFINE E2 == E \cup {n}
      <3>2. E2 \in SUBSET DOMAIN ev2 /\ n \in E2
        OBVIOUS
      <3>3. \A x \in E2 : \/ ev2[x].st = "failed"
                          \/ ev2[x].st = "waiting" /\ (d \in ev2[x].deps \/ E2 \cap ev2[x].deps # {})
        BY <1>3, <3>1
      <3> HIDE DEF E2
      <3>4. QED
        BY <3>2, <3>3 DEF Follows
    <2>3. QED
      BY <2>1, <2>2
  <1>4. QED
    BY <1>1, <1>2, <1>3

\* A step waits for earlier steps; it waits for one directly, or for one that waits for it.
LEMMA WaitsForPast ==
    ASSUME NEW call \in Calls, NEW j, NEW k \in DOMAIN call.steps, WaitsFor(call, j, k)
    PROVE  /\ j \in 1..(k - 1)
           /\ j \in call.steps[k].deps \/ \E y \in call.steps[k].deps : WaitsFor(call, j, y)
  <1>1. /\ DOMAIN call.steps \subseteq Nat
        /\ \A x \in DOMAIN call.steps : call.steps[x].deps \subseteq 1..(x - 1)
    BY RuntimeAssumption, ScheduleAssumption
  <1>2. PICK M \in SUBSET DOMAIN call.steps :
           k \in M /\ \A x \in M : j \in call.steps[x].deps \/ M \cap call.steps[x].deps # {}
    BY DEF WaitsFor
  <1>3. PICK x \in M : \A y \in M : x <= y
    BY <1>1, <1>2, LeastElement
  <1>4. j \in call.steps[x].deps
    <2>1. \A y \in M \cap call.steps[x].deps : y < x /\ x <= y /\ x \in Nat /\ y \in Nat
      BY <1>1, <1>2, <1>3
    <2>2. M \cap call.steps[x].deps = {}
      BY <2>1
    <2>3. QED
      BY <1>2, <2>2
  <1>5. j \in 1..(x - 1) /\ x <= k /\ x \in Nat /\ k \in Nat
    BY <1>1, <1>2, <1>3, <1>4
  <1>6. \A y \in M : WaitsFor(call, j, y)
    BY <1>2 DEF WaitsFor
  <1>7. QED
    BY <1>2, <1>5, <1>6

-----------------------------------------------------------------------------
(* Steps that add no operation and no reference *)

\* Operations may have moved on, and what waits for those that are not finished still does.
Advances(ev) ==
    /\ DOMAIN ev = DOMAIN events
    /\ \A x \in DOMAIN events : Moves(events, ev, x)
    /\ \A x \in Unfinished(ev) :
          /\ x \in Unfinished(events)
          /\ ev[x].reads = events[x].reads /\ ev[x].writes = events[x].writes

\* Chunks may have gone, and operations that are finished are no longer pending.
Shrinks(cs, ev) ==
    \A c \in DOMAIN cs :
        /\ c \in DOMAIN chunks
        /\ cs[c].hal = chunks[c].hal
        /\ chunks[c].pending \cap Unfinished(ev) \subseteq cs[c].pending

\* The steps that have been launched name allocs of the request.
LEMMA StepAllocs ==
    ASSUME TypeInv
    PROVE  \A k \in DOMAIN req.event :
              /\ k \in DOMAIN req.call.steps /\ req.call \in Calls
              /\ \A i \in req.call.steps[k].ins \cup req.call.steps[k].outs : i \in DOMAIN req.alloc
  <1> SUFFICES ASSUME NEW k \in DOMAIN req.event
               PROVE  /\ k \in DOMAIN req.call.steps /\ req.call \in Calls
                      /\ \A i \in req.call.steps[k].ins \cup req.call.steps[k].outs : i \in DOMAIN req.alloc
    OBVIOUS
  <1>1. ~Idle
    BY DEF Idle, NoReq
  <1>2. /\ req \in Request /\ Len(req.alloc) = Len(req.call.allocs)
        /\ req.step = Len(req.event) + 1 /\ req.step <= Len(req.call.steps) + 1
    BY <1>1 DEF TypeInv, ReqTyped
  <1>3. /\ req.call \in Calls /\ req.alloc \in Seq(ChunkIds) /\ req.event \in Seq(1..MaxEvents)
        /\ req.call.allocs \in Seq(Alloc) /\ req.call.steps \in Seq(ProgramStep)
    BY <1>2, RuntimeAssumption DEF Request
  <1>4. k \in DOMAIN req.call.steps
    BY <1>2, <1>3
  <1>5. req.call.steps[k].ins \cup req.call.steps[k].outs \subseteq DOMAIN req.call.allocs
    BY <1>3, <1>4, ScheduleAssumption
  <1>6. DOMAIN req.call.allocs = DOMAIN req.alloc
    BY <1>2, <1>3
  <1>7. QED
    BY <1>3, <1>4, <1>5, <1>6

LEMMA OrderKept ==
    ASSUME RInv, OInv, NoneDangles', BInv', UNCHANGED req,
           Advances(events'), Shrinks(chunks', events'), Frees(bufs'),
           maps' \subseteq maps, views' \subseteq views
    PROVE  OInv'
  <1>1. Busy = Unfinished(events) /\ Busy' = Unfinished(events')
    BY DEF Busy, Finished, Unfinished
  <1>2. /\ DOMAIN events' = DOMAIN events /\ Busy' \subseteq Busy
        /\ \A d \in Busy' : Reads(d)' = Reads(d) /\ Writes(d)' = Writes(d)
    BY <1>1 DEF Advances, Reads, Writes
  <1>3. ReqEvents' = ReqEvents /\ ReqChunks' = ReqChunks /\ Idle' = Idle
        /\ \A i : In(i)' = In(i) /\ Out(i)' = Out(i)
    BY DEF ReqEvents, ReqChunks, Idle, In, Out
  <1>4. /\ ReqChunks \subseteq DOMAIN chunks'
        /\ \A x \in maps' \cup views' : x.chunk \in DOMAIN chunks'
        /\ \A b \in Bufs : bufs'[b] # NoChunk => bufs'[b] \in DOMAIN chunks'
    BY <1>3 DEF NoneDangles, Bound
  <1>5. \A c \in DOMAIN chunks' : /\ chunks'[c].hal = chunks[c].hal
                                  /\ chunks[c].pending \cap Busy' \subseteq chunks'[c].pending
    BY <1>1 DEF Shrinks
  <1>6. \A i \in DOMAIN req.alloc : req.alloc[i] \in DOMAIN chunks'
    BY <1>4 DEF ReqChunks
  <1>8. \A b \in Bufs : bufs'[b] # NoChunk => bufs'[b] = bufs[b] /\ Bound(b)
    BY DEF Frees, Bound
  <1>12. LaunchInv'
    <2> SUFFICES ASSUME NEW k \in DOMAIN req.event, req.event[k] \in Busy'
                 PROVE  Launched(k, req.event[k])'
      BY DEF LaunchInv
    <2> DEFINE e == req.event[k]
    <2>1. Launched(k, e) /\ e \in Busy /\ Reads(e)' = Reads(e) /\ Writes(e)' = Writes(e)
      BY <1>2 DEF OInv, LaunchInv
    <2>2. \A i \in req.call.steps[k].ins \cup req.call.steps[k].outs : i \in DOMAIN req.alloc
      BY StepAllocs DEF RInv
    <2>3. \A i \in req.call.steps[k].ins \cup req.call.steps[k].outs :
             chunks'[req.alloc[i]].hal = chunks[req.alloc[i]].hal
      BY <1>5, <1>6, <2>2
    <2>4. \A i \in req.call.steps[k].outs : Out(i) # NoBuf => e \in chunks'[req.alloc[i]].pending
      BY <1>5, <1>6, <2>1, <2>2 DEF Launched
    <2>5. QED
      BY <1>3, <2>1, <2>3, <2>4 DEF Launched
  <1>13. RecordInv'
    <2> SUFFICES ASSUME NEW b \in Bufs, bufs'[b] # NoChunk, NEW d \in Busy',
                        chunks'[bufs'[b]].hal \in Writes(d)
                 PROVE  d \in chunks'[bufs'[b]].pending \cup ReqEvents
      BY <1>2, <1>3 DEF RecordInv, Bound
    <2>1. bufs'[b] = bufs[b] /\ Bound(b) /\ bufs[b] \in DOMAIN chunks'
      BY <1>4, <1>8
    <2>2. chunks[bufs[b]].hal \in Writes(d) /\ d \in Busy
      BY <1>2, <1>5, <2>1
    <2>3. d \in chunks[bufs[b]].pending \cup ReqEvents
      BY <2>1, <2>2 DEF OInv, RecordInv
    <2>4. QED
      BY <1>5, <2>1, <2>3
  <1>14. OwnInv'
    <2> SUFFICES ASSUME NEW i \in DOMAIN req.alloc, NEW d \in Busy' \ ReqEvents
                 PROVE  /\ In(i) = NoBuf => chunks'[req.alloc[i]].hal \notin Writes(d) \cup Reads(d)
                        /\ i \in WrittenAllocs(req.call) => chunks'[req.alloc[i]].hal \notin Reads(d)
      BY <1>2, <1>3 DEF OwnInv
    <2>1. d \in Busy \ ReqEvents /\ chunks'[req.alloc[i]].hal = chunks[req.alloc[i]].hal
      BY <1>2, <1>5, <1>6
    <2>2. QED
      BY <2>1 DEF OInv, OwnInv
  <1>15. MapInv'
    BY <1>2, <1>4, <1>5 DEF OInv, MapInv
  <1>16. OrderInv'
    <2> SUFFICES ASSUME NEW d \in Busy', NEW e \in Busy', d < e, Clash(d, e)'
                 PROVE  Follows(events', d, e)
      BY DEF OrderInv
    <2>1. d \in Busy /\ e \in Busy /\ Clash(d, e) /\ d \in DOMAIN events
      BY <1>2 DEF Clash, Busy
    <2>2. Follows(events, d, e)
      BY <2>1 DEF OInv, OrderInv
    <2>3. QED
      BY <2>1, <2>2, FollowsKept DEF Advances
  <1>17. ReqOrderInv'
    <2> SUFFICES ASSUME NEW j \in DOMAIN req.event, NEW k \in DOMAIN req.event, WaitsFor(req.call, j, k)
                 PROVE  Follows(events', req.event[j], req.event[k])
      BY DEF ReqOrderInv
    <2>1. Follows(events, req.event[j], req.event[k]) /\ req.event[j] \in DOMAIN events
      BY DEF OInv, ReqOrderInv, RInv, PastInv, ReqEvents
    <2>2. QED
      BY <2>1, FollowsKept DEF Advances
  <1>18. QED
    BY <1>12, <1>13, <1>14, <1>15, <1>16, <1>17 DEF OInv, BInv

LEMMA OwnersReferNext ==
    ASSUME RInv'
    PROVE  NoneDangles'
  <1>1. TypeInv' /\ RefInv'
    BY DEF RInv
  <1>2. QED
    BY <1>1, OwnersRefer, PTL

LEMMA EventOrder ==
    ASSUME RInv, OInv, RInv', BInv', NEW e \in DOMAIN events, StartEvent(e) \/ FinishEvent(e) \/ FailEvent(e)
    PROVE  OInv'
  <1>1. NoneDangles' /\ Frees(bufs')
    BY OwnersReferNext DEF Frees, StartEvent, FinishEvent, FailEvent
  <1>2. /\ DOMAIN events' = DOMAIN events
        /\ \A x \in DOMAIN events : x # e => events'[x] = events[x]
    BY DEF StartEvent, FinishEvent, FailEvent
  <1>3. /\ Moves(events, events', e)
        /\ e \in Unfinished(events') =>
              /\ e \in Unfinished(events)
              /\ events'[e].reads = events[e].reads /\ events'[e].writes = events[e].writes
    <2>1. CASE StartEvent(e)
      <3>1. /\ events[e].st = "waiting" /\ events'[e].st \in Started
            /\ events'[e].reads = events[e].reads /\ events'[e].writes = events[e].writes
        <4>1. events[e].st = "waiting" /\ events[e] \in Event
          BY <2>1 DEF StartEvent, RInv, TypeInv
        <4>2. events' = [events EXCEPT ![e].st = IF ReadsRight(e, {}) THEN "active" ELSE "misread"]
          BY <2>1 DEF StartEvent
        <4>3. /\ events'[e].st = IF ReadsRight(e, {}) THEN "active" ELSE "misread"
              /\ events'[e].reads = events[e].reads /\ events'[e].writes = events[e].writes
          BY <4>1, <4>2 DEF Event
        <4>4. QED
          BY <4>1, <4>3 DEF Started
      <3>2. \A y \in events[e].deps : events[y].st = "done"
        BY <2>1 DEF StartEvent, Finished, Failed
      <3>3. QED
        BY <3>1, <3>2 DEF Moves, Unfinished
    <2>2. CASE FinishEvent(e)
      <3>1. events[e].st \in Started /\ events'[e].st = "done"
        BY <2>2 DEF FinishEvent, Started, Final
      <3>2. QED
        BY <3>1 DEF Moves, Unfinished
    <2>3. CASE FailEvent(e)
      <3>1. events[e].st # "done" /\ events'[e].st = "failed"
        BY <2>3 DEF FailEvent, Final
      <3>2. QED
        BY <3>1 DEF Moves, Unfinished
    <2>4. QED
      BY <2>1, <2>2, <2>3
  <1>4. Advances(events')
    BY <1>2, <1>3 DEF Advances, Moves, Unfinished
  <1>5. Shrinks(chunks', events')
    <2>1. CASE FinishEvent(e)
      <3>1. chunks' = Erase(e) /\ e \notin Unfinished(events')
        BY <2>1 DEF FinishEvent, Unfinished, Final
      <3>2. \A c \in DOMAIN chunks : chunks[c] \in Chunk
        BY DEF RInv, TypeInv
      <3>3. \A c \in DOMAIN chunks' :
               /\ c \in DOMAIN chunks /\ chunks'[c].hal = chunks[c].hal
               /\ chunks'[c].pending = chunks[c].pending \ {e}
        BY <3>1, <3>2 DEF Erase, Chunk
      <3>4. QED
        BY <3>1, <3>3 DEF Shrinks
    <2>2. CASE ~FinishEvent(e)
      BY <2>2 DEF StartEvent, FailEvent, Shrinks
    <2>3. QED
      BY <2>1, <2>2
  <1>6. UNCHANGED req /\ maps' \subseteq maps /\ views' \subseteq views
    BY DEF StartEvent, FinishEvent, FailEvent
  <1>7. QED
    BY <1>1, <1>4, <1>5, <1>6, OrderKept

\* References that are dropped
LEMMA DropOrder ==
    ASSUME RInv, OInv, RInv', BInv', NEW refs, DropTo(chunks, refs), UNCHANGED <<events, req>>,
           Frees(bufs'), maps' \subseteq maps, views' \subseteq views
    PROVE  OInv'
  <1>1. Shrinks(chunks', events')
    BY DEF DropTo, Shrinks
  <1>2. Advances(events')
    BY DEF Advances, Moves
  <1>3. QED
    BY <1>1, <1>2, OwnersReferNext, OrderKept

LEMMA FreeBufferOrder ==
    ASSUME RInv, OInv, RInv', BInv', NEW b \in Bufs, FreeBuffer(b)
    PROVE  OInv'
  <1>1. Frees(bufs')
    BY DEF FreeBuffer, Frees, RInv, TypeInv
  <1>2. QED
    BY <1>1, DropOrder DEF FreeBuffer

LEMMA MapFailsOrder ==
    ASSUME RInv, OInv, RInv', BInv', NEW m \in maps, MapFails(m)
    PROVE  OInv'
  <1>1. Frees(bufs')
    BY DEF MapFails, Frees
  <1>2. QED
    BY <1>1, DropOrder DEF MapFails

LEMMA ReleaseShimOrder ==
    ASSUME RInv, OInv, RInv', BInv', NEW s \in shims, ReleaseShim(s)
    PROVE  OInv'
  <1>1. Frees(bufs')
    BY DEF ReleaseShim, Frees
  <1>2. QED
    BY <1>1, DropOrder DEF ReleaseShim

-----------------------------------------------------------------------------
(* The application: Run, and the mapping of buffers *)

LEMMA NoReaders ==
    ASSUME TypeInv, NEW b, Bound(b), ~HasReaders(b)
    PROVE  \A d \in Busy : chunks[bufs[b]].hal \notin Reads(d)
  <1> SUFFICES ASSUME NEW d \in Busy, NEW r \in events[d].reads PROVE r[1] # chunks[bufs[b]].hal
    BY DEF Reads
  <1>1. events[d] \in Event
    BY DEF TypeInv, Busy
  <1>2. r \in Hals \X Values
    BY <1>1 DEF Event
  <1>3. r = <<r[1], r[2]>> /\ r[2] \in Values
    BY <1>2
  <1>4. QED
    BY <1>3 DEF HasReaders, Bound

\* While no request is being queued, chunks are added in memory that no operation uses.
GrownOrder ==
    /\ GrownBindings
    /\ \A b \in Bufs : bufs'[b] # NoChunk => \A d \in Busy :
          /\ chunks'[bufs'[b]].hal \in Writes(d) => d \in chunks'[bufs'[b]].pending
          /\ chunks'[bufs'[b]].hal \in Reads(d) => Bound(b) /\ HasReaders(b)
    /\ \A c \in DOMAIN chunks' \ DOMAIN chunks : \A d \in Busy :
          chunks'[c].hal \notin Writes(d) \cup Reads(d)
    /\ \A m \in maps : \A d \in Busy : chunks'[m.chunk].hal \in Writes(d) => d \in m.deps
    /\ \A v \in views : \A d \in Busy :
          chunks'[v.chunk].hal \notin Writes(d) /\ (v.wrote => chunks'[v.chunk].hal \notin Reads(d))
    /\ Busy' = Busy
    /\ \A d : Reads(d)' = Reads(d) /\ Writes(d)' = Writes(d)
    /\ OrderInv'

LEMMA GrowOrder ==
    ASSUME RInv, OInv, Idle, UNCHANGED events, Grown(chunks', cache'), Ensured(chunks', bufs')
    PROVE  GrownOrder
  <1>1. ReqEvents = {}
    BY DEF Idle, NoReq, ReqEvents
  <1>2. NoneDangles
    BY OwnersRefer DEF RInv
  <1>3. \A c \in DOMAIN chunks : c \in DOMAIN chunks' /\ chunks'[c] = chunks[c]
    BY DEF Grown
  <1>4. /\ bufs' \in [Bufs -> ChunkIds \cup {NoChunk}]
        /\ \A b \in Bufs : Bound(b) => bufs'[b] = bufs[b]
        /\ \A b \in Bufs : bufs'[b] # NoChunk =>
              bufs'[b] \in DOMAIN chunks' /\ (Bound(b) \/ bufs'[b] \notin DOMAIN chunks)
        /\ \A b, d \in Bufs : bufs'[b] = bufs'[d] /\ bufs'[b] # NoChunk => b = d \/ (Bound(b) /\ Bound(d))
    BY DEF Ensured
  <1>5. /\ Busy' = Busy
        /\ \A d : Reads(d)' = Reads(d) /\ Writes(d)' = Writes(d)
    BY DEF Busy, Finished, Reads, Writes
  <1>0. MInv /\ BInv
    BY MemoryPart DEF OInv, BInv
  <1>6. GrownBindings
    BY <1>0, GrowBindings
  <1>7. \A x \in maps \cup views : chunks'[x.chunk] = chunks[x.chunk]
    BY <1>6 DEF GrownBindings
  <1>8. \A c \in DOMAIN chunks' \ DOMAIN chunks : \A d \in Busy : chunks'[c].hal \notin Writes(d) \cup Reads(d)
    <2>1. \A c \in DOMAIN chunks' \ DOMAIN chunks : chunks'[c].hal \notin InUse
      BY GrownIsFree DEF RInv
    <2>2. QED
      BY <2>1 DEF InUse, Touches, Reads, Writes
  <1>9. ASSUME NEW b \in Bufs, bufs'[b] # NoChunk, NEW d \in Busy
        PROVE  /\ chunks'[bufs'[b]].hal \in Writes(d) => d \in chunks'[bufs'[b]].pending
               /\ chunks'[bufs'[b]].hal \in Reads(d) => Bound(b) /\ HasReaders(b)
    <2>1. CASE Bound(b)
      <3>1. bufs'[b] = bufs[b] /\ bufs[b] \in DOMAIN chunks
        BY <1>2, <1>4, <2>1 DEF NoneDangles
      <3>2. chunks'[bufs'[b]] = chunks[bufs[b]]
        BY <1>3, <3>1
      <3>3. QED
        BY <1>1, <2>1, <3>2, NoReaders DEF OInv, RecordInv, RInv
    <2>2. CASE ~Bound(b)
      BY <1>4, <1>8, <1>9, <2>2
    <2>3. QED
      BY <2>1, <2>2
  <1>10. \A m \in maps : \A d \in Busy : chunks'[m.chunk].hal \in Writes(d) => d \in m.deps
    BY <1>7 DEF OInv, MapInv
  <1>11. \A v \in views : \A d \in Busy :
            chunks'[v.chunk].hal \notin Writes(d) /\ (v.wrote => chunks'[v.chunk].hal \notin Reads(d))
    BY <1>7 DEF OInv, MapInv
  <1>12. OrderInv'
    BY <1>5 DEF OInv, OrderInv, Clash
  <1>13. QED
    BY <1>5, <1>6, <1>8, <1>9, <1>10, <1>11, <1>12 DEF GrownOrder

\* No request has nothing to say about allocs and steps.
LEMMA IdleOrder ==
    ASSUME Idle'
    PROVE  LaunchInv' /\ OwnInv' /\ ReqOrderInv' /\ ReqEvents' = {}
  <1>1. DOMAIN req'.alloc = {} /\ DOMAIN req'.event = {}
    BY DEF Idle, NoReq
  <1>2. QED
    BY <1>1 DEF LaunchInv, OwnInv, ReqOrderInv, ReqEvents

LEMMA MapCurrentOrder ==
    ASSUME RInv, OInv, BInv', NEW b \in Bufs, MapCurrent(b)
    PROVE  OInv'
  <1> DEFINE t == EnsureChunk(Current, b)
             c == t.bufs[b]
             m == [buf |-> b, chunk |-> c, deps |-> t.chunks[c].pending]
  <1>1. Grown(t.chunks, cache) /\ Ensured(t.chunks, t.bufs) /\ c \in DOMAIN t.chunks
    BY MemoryPart, CurrentEnsured DEF MInv, MapCurrent, MayMap
  <1> HIDE DEF t
  <1>2. /\ chunks' = t.chunks /\ bufs' = t.bufs /\ maps' = maps \cup {m}
        /\ UNCHANGED <<cache, events, req, views>> /\ Idle /\ ~Mapped(b)
    BY DEF MapCurrent, MayMap, t
  <1>3. GrownOrder /\ c # NoChunk
    BY <1>1, <1>2, GrowOrder, Bounds DEF Grown
  <1>4. m.buf = b /\ m.chunk = c /\ m.deps = t.chunks[c].pending /\ \A x \in maps \cup views : x.buf # b
    BY <1>2 DEF Mapped
  <1>5. bufs'[b] = m.chunk /\ bufs'[b] # NoChunk /\ m.deps = chunks'[bufs'[b]].pending
    BY <1>2, <1>3, <1>4
  <1> HIDE DEF c, m
  <1>6. Idle'
    BY <1>2 DEF Idle
  <1>7. LaunchInv' /\ OwnInv' /\ ReqOrderInv' /\ ReqEvents' = {}
    BY <1>6, IdleOrder
  <1>9. RecordInv'
    BY <1>3 DEF RecordInv, GrownOrder, Bound
  <1>10. MapInv'
    BY <1>2, <1>3, <1>5 DEF MapInv, GrownOrder
  <1>11. QED
    BY <1>3, <1>7, <1>9, <1>10 DEF OInv, BInv, GrownOrder

LEMMA MapDiscardOrder ==
    ASSUME RInv, OInv, BInv', Polite, NEW b \in Bufs, MapDiscard(b)
    PROVE  OInv'
  <1> DEFINE t == EnsureChunk(Current, b)
             c == t.bufs[b]
             v == [buf |-> b, chunk |-> c, seen |-> None, wrote |-> TRUE]
  <1>1. Grown(t.chunks, cache) /\ Ensured(t.chunks, t.bufs) /\ c \in DOMAIN t.chunks
    BY MemoryPart, CurrentEnsured DEF MInv, MapDiscard, MayMap
  <1> HIDE DEF t
  <1>2. /\ chunks' = t.chunks /\ bufs' = t.bufs /\ views' = views \cup {v}
        /\ UNCHANGED <<cache, events, req, maps>> /\ Idle /\ ~Mapped(b)
        /\ t.chunks[c].pending \subseteq Finished /\ ~HasReaders(b)
    BY DEF MapDiscard, MayMap, t
  <1>3. GrownOrder /\ c # NoChunk
    BY <1>1, <1>2, GrowOrder, Bounds DEF Grown
  <1>4. v.buf = b /\ v.chunk = c /\ \A x \in maps \cup views : x.buf # b
    BY <1>2 DEF Mapped
  <1>5. bufs'[b] = v.chunk /\ bufs'[b] # NoChunk /\ chunks'[bufs'[b]].pending \subseteq Finished
    BY <1>2, <1>3, <1>4
  <1> HIDE DEF c, v
  <1>6. Idle'
    BY <1>2 DEF Idle
  <1>7. LaunchInv' /\ OwnInv' /\ ReqOrderInv' /\ ReqEvents' = {}
    BY <1>6, IdleOrder
  <1>9. RecordInv'
    BY <1>3 DEF RecordInv, GrownOrder, Bound
  <1>10. \A d \in Busy : chunks'[v.chunk].hal \notin Writes(d) /\ chunks'[v.chunk].hal \notin Reads(d)
    BY <1>2, <1>3, <1>5 DEF GrownOrder, Busy
  <1>11. MapInv'
    BY <1>2, <1>3, <1>10 DEF MapInv, GrownOrder
  <1>12. QED
    BY <1>3, <1>7, <1>9, <1>11 DEF OInv, BInv, GrownOrder

\* Nothing but the mappings changes.
LEMMA MappingOrder ==
    ASSUME RInv, OInv, UNCHANGED <<bufs, chunks, events, req>>, BInv', MapInv'
    PROVE  OInv'
  <1>1. /\ Busy' = Busy /\ ReqEvents' = ReqEvents
        /\ \A d : Reads(d)' = Reads(d) /\ Writes(d)' = Writes(d)
    BY DEF Busy, Finished, Reads, Writes, ReqEvents
  <1>2. ReqOrderInv'
    BY DEF OInv, ReqOrderInv
  <1>3. LaunchInv'
    BY <1>1 DEF OInv, LaunchInv, Launched, Out
  <1>4. RecordInv' /\ OwnInv'
    BY <1>1 DEF OInv, RecordInv, OwnInv, Bound, In
  <1>5. OrderInv'
    BY <1>1 DEF OInv, OrderInv, Clash
  <1>6. QED
    BY <1>2, <1>3, <1>4, <1>5 DEF OInv, BInv

LEMMA MapReadyOrder ==
    ASSUME RInv, OInv, BInv', NEW m \in maps, MapReady(m)
    PROVE  OInv'
  <1> DEFINE v == [buf |-> m.buf, chunk |-> m.chunk, seen |-> mem[chunks[m.chunk].hal], wrote |-> FALSE]
  <1>1. /\ maps' = maps \ {m} /\ views' = views \cup {v} /\ m.deps \subseteq Finished
        /\ UNCHANGED <<bufs, chunks, events, req>>
        /\ v.buf = m.buf /\ v.chunk = m.chunk /\ ~v.wrote
    BY DEF MapReady
  <1> HIDE DEF v
  <1>4. Busy' = Busy /\ \A d : Reads(d)' = Reads(d) /\ Writes(d)' = Writes(d)
    BY <1>1 DEF Busy, Finished, Reads, Writes
  <1>5. \A d \in Busy : chunks[m.chunk].hal \notin Writes(d)
    BY <1>1 DEF OInv, MapInv, Busy
  <1>6. MapInv'
    BY <1>1, <1>4, <1>5 DEF OInv, MapInv
  <1>7. QED
    BY <1>1, <1>6, MappingOrder

LEMMA HostWritesOrder ==
    ASSUME RInv, OInv, BInv', Polite, NEW v \in views, HostWrites(v)
    PROVE  OInv'
  <1> DEFINE w == [v EXCEPT !.wrote = TRUE]
  <1>1. /\ views' = (views \ {v}) \cup {w} /\ Idle /\ ~HasReaders(v.buf)
        /\ UNCHANGED <<bufs, chunks, events, req, maps>>
    BY DEF HostWrites
  <1>2. w.buf = v.buf /\ w.chunk = v.chunk /\ v.chunk \in ChunkIds
    BY DEF RInv, TypeInv, View
  <1> HIDE DEF w
  <1>5. Busy' = Busy /\ \A d : Reads(d)' = Reads(d) /\ Writes(d)' = Writes(d)
    BY <1>1 DEF Busy, Finished, Reads, Writes
  <1>6. \A d \in Busy : chunks[v.chunk].hal \notin Reads(d)
    <2>1. bufs[v.buf] = v.chunk /\ Bound(v.buf)
      BY <1>2, Bounds DEF OInv, BufInv, Bound
    <2>2. QED
      BY <1>1, <2>1, NoReaders DEF RInv
  <1>7. MapInv'
    BY <1>1, <1>2, <1>5, <1>6 DEF OInv, MapInv
  <1>8. QED
    BY <1>1, <1>7, MappingOrder

LEMMA StartRunOrder ==
    ASSUME RInv, OInv, BInv', Polite, NEW call \in Calls, StartRun(call)
    PROVE  OInv'
  <1> DEFINE s == BuildChunkMap(call)
  <1>1. Memory(s, 0) /\ Placed(s, call.allocs) /\ Len(s.alloc) = Len(call.allocs)
    BY MemoryPart, ChunkMapBuilt DEF MInv, StartRun
  <1> HIDE DEF s
  <1>2. /\ chunks' = s.chunks /\ cache' = s.cache /\ bufs' = s.bufs
        /\ req' = [call |-> call, step |-> 1, alloc |-> s.alloc,
                   want |-> [i \in DOMAIN s.alloc |-> s.chunks[s.alloc[i]].want],
                   event |-> <<>>, terminal |-> {}]
        /\ UNCHANGED <<events, maps, views>> /\ Idle
        /\ \A b \in Inputs(call) \cup Outputs(call) : ~Mapped(b)
        /\ \A b \in Overwritten(call) : ~HasReaders(b)
    BY DEF StartRun, s
  <1>3. req'.call = call /\ req'.alloc = s.alloc /\ req'.event = <<>>
    BY <1>2
  <1>4. GrownOrder
    BY <1>1, <1>2, GrowOrder DEF Memory
  <1>5. call.allocs \in Seq(Alloc) /\ DOMAIN s.alloc = 1..Len(s.alloc)
    BY <1>1, RuntimeAssumption DEF Placed
  <1>s. \A i \in 1..Len(s.alloc) : call.allocs[i] \in Alloc
    BY <1>1, <1>5
  <1>6. \A i : In(i)' = call.allocs[i].in /\ Out(i)' = call.allocs[i].out
    BY <1>3 DEF In, Out
  <1>10. LaunchInv' /\ ReqOrderInv' /\ ReqEvents' = {}
    BY <1>3 DEF LaunchInv, ReqOrderInv, ReqEvents
  <1>11. RecordInv'
    BY <1>4 DEF RecordInv, GrownOrder, Bound
  <1>12. OwnInv'
    <2> SUFFICES ASSUME NEW i \in DOMAIN s.alloc, NEW d \in Busy
                 PROVE  /\ call.allocs[i].in = NoBuf => chunks'[s.alloc[i]].hal \notin Writes(d) \cup Reads(d)
                        /\ i \in WrittenAllocs(call) => chunks'[s.alloc[i]].hal \notin Reads(d)
      BY <1>3, <1>4, <1>6 DEF OwnInv, GrownOrder
    <2>1. i \in 1..Len(s.alloc) /\ s.alloc[i] \in DOMAIN chunks' /\ s.alloc[i] \in ChunkIds
      BY <1>1, <1>2, <1>5 DEF Placed
    <2>2. CASE call.allocs[i].in = NoBuf
      <3>1. s.alloc[i] \notin DOMAIN chunks
        BY <1>1, <2>1, <2>2 DEF Placed
      <3>2. QED
        BY <1>4, <2>1, <3>1 DEF GrownOrder
    <2>3. CASE call.allocs[i].in # NoBuf
      <3> DEFINE b == call.allocs[i].in
      <3>1. bufs'[b] = s.alloc[i] /\ bufs'[b] # NoChunk
        BY <1>1, <1>2, <2>1, <2>3, Bounds DEF Placed
      <3>2. b \in Bufs
        <4>1. b \in Bufs \/ bufs'[b] = NoChunk \/ b = NoBuf
          <5>1. call.allocs[i] \in Alloc
            BY <1>s, <2>1
          <5>2. QED
            BY <5>1 DEF Alloc
        <4>2. QED
          BY <2>3, <3>1, <4>1
      <3>3. i \in WrittenAllocs(call) => b \in Overwritten(call)
        BY <2>3 DEF WrittenAllocs, Overwritten
      <3>4. QED
        BY <1>2, <1>4, <2>3, <3>1, <3>2, <3>3 DEF GrownOrder
    <2>4. QED
      BY <2>2, <2>3
  <1>13. MapInv'
    BY <1>2, <1>4 DEF MapInv, GrownOrder
  <1>14. QED
    BY <1>4, <1>10, <1>11, <1>12, <1>13 DEF OInv, BInv, GrownOrder

-----------------------------------------------------------------------------
(* An operation is given to the device *)

\* Operation n is added, and waits; chunks keep their memory and what is pending.
Adds(n) ==
    /\ DOMAIN events' = DOMAIN events \cup {n} /\ n \notin DOMAIN events
    /\ \A x \in DOMAIN events : events'[x] = events[x] /\ x < n /\ ~(n < x)
    /\ ~(n < n)
    /\ events'[n].st = "waiting"
    /\ \A c \in DOMAIN chunks' :
          /\ c \in DOMAIN chunks /\ chunks'[c].hal = chunks[c].hal
          /\ chunks[c].pending \subseteq chunks'[c].pending

AddedOrder(n) ==
    /\ Busy' = Busy \cup {n} /\ n \notin Busy
    /\ \A d \in Busy : Writes(d)' = Writes(d) /\ Reads(d)' = Reads(d)
    /\ (\A d \in Busy : Clash(d, n)' => Follows(events', d, n)) => OrderInv'

LEMMA AddOrder ==
    ASSUME OInv, NEW n, Adds(n)
    PROVE  AddedOrder(n)
  <1>1. /\ Busy' = Busy \cup {n} /\ n \notin Busy
        /\ \A d \in Busy : d \in DOMAIN events /\ Writes(d)' = Writes(d) /\ Reads(d)' = Reads(d)
    BY DEF Adds, Busy, Finished, Writes, Reads
  <1>2. ASSUME \A d \in Busy : Clash(d, n)' => Follows(events', d, n)
        PROVE  OrderInv'
    <2> SUFFICES ASSUME NEW d \in Busy', NEW e \in Busy', d < e, Clash(d, e)'
                 PROVE  Follows(events', d, e)
      BY DEF OrderInv
    <2>1. d \in Busy /\ (e \in Busy \/ e = n)
      BY <1>1 DEF Adds
    <2>2. CASE e = n
      BY <1>2, <2>1, <2>2
    <2>3. CASE e \in Busy
      <3>1. Clash(d, e)
        BY <1>1, <2>1, <2>3 DEF Clash
      <3>2. Follows(events, d, e)
        BY <2>1, <2>3, <3>1 DEF OInv, OrderInv
      <3>3. QED
        BY <1>1, <2>1, <3>2, FollowsNew DEF Adds
    <2>4. QED
      BY <2>1, <2>2, <2>3
  <1>3. QED
    BY <1>1, <1>2 DEF AddedOrder

LEMMA WriteBackOrder ==
    ASSUME RInv, OInv, RInv', BInv', NEW v \in views, WriteBack(v)
    PROVE  OInv'
  <1>1. Len(events) \in Nat /\ DOMAIN events = 1..Len(events)
    BY DEF RInv, TypeInv
  <1>2. PICK n \in Nat : n = Len(events) + 1
    BY <1>1
  <1> DEFINE hal == chunks[v.chunk].hal
             new == [deps |-> {}, reads |-> {}, kernel |-> FALSE, st |-> "waiting",
                     writes |-> IF v.wrote THEN {hal} ELSE {}]
             chunk == [AddReadDependency(v.chunk, n) EXCEPT
                         !.want = IF v.wrote THEN n ELSE chunks[v.chunk].want]
             cs == Put(chunks, v.chunk, chunk)
  <1>3. /\ events' = Append(events, new) /\ views' = views \ {v}
        /\ UNCHANGED <<bufs, req, maps>> /\ Idle
        /\ DOMAIN chunks' \subseteq DOMAIN cs /\ \A c \in DOMAIN chunks' : chunks'[c] = cs[c]
    BY <1>2 DEF WriteBack, DropTo
  <1>4. v.chunk \in DOMAIN chunks /\ chunks[v.chunk] \in Chunk /\ v.buf \in Bufs /\ bufs[v.buf] = v.chunk
    BY OwnersRefer DEF RInv, TypeInv, NoneDangles, View, OInv, BufInv
  <1>5. chunk.hal = hal /\ chunk.pending = chunks[v.chunk].pending \cup {n}
    BY <1>4 DEF AddReadDependency, Chunk
  <1> HIDE DEF chunk
  <1>6. \A c \in DOMAIN chunks' :
           /\ c \in DOMAIN chunks /\ chunks'[c].hal = chunks[c].hal
           /\ chunks[c].pending \subseteq chunks'[c].pending
           /\ c = v.chunk => n \in chunks'[c].pending
    BY <1>3, <1>4, <1>5 DEF Put
  <1>7. /\ DOMAIN events' = DOMAIN events \cup {n} /\ n \notin DOMAIN events
        /\ \A x \in DOMAIN events : events'[x] = events[x] /\ x < n /\ ~(n < x)
        /\ events'[n] = new
    BY <1>1, <1>2, <1>3 DEF RInv, TypeInv
  <1>8. Adds(n)
    BY <1>2, <1>6, <1>7 DEF Adds
  <1>9. AddedOrder(n)
    BY <1>8, AddOrder
  <1>10. Writes(n)' = (IF v.wrote THEN {hal} ELSE {}) /\ Reads(n)' = {}
    BY <1>7 DEF Writes, Reads
  <1>11. NoneDangles'
    BY OwnersReferNext
  <1>12. \A c, d \in DOMAIN chunks : chunks[c].hal = chunks[d].hal => c = d
    BY DEF RInv, HalInv, OwnerInv
  <1> HIDE DEF hal, new, cs
  <1>13. Idle'
    BY <1>3 DEF Idle
  <1>14. LaunchInv' /\ OwnInv' /\ ReqOrderInv' /\ ReqEvents = {}
    BY <1>13, <1>3, IdleOrder DEF ReqEvents
  <1>16. RecordInv'
    <2> SUFFICES ASSUME NEW b \in Bufs, bufs[b] # NoChunk, NEW d \in Busy',
                        chunks'[bufs[b]].hal \in Writes(d)'
                 PROVE  d \in chunks'[bufs[b]].pending
      BY <1>3 DEF RecordInv, Bound
    <2>1. bufs[b] \in DOMAIN chunks'
      BY <1>3, <1>11 DEF NoneDangles, Bound
    <2>2. bufs[b] \in DOMAIN chunks /\ chunks'[bufs[b]].hal = chunks[bufs[b]].hal
      BY <1>6, <2>1
    <2>3. CASE d = n
      <3>1. bufs[b] = v.chunk
        BY <1>4, <1>10, <1>12, <2>2, <2>3 DEF hal
      <3>2. QED
        BY <1>6, <2>1, <2>3, <3>1
    <2>4. CASE d \in Busy
      <3>1. d \in chunks[bufs[b]].pending
        BY <1>9, <1>14, <2>2, <2>4 DEF OInv, RecordInv, AddedOrder, Bound
      <3>2. QED
        BY <1>6, <2>1, <3>1
    <2>5. QED
      BY <1>9, <2>3, <2>4 DEF AddedOrder
  <1>17. MapInv'
    <2>1. ASSUME NEW x \in maps' \cup views'
          PROVE  /\ x.chunk \in DOMAIN chunks' /\ x.chunk \in DOMAIN chunks
                 /\ chunks'[x.chunk].hal = chunks[x.chunk].hal
                 /\ chunks'[x.chunk].hal \notin Writes(n)' \cup Reads(n)'
      <3>1. /\ x.chunk \in DOMAIN chunks' /\ x.chunk \in DOMAIN chunks
            /\ chunks'[x.chunk].hal = chunks[x.chunk].hal
        BY <1>6, <1>11 DEF NoneDangles
      <3>2. x.buf # v.buf /\ x.buf \in Bufs /\ bufs[x.buf] = x.chunk
        BY <1>3 DEF OInv, BufInv, RInv, TypeInv, Map, View
      <3>3. x.chunk # v.chunk
        BY <1>4, <3>2, Bounds DEF OInv, BufInv, Bound, RInv, TypeInv
      <3>4. QED
        BY <1>4, <1>10, <1>12, <3>1, <3>3 DEF hal
    <2>2. \A d \in Busy' : d # n => d \in Busy /\ Writes(d)' = Writes(d) /\ Reads(d)' = Reads(d)
      BY <1>9 DEF AddedOrder
    <2>3. \A m \in maps' : \A d \in Busy' : chunks'[m.chunk].hal \in Writes(d)' => d \in m.deps
      BY <1>3, <2>1, <2>2 DEF OInv, MapInv
    <2>4. \A u \in views' : \A d \in Busy' :
             /\ chunks'[u.chunk].hal \notin Writes(d)'
             /\ u.wrote => chunks'[u.chunk].hal \notin Reads(d)'
      BY <1>3, <2>1, <2>2 DEF OInv, MapInv
    <2>5. QED
      BY <2>3, <2>4 DEF MapInv
  <1>18. OrderInv'
    <2>1. ASSUME NEW d \in Busy, Clash(d, n)'
          PROVE  FALSE
      <3>1. v.wrote /\ hal \in Writes(d) \cup Reads(d)
        BY <1>9, <1>10, <2>1 DEF Clash, AddedOrder
      <3>2. QED
        BY <3>1 DEF OInv, MapInv, hal
    <2>2. QED
      BY <1>9, <2>1 DEF AddedOrder
  <1>19. QED
    BY <1>14, <1>16, <1>17, <1>18 DEF OInv, BInv

\* The step that is launched comes after d.
Comes(d) == d \in CurrentDeps \/ \E y \in CurrentDeps : Follows(events, d, y)

LEMMA WaitsForNext ==
    ASSUME RInv, OInv, req.step \in DOMAIN req.call.steps, NEW j, WaitsFor(req.call, j, req.step)
    PROVE  j \in DOMAIN req.event /\ Comes(req.event[j])
  <1>m. MInv /\ BInv
    BY MemoryPart DEF OInv, BInv
  <1>1. /\ ~Idle /\ req \in Request /\ req.step \in 1..Len(req.call.steps)
        /\ Step.deps \subseteq DOMAIN req.event
    BY <1>m, CurrentStep
  <1>2. req.call \in Calls /\ req.event \in Seq(1..MaxEvents) /\ req.step = Len(req.event) + 1
    BY <1>1 DEF Request, RInv, TypeInv, ReqTyped
  <1>3. /\ j \in 1..(req.step - 1)
        /\ j \in Step.deps \/ \E y \in Step.deps : WaitsFor(req.call, j, y)
    BY <1>2, WaitsForPast DEF Step
  <1>4. j \in DOMAIN req.event
    BY <1>2, <1>3
  <1>5. CASE j \in Step.deps
    BY <1>4, <1>5 DEF Comes, CurrentDeps
  <1>6. ASSUME NEW y \in Step.deps, WaitsFor(req.call, j, y)
        PROVE  Comes(req.event[j])
    <2>1. y \in DOMAIN req.event /\ req.event[y] \in CurrentDeps
      BY <1>1 DEF CurrentDeps
    <2>2. Follows(events, req.event[j], req.event[y])
      BY <1>4, <1>6, <2>1 DEF OInv, ReqOrderInv
    <2>3. QED
      BY <2>1, <2>2 DEF Comes
  <1>7. QED
    BY <1>3, <1>4, <1>5, <1>6

\* A step comes after all that uses the memory of its allocs in a way that it may not overtake.
LEMMA StepConflicts ==
    ASSUME SeparateInputs, RInv, OInv, req.step \in DOMAIN req.call.steps, NEW d \in Busy,
           NEW i \in Step.ins \cup Step.outs,
           \/ chunks[req.alloc[i]].hal \in Writes(d)
           \/ i \in Step.outs /\ chunks[req.alloc[i]].hal \in Reads(d)
    PROVE  Comes(d)
  <1> DEFINE hal == chunks[req.alloc[i]].hal
  <1>m. MInv /\ BInv
    BY MemoryPart DEF OInv, BInv
  <1>1. /\ ~Idle /\ req \in Request /\ req.step \in 1..Len(req.call.steps)
        /\ i \in DOMAIN req.alloc
    BY <1>m, CurrentStep
  <1>2. req.call \in Calls /\ req.event \in Seq(1..MaxEvents) /\ req.step = Len(req.event) + 1
    BY <1>1 DEF Request, RInv, TypeInv, ReqTyped
  <1>3. i \in Step.outs => i \in WrittenAllocs(req.call)
    BY DEF WrittenAllocs, Step
  <1>4. CASE d \in ReqEvents
    <2>1. PICK j \in DOMAIN req.event : d = req.event[j]
      BY <1>4 DEF ReqEvents
    <2> DEFINE past == req.call.steps[j]
    <2>2. Launched(j, d)
      BY <2>1 DEF OInv, LaunchInv
    <2>3. /\ j \in DOMAIN req.call.steps
          /\ \A o \in past.ins \cup past.outs : o \in DOMAIN req.alloc
      BY StepAllocs DEF RInv
    <2>4. Conflict(past, Step)
      <3> HIDE DEF hal
      <3>1. CASE hal \in Writes(d)
        <4>0. Writes(d) = {chunks[req.alloc[o]].hal : o \in past.outs}
          BY <2>2 DEF Launched
        <4>1. PICK o \in past.outs : chunks[req.alloc[o]].hal = hal
          BY <3>1, <4>0
        <4>2. o \in WrittenAllocs(req.call)
          BY <2>3 DEF WrittenAllocs
        <4>3. o = i
          BY <1>m, <1>1, <2>3, <4>1, <4>2, AllocsApart DEF hal
        <4>4. QED
          BY <4>1, <4>3 DEF Conflict
      <3>2. CASE i \in Step.outs /\ hal \in Reads(d)
        <4>0. Reads(d) = {chunks[req.alloc[o]].hal : o \in past.ins}
          BY <2>2 DEF Launched
        <4>1. PICK o \in past.ins : chunks[req.alloc[o]].hal = hal
          BY <3>2, <4>0
        <4>2. o = i
          BY <1>m, <1>1, <1>3, <2>3, <3>2, <4>1, AllocsApart DEF hal
        <4>3. QED
          BY <3>2, <4>1, <4>2 DEF Conflict
      <3>3. QED
        BY <3>1, <3>2 DEF hal
    <2>5. j \in 1..(req.step - 1)
      BY <1>2, <2>1
    <2>6. WaitsFor(req.call, j, req.step)
      BY <1>2, <2>4, <2>5, ScheduleAssumption DEF Step
    <2>7. QED
      BY <2>1, <2>6, WaitsForNext
  <1>5. CASE d \notin ReqEvents
    <2>1. In(i) # NoBuf /\ ~(i \in Step.outs /\ hal \in Reads(d))
      BY <1>1, <1>3, <1>5 DEF OInv, OwnInv
    <2>2. hal \in Writes(d) /\ bufs[In(i)] = req.alloc[i] /\ In(i) \in Bufs
      BY <1>1, <2>1, RequestAllocs DEF OInv, AllocInv, RInv
    <2>3. Bound(In(i))
      BY <1>1, <2>2, Bounds, OwnersRefer DEF Bound, RInv, TypeInv, NoneDangles, ReqChunks
    <2>4. d \in chunks[req.alloc[i]].pending
      BY <1>5, <2>2, <2>3 DEF OInv, RecordInv
    <2>5. QED
      BY <2>4 DEF Comes, CurrentDeps, Pending, StepChunks
  <1>6. QED
    BY <1>4, <1>5

\* Operation n is the next step of the request.
Launches(n) ==
    /\ Adds(n)
    /\ events'[n].deps = CurrentDeps
    /\ Writes(n)' = {chunks[req.alloc[i]].hal : i \in Step.outs}
    /\ Reads(n)' = {chunks[req.alloc[i]].hal : i \in Step.ins}
    /\ \A i \in Step.outs : Out(i) # NoBuf => n \in chunks'[req.alloc[i]].pending
    /\ DOMAIN chunks' = DOMAIN chunks
    /\ req'.call = req.call /\ req'.alloc = req.alloc /\ req'.event = Append(req.event, n)
    /\ UNCHANGED <<bufs, maps, views>>

LEMMA StepLaunches ==
    ASSUME RInv, LaunchStep
    PROVE  \E n \in Nat : Launches(n)
  <1>1. Len(events) \in Nat /\ DOMAIN events = 1..Len(events)
    BY DEF RInv, TypeInv
  <1>2. PICK n \in Nat : n = Len(events) + 1
    BY <1>1
  <1> DEFINE outs == {req.alloc[i] : i \in Step.outs}
             addDep(c) == \E i \in DOMAIN req.alloc : req.alloc[i] = c /\ req.call.allocs[i].out # NoBuf
             new == [deps |-> CurrentDeps,
                     reads |-> {<<chunks[req.alloc[i]].hal, req.want[i]>> : i \in Step.ins},
                     writes |-> {chunks[c].hal : c \in outs},
                     kernel |-> TRUE,
                     st |-> "waiting"]
  <1>3. /\ req.step \in DOMAIN req.call.steps
        /\ events' = Append(events, new)
        /\ chunks' = [c \in DOMAIN chunks |->
                        IF c \notin outs THEN chunks[c]
                        ELSE IF addDep(c) THEN AddReadDependency(c, n)
                        ELSE [chunks[c] EXCEPT !.want = n]]
        /\ req' = [req EXCEPT !.step = @ + 1,
                              !.event = Append(@, n),
                              !.want = [i \in DOMAIN @ |-> IF i \in Step.outs THEN n ELSE @[i]],
                              !.terminal = Terminal(n)]
        /\ UNCHANGED <<bufs, maps, views>>
    BY <1>2 DEF LaunchStep
  <1>4. /\ ~Idle /\ req \in Request
        /\ Step.ins \cup Step.outs \subseteq DOMAIN req.alloc
    BY <1>3, MemoryPart, CurrentStep
  <1>5. ReqChunks \subseteq DOMAIN chunks /\ \A c \in DOMAIN chunks : chunks[c] \in Chunk
    BY OwnersRefer DEF NoneDangles, RInv, TypeInv
  <1>6. \A i \in Step.outs : req.alloc[i] \in outs /\ req.alloc[i] \in DOMAIN chunks
    BY <1>4, <1>5 DEF ReqChunks
  <1>7. /\ new.deps = CurrentDeps /\ new.st = "waiting"
        /\ new.writes = {chunks[req.alloc[i]].hal : i \in Step.outs}
        /\ {r[1] : r \in new.reads} = {chunks[req.alloc[i]].hal : i \in Step.ins}
    <2>1. new.writes = {chunks[req.alloc[i]].hal : i \in Step.outs}
      OBVIOUS
    <2>2. new.reads = {<<chunks[req.alloc[i]].hal, req.want[i]>> : i \in Step.ins}
      OBVIOUS
    <2>3. {r[1] : r \in new.reads} = {chunks[req.alloc[i]].hal : i \in Step.ins}
      <3> HIDE DEF new
      <3>1. ASSUME NEW r \in new.reads
            PROVE  r[1] \in {chunks[req.alloc[i]].hal : i \in Step.ins}
        BY <2>2
      <3>2. ASSUME NEW i \in Step.ins
            PROVE  \E r \in new.reads : r[1] = chunks[req.alloc[i]].hal
        <4>1. <<chunks[req.alloc[i]].hal, req.want[i]>> \in new.reads
          BY <2>2
        <4>2. QED
          BY <4>1
      <3>3. QED
        BY <3>1, <3>2
    <2>4. QED
      BY <2>1, <2>3
  <1> HIDE DEF new
  <1>8. /\ DOMAIN events' = DOMAIN events \cup {n} /\ n \notin DOMAIN events
        /\ \A x \in DOMAIN events : events'[x] = events[x] /\ x < n /\ ~(n < x)
        /\ events'[n] = new
    BY <1>1, <1>2, <1>3 DEF RInv, TypeInv
  <1>9. \A c \in DOMAIN chunks :
           /\ chunks'[c].hal = chunks[c].hal /\ chunks[c].pending \subseteq chunks'[c].pending
           /\ c \in outs /\ addDep(c) => n \in chunks'[c].pending
    <2> SUFFICES ASSUME NEW c \in DOMAIN chunks
                 PROVE  /\ chunks'[c].hal = chunks[c].hal /\ chunks[c].pending \subseteq chunks'[c].pending
                        /\ c \in outs /\ addDep(c) => n \in chunks'[c].pending
      OBVIOUS
    <2> HIDE DEF outs, addDep
    <2>1. CASE c \in outs /\ addDep(c)
      <3>1. chunks'[c] = AddReadDependency(c, n) /\ chunks[c] \in Chunk
        BY <1>3, <1>5, <2>1
      <3>2. QED
        BY <3>1 DEF AddReadDependency, Chunk
    <2>2. CASE c \in outs /\ ~addDep(c)
      <3>1. chunks'[c] = [chunks[c] EXCEPT !.want = n] /\ chunks[c] \in Chunk
        BY <1>3, <1>5, <2>2
      <3>2. QED
        BY <2>2, <3>1 DEF Chunk
    <2>3. CASE c \notin outs
      BY <1>3, <2>3
    <2>4. QED
      BY <2>1, <2>2, <2>3
  <1>10. \A i \in Step.outs : Out(i) # NoBuf => addDep(req.alloc[i])
    BY <1>4 DEF Out
  <1>11. /\ req'.call = req.call /\ req'.alloc = req.alloc /\ req'.event = Append(req.event, n)
         /\ DOMAIN chunks' = DOMAIN chunks
    BY <1>3, <1>4 DEF Request
  <1> HIDE DEF outs, addDep
  <1>12. Adds(n)
    BY <1>2, <1>7, <1>8, <1>9, <1>11 DEF Adds
  <1>13. Writes(n)' = new.writes /\ Reads(n)' = {r[1] : r \in new.reads} /\ events'[n].deps = CurrentDeps
    BY <1>7, <1>8 DEF Writes, Reads
  <1>14. \A i \in Step.outs : Out(i) # NoBuf => n \in chunks'[req.alloc[i]].pending
    BY <1>6, <1>9, <1>10
  <1>15. QED
    BY <1>3, <1>7, <1>11, <1>12, <1>13, <1>14 DEF Launches

LEMMA LaunchStepOrder ==
    ASSUME SeparateInputs, RInv, OInv, BInv', LaunchStep
    PROVE  OInv'
  <1>m. MInv /\ BInv
    BY MemoryPart DEF OInv, BInv
  <1>1. PICK n \in Nat : Launches(n)
    BY StepLaunches
  <1>2. /\ req.step \in DOMAIN req.call.steps /\ ~Idle /\ req \in Request
        /\ Step.ins \cup Step.outs \subseteq DOMAIN req.alloc
    BY <1>m, CurrentStep DEF LaunchStep
  <1>3. /\ req.call \in Calls /\ req.event \in Seq(1..MaxEvents)
        /\ req.step = Len(req.event) + 1 /\ req.step \in Nat
    BY <1>2 DEF Request, RInv, TypeInv, ReqTyped
  <1>4. /\ req'.call = req.call /\ req'.alloc = req.alloc
        /\ UNCHANGED <<bufs, maps, views>>
        /\ \A i : In(i)' = In(i) /\ Out(i)' = Out(i)
    BY <1>1 DEF Launches, In, Out
  <1>5. /\ DOMAIN req'.event = DOMAIN req.event \cup {req.step} /\ req'.event[req.step] = n
        /\ \A k \in DOMAIN req.event : req'.event[k] = req.event[k]
        /\ DOMAIN req.event = 1..(req.step - 1)
    BY <1>1, <1>3 DEF Launches
  <1>6. AddedOrder(n)
    BY <1>1, AddOrder DEF Launches
  <1>7. /\ Busy' = Busy \cup {n} /\ n \notin Busy
        /\ \A d \in Busy : d \in DOMAIN events /\ Writes(d)' = Writes(d) /\ Reads(d)' = Reads(d)
    BY <1>6 DEF AddedOrder, Busy
  <1>8. /\ ReqChunks \subseteq DOMAIN chunks
        /\ \A x \in maps \cup views : x.chunk \in DOMAIN chunks
        /\ \A b \in Bufs : Bound(b) => bufs[b] \in DOMAIN chunks
    BY OwnersRefer DEF RInv, NoneDangles
  <1>9. \A c \in DOMAIN chunks : chunks'[c].hal = chunks[c].hal /\ chunks[c].pending \subseteq chunks'[c].pending
    BY <1>1 DEF Launches, Adds
  <1>10. \A i \in DOMAIN req.alloc : chunks'[req.alloc[i]].hal = chunks[req.alloc[i]].hal
    BY <1>8, <1>9 DEF ReqChunks
  <1>13. LaunchInv'
    <2> SUFFICES ASSUME NEW k \in DOMAIN req'.event, NEW e, e = req'.event[k], e \in Busy'
                 PROVE  Launched(k, e)'
      BY DEF LaunchInv, Launched
    <2>1. CASE k \in DOMAIN req.event
      <3>1. e = req.event[k] /\ e \in Busy
        <4>1. req.event[k] \in DOMAIN events
          BY <2>1 DEF RInv, PastInv, ReqEvents
        <4>2. n \notin DOMAIN events
          BY <1>1 DEF Launches, Adds
        <4>3. QED
          BY <1>5, <1>7, <2>1, <4>1, <4>2
      <3>2. Launched(k, e)
        BY <2>1, <3>1 DEF OInv, LaunchInv
      <3>3. \A i \in req.call.steps[k].ins \cup req.call.steps[k].outs : i \in DOMAIN req.alloc
        BY <2>1, StepAllocs DEF RInv
      <3>4. \A i \in req.call.steps[k].outs :
               Out(i) # NoBuf => e \in chunks'[req.alloc[i]].pending
        BY <1>8, <1>9, <3>2, <3>3 DEF Launched, ReqChunks
      <3>5. QED
        BY <1>4, <1>7, <1>10, <3>1, <3>2, <3>3, <3>4 DEF Launched
    <2>2. CASE k = req.step
      <3>1. /\ Writes(n)' = {chunks[req.alloc[i]].hal : i \in Step.outs}
            /\ Reads(n)' = {chunks[req.alloc[i]].hal : i \in Step.ins}
            /\ \A i \in Step.outs : Out(i) # NoBuf => n \in chunks'[req.alloc[i]].pending
        BY <1>1 DEF Launches
      <3>2. e = n /\ req'.call.steps[k] = Step
        BY <1>4, <1>5, <2>2 DEF Step
      <3>3. QED
        BY <1>2, <1>4, <1>10, <3>1, <3>2 DEF Launched
    <2>3. QED
      BY <1>5, <2>1, <2>2
  <1>14. ReqEvents' = ReqEvents \cup {n}
    BY <1>5 DEF ReqEvents
  <1>15. RecordInv'
    <2> SUFFICES ASSUME NEW b \in Bufs, Bound(b), NEW d \in Busy', chunks'[bufs[b]].hal \in Writes(d)'
                 PROVE  d \in chunks'[bufs[b]].pending \cup ReqEvents'
      BY <1>4 DEF RecordInv, Bound
    <2>1. CASE d = n
      BY <1>14, <2>1
    <2>2. CASE d \in Busy
      <3>1. chunks[bufs[b]].hal \in Writes(d)
        BY <1>7, <1>8, <1>9, <2>2
      <3>2. d \in chunks[bufs[b]].pending \cup ReqEvents
        BY <2>2, <3>1 DEF OInv, RecordInv
      <3>3. QED
        BY <1>8, <1>9, <1>14, <3>2
    <2>3. QED
      BY <1>7, <2>1, <2>2
  <1>16. OwnInv'
    <2> SUFFICES ASSUME NEW i \in DOMAIN req.alloc, NEW d \in Busy' \ ReqEvents'
                 PROVE  /\ In(i) = NoBuf => chunks'[req.alloc[i]].hal \notin Writes(d)' \cup Reads(d)'
                        /\ i \in WrittenAllocs(req.call) => chunks'[req.alloc[i]].hal \notin Reads(d)'
      BY <1>4 DEF OwnInv
    <2>1. d \in Busy \ ReqEvents
      BY <1>7, <1>14
    <2>2. QED
      BY <1>7, <1>10, <2>1 DEF OInv, OwnInv
  <1>17. MapInv'
    <2>1. ASSUME NEW x \in maps \cup views
          PROVE  /\ chunks'[x.chunk].hal = chunks[x.chunk].hal
                 /\ chunks[x.chunk].hal \notin Writes(n)' \cup Reads(n)'
      <3>1. \A i \in Step.ins \cup Step.outs : chunks[req.alloc[i]].hal # chunks[x.chunk].hal
        BY <1>m, <1>2, MappedApart
      <3>2. QED
        BY <1>1, <1>8, <1>9, <3>1 DEF Launches
    <2>2. QED
      BY <1>4, <1>7, <2>1 DEF OInv, MapInv
  <1>18. ASSUME NEW d \in DOMAIN events, Comes(d)
         PROVE  Follows(events', d, n)
    <2>1. /\ DOMAIN events' = DOMAIN events \cup {n} /\ n \notin DOMAIN events
          /\ \A x \in DOMAIN events : events'[x] = events[x]
          /\ events'[n].st = "waiting" /\ events'[n].deps = CurrentDeps
      BY <1>1 DEF Launches, Adds
    <2>2. d \in events'[n].deps \/ \E y \in events'[n].deps : Follows(events, d, y)
      BY <1>18, <2>1 DEF Comes
    <2>3. QED
      BY <2>1, <2>2, FollowsNew
  <1>19. OrderInv'
    <2> SUFFICES ASSUME NEW d \in Busy, Clash(d, n)'
                 PROVE  Follows(events', d, n)
      BY <1>6 DEF AddedOrder
    <2>1. /\ Writes(n)' = {chunks[req.alloc[i]].hal : i \in Step.outs}
          /\ Reads(n)' = {chunks[req.alloc[i]].hal : i \in Step.ins}
      BY <1>1 DEF Launches
    <2>2. \/ Writes(d) \cap (Writes(n)' \cup Reads(n)') # {}
          \/ Reads(d) \cap Writes(n)' # {}
      BY <1>7 DEF Clash
    <2>3. PICK i \in Step.ins \cup Step.outs :
             \/ chunks[req.alloc[i]].hal \in Writes(d)
             \/ i \in Step.outs /\ chunks[req.alloc[i]].hal \in Reads(d)
      BY <2>1, <2>2
    <2>4. Comes(d)
      BY <1>2, <2>3, StepConflicts
    <2>5. QED
      BY <1>7, <1>18, <2>4
  <1>20. ReqOrderInv'
    <2> SUFFICES ASSUME NEW j \in DOMAIN req'.event, NEW k \in DOMAIN req'.event,
                        WaitsFor(req.call, j, k)
                 PROVE  Follows(events', req'.event[j], req'.event[k])
      BY <1>4 DEF ReqOrderInv
    <2>1. CASE k = req.step
      <3>1. j \in DOMAIN req.event /\ Comes(req.event[j])
        BY <1>2, <2>1, WaitsForNext
      <3>2. req.event[j] \in DOMAIN events
        BY <3>1 DEF RInv, PastInv, ReqEvents
      <3>3. QED
        BY <1>5, <1>18, <2>1, <3>1, <3>2
    <2>2. CASE k \in DOMAIN req.event
      <3>1. k \in DOMAIN req.call.steps
        BY <2>2, StepAllocs DEF RInv
      <3>2. j \in 1..(k - 1)
        BY <1>3, <3>1, WaitsForPast
      <3>3. j \in DOMAIN req.event
        BY <1>3, <1>5, <2>2, <3>2
      <3>4. Follows(events, req.event[j], req.event[k]) /\ req.event[j] \in DOMAIN events
        BY <2>2, <3>3 DEF OInv, ReqOrderInv, RInv, PastInv, ReqEvents
      <3>5. /\ DOMAIN events' = DOMAIN events \cup {n} /\ n \notin DOMAIN events
            /\ \A x \in DOMAIN events : events'[x] = events[x]
        BY <1>1 DEF Launches, Adds
      <3>6. Follows(events', req.event[j], req.event[k])
        BY <3>4, <3>5, FollowsNew
      <3>7. QED
        BY <1>5, <2>2, <3>3, <3>6
    <2>3. QED
      BY <1>5, <2>1, <2>2
  <1>21. QED
    BY <1>13, <1>15, <1>16, <1>17, <1>19, <1>20 DEF OInv, BInv

LEMMA LaunchSucceedsOrder ==
    ASSUME SeparateInputs, RInv, OInv, RInv', BInv', LaunchSucceeds
    PROVE  OInv'
  <1>m. MInv /\ BInv
    BY MemoryPart DEF OInv, BInv
  <1>1. /\ ~Idle /\ req' = NoReq
        /\ \A c \in DOMAIN chunks' : c \in DOMAIN chunks /\ chunks'[c] = chunks[c]
        /\ UNCHANGED <<events, maps, views>>
    BY DEF LaunchSucceeds, DropTo
  <1>2. /\ req \in Request /\ Len(req.alloc) = Len(req.call.allocs) /\ req.call \in Calls
        /\ req.call.allocs \in Seq(Alloc) /\ req.alloc \in Seq(ChunkIds)
    BY <1>1, RuntimeAssumption DEF RInv, TypeInv, ReqTyped, Request
  <1>3. DOMAIN req.alloc = DOMAIN req.call.allocs
    BY <1>2
  <1>4. NoneDangles /\ NoneDangles'
    BY OwnersRefer, OwnersReferNext DEF RInv
  <1>9. Idle'
    BY <1>1 DEF Idle
  <1>10. LaunchInv' /\ OwnInv' /\ ReqOrderInv' /\ ReqEvents' = {}
    BY <1>9, IdleOrder
  <1>11. /\ Busy' = Busy
         /\ \A d : Reads(d)' = Reads(d) /\ Writes(d)' = Writes(d)
    BY <1>1 DEF Busy, Finished, Reads, Writes
  <1>13. RecordInv'
    <2> SUFFICES ASSUME NEW b \in Bufs, bufs'[b] # NoChunk, NEW d \in Busy,
                        chunks'[bufs'[b]].hal \in Writes(d)
                 PROVE  d \in chunks'[bufs'[b]].pending
      BY <1>11 DEF RecordInv, Bound
    <2>1. bufs'[b] \in DOMAIN chunks /\ chunks'[bufs'[b]] = chunks[bufs'[b]]
      BY <1>1, <1>4 DEF NoneDangles, Bound
    <2>2. chunks[bufs'[b]].hal \in Writes(d)
      BY <2>1
    \* an operation of the request that writes the memory writes an alloc of it
    <2>3. ASSUME NEW j \in DOMAIN req.event, d = req.event[j]
          PROVE  \E o \in req.call.steps[j].outs :
                    /\ o \in DOMAIN req.alloc /\ o \in WrittenAllocs(req.call)
                    /\ req.alloc[o] = bufs'[b]
                    /\ Out(o) # NoBuf => d \in chunks[req.alloc[o]].pending
      <3>1. Launched(j, d)
        BY <2>3 DEF OInv, LaunchInv
      <3>2. PICK o \in req.call.steps[j].outs : chunks[req.alloc[o]].hal = chunks[bufs'[b]].hal
        BY <2>2, <3>1 DEF Launched
      <3>3. j \in DOMAIN req.call.steps /\ o \in DOMAIN req.alloc
        BY <2>3, <3>2, StepAllocs DEF RInv
      <3>4. o \in WrittenAllocs(req.call)
        BY <3>3 DEF WrittenAllocs
      <3>5. req.alloc[o] \in DOMAIN chunks
        BY <1>4, <3>3 DEF NoneDangles, ReqChunks
      <3>6. req.alloc[o] = bufs'[b]
        BY <2>1, <3>2, <3>5 DEF RInv, HalInv, OwnerInv
      <3>7. QED
        BY <3>1, <3>3, <3>4, <3>6 DEF Launched
    <2>4. CASE b \in Outputs(req.call)
      <3>1. PICK i \in DOMAIN req.alloc : Out(i) = b /\ bufs'[b] = req.alloc[i]
        BY <1>m, <2>4, BufferRemapped
      <3>2. b # NoBuf
        BY <2>4 DEF Outputs
      <3>3. CASE d \in ReqEvents
        <4>1. PICK j \in DOMAIN req.event : d = req.event[j]
          BY <3>3 DEF ReqEvents
        <4>2. PICK o \in DOMAIN req.alloc :
                 /\ o \in WrittenAllocs(req.call) /\ req.alloc[o] = bufs'[b]
                 /\ Out(o) # NoBuf => d \in chunks[req.alloc[o]].pending
          BY <2>3, <4>1
        <4>3. chunks[req.alloc[o]].hal = chunks[req.alloc[i]].hal
          BY <3>1, <4>2
        <4>4. o = i
          BY <1>m, <4>2, <4>3, AllocsApart
        <4>5. QED
          BY <2>1, <3>1, <3>2, <4>2, <4>4
      <3>4. CASE d \notin ReqEvents
        <4>1. In(i) # NoBuf
          BY <2>2, <3>1, <3>4 DEF OInv, OwnInv
        <4>2. In(i) \in Bufs /\ bufs[In(i)] = bufs'[b] /\ Bound(In(i))
          BY <3>1, <4>1, RequestAllocs DEF OInv, AllocInv, Bound, RInv
        <4>3. QED
          BY <2>1, <2>2, <3>4, <4>2 DEF OInv, RecordInv
      <3>5. QED
        BY <3>3, <3>4
    <2>5. CASE b \notin Outputs(req.call)
      <3>1. Bound(b) /\ bufs'[b] = bufs[b]
        BY <1>m, <2>5, BufferRemapped
      <3>2. d \in chunks[bufs[b]].pending \/ d \in ReqEvents
        BY <2>2, <3>1 DEF OInv, RecordInv
      <3>3. d \notin ReqEvents
        <4> SUFFICES ASSUME d \in ReqEvents PROVE FALSE
          OBVIOUS
        <4>1. PICK j \in DOMAIN req.event : d = req.event[j]
          BY DEF ReqEvents
        <4>2. PICK o \in DOMAIN req.alloc : o \in WrittenAllocs(req.call) /\ req.alloc[o] = bufs[b]
          BY <2>3, <3>1, <4>1
        <4>3. In(o) = b
          <5>1. In(o) # NoBuf
            BY <3>1, <4>2 DEF OInv, AllocInv
          <5>2. In(o) \in Bufs /\ bufs[In(o)] = bufs[b]
            BY <4>2, <5>1, RequestAllocs DEF OInv, AllocInv, RInv
          <5>3. QED
            BY <3>1, <5>2 DEF OInv, BufInv, Bound
        <4>4. b # NoBuf
          BY RuntimeAssumption
        <4>5. QED
          BY <1>m, <2>5, <4>2, <4>3, <4>4, ConsumedInput
      <3>4. QED
        BY <2>1, <3>1, <3>2, <3>3
    <2>6. QED
      BY <2>4, <2>5
  <1>14. \A x \in maps \cup views : chunks'[x.chunk].hal = chunks[x.chunk].hal
    BY <1>1, <1>4 DEF NoneDangles
  <1>15. MapInv'
    BY <1>1, <1>11, <1>14 DEF OInv, MapInv
  <1>16. OrderInv'
    BY <1>1, <1>11 DEF OInv, OrderInv, Clash
  <1>17. QED
    BY <1>10, <1>13, <1>15, <1>16 DEF OInv, BInv

-----------------------------------------------------------------------------
(* The invariant *)

LEMMA OInit ==
    ASSUME RtInit
    PROVE  OInv
  <1>1. /\ Busy = {} /\ DOMAIN req.alloc = {} /\ DOMAIN req.event = {} /\ Idle
        /\ \A b \in Bufs : ~Bound(b)
        /\ maps = {} /\ views = {}
    BY DEF RtInit, Busy, Finished, Idle, NoReq, Bound
  <1>2. BufInv /\ AllocInv /\ OutInv /\ LaunchInv
    BY <1>1 DEF BufInv, AllocInv, OutInv, LaunchInv
  <1>3. RecordInv /\ OwnInv /\ MapInv
    BY <1>1 DEF RecordInv, OwnInv, MapInv
  <1>4. OrderInv /\ ReqOrderInv
    BY <1>1 DEF OrderInv, ReqOrderInv
  <1>5. QED
    BY <1>2, <1>3, <1>4 DEF OInv

LEMMA OStep ==
    ASSUME SeparateInputs, RInv, OInv, RInv', Polite, ~MayFailLaunch, [RtNext]_rtVars
    PROVE  OInv'
  <1>0. BInv'
    BY MemoryPart, BStep DEF OInv, BInv
  <1>1. CASE ClientNext
    BY <1>0, <1>1, StartRunOrder, LaunchStepOrder, LaunchFailsStep, LaunchSucceedsOrder, MapCurrentOrder,
       MapDiscardOrder, FreeBufferOrder, HostWritesOrder, WriteBackOrder DEF ClientNext
  <1>2. CASE Continuation
    BY <1>0, <1>2, ReleaseShimOrder, MapReadyOrder, MapFailsOrder DEF Continuation
  <1>3. CASE DeviceNext
    BY <1>0, <1>3, EventOrder DEF DeviceNext
  <1>4. CASE UNCHANGED rtVars
    <2>1. UNCHANGED <<bufs, chunks, events, req, maps, views>>
      BY <1>4 DEF rtVars
    <2>3. Busy' = Busy /\ \A d : Reads(d)' = Reads(d) /\ Writes(d)' = Writes(d)
      BY <2>1 DEF Busy, Finished, Reads, Writes
    <2>4. MapInv'
      BY <2>1, <2>3 DEF OInv, MapInv
    <2>5. QED
      BY <1>0, <2>1, <2>4, MappingOrder
  <1>5. QED
    BY <1>1, <1>2, <1>3, <1>4 DEF RtNext

LEMMA OrderInvariant ==
    ~MayFailLaunch /\ Polite /\ SeparateInputs => (RtSpec => [](RInv /\ OInv))
  <1> SUFFICES ASSUME ~MayFailLaunch, Polite, SeparateInputs PROVE RtSpec => [](RInv /\ OInv)
    OBVIOUS
  <1>1. RtInit => RInv /\ OInv
    BY RInit, OInit
  <1>2. RInv /\ OInv /\ [RtNext]_rtVars => RInv' /\ OInv'
    BY RStep, OStep
  <1>3. QED
    BY <1>1, <1>2, PTL DEF RtSpec

\* What has started waits for nothing that is not done.
LEMMA NothingOvertakes ==
    RInv /\ OInv => NoConflict
  <1> SUFFICES ASSUME RInv, OInv PROVE NoConflict
    OBVIOUS
  <1> DEFINE On == {x \in Busy : events[x].st # "waiting"}
  <1>1. ASSUME NEW d \in On, NEW e \in On, d < e
        PROVE  ~Clash(d, e)
    <2> SUFFICES ASSUME Clash(d, e) PROVE FALSE
      OBVIOUS
    <2>1. Follows(events, d, e)
      BY <1>1 DEF OInv, OrderInv
    <2>2. events[d].st # "done" /\ events[e].st # "failed"
      BY DEF Busy, Finished
    <2>3. QED
      BY <2>1, <2>2 DEF Follows
  <1>2. ASSUME NEW d \in On, NEW e \in On, d # e
        PROVE  ~Clash(d, e)
    <2>1. d < e \/ e < d
      BY <1>2 DEF Busy, RInv, TypeInv
    <2>2. QED
      BY <1>1, <2>1 DEF Clash
  <1>3. QED
    BY <1>2 DEF NoConflict, Clash, Reads, Writes

\* The device overlaps and reorders what it may, the application runs and maps what it likes:
\* an operation is never on the device together with one that writes what it touches.  What
\* the hypotheses take away are launches that are refused half way, and an application that
\* overwrites a buffer that a launched operation has still to read (run_request.cc:66, Polite)
\* or that it bound to another input of the same run (plaidml.cc:1554, SeparateInputs).
THEOREM KernelsDoNotRace ==
    ~MayFailLaunch /\ Polite /\ SeparateInputs => (RtSpec => []NoConflict)
  <1>1. RInv /\ OInv => NoConflict
    BY NothingOvertakes
  <1>2. QED
    BY <1>1, OrderInvariant, PTL
=============================================================================
