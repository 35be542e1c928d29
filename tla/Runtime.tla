------------------------------- MODULE Runtime -------------------------------
(***************************************************************************)
(* The run time of the local machine platform (tile/platform/local_machine):*)
(* Buffer, MemChunk with its MemDeps, TmpMemStrategy over MemCache, Shim   *)
(* and RunRequest, above an asynchronous device (tile/hal).                *)
(*                                                                         *)
(* One application thread calls Run, MapCurrent, WriteBack and frees its   *)
(* buffers; the device runs what it was given out of order, as soon as the *)
(* dependencies of an operation are complete.  Memory is reference counted: *)
(* an action that drops the last reference to a chunk also runs the chunk's *)
(* destructor.  Contents are abstract: a piece of memory holds the identity *)
(* of the operation that wrote it.                                         *)
(***************************************************************************)
EXTENDS Naturals, FiniteSets, Sequences, FiniteSetsExt

CONSTANTS
    Bufs,           \* the application's buffers (local_machine::Buffer)
    NoBuf,          \* an Alloc without an input (an output)
    Calls,          \* programs with their arguments: [allocs, steps], below
    MaxChunks,      \* bound: chunks alive at a time
    MaxEvents,      \* bound: operations given to the device
    MaxRuns,        \* bound: calls of Program::Run
    MaxMapped,      \* bound: buffers mapped at a time
    MayFailLaunch,  \* the HAL may refuse an operation (out of memory)
    MayFailDevice,  \* an operation may fail on the device
    InOrder,        \* the device completes an operation before it starts the next
    Polite          \* the application overwrites a buffer only if nothing that
                    \* was launched still has to read it

\* An alloc is bound to the buffer of its program input and of its program output;
\* a step names allocs by their index.
Alloc == [in : Bufs \cup {NoBuf}, out : Bufs \cup {NoBuf}]

ProgramStep == [ins : SUBSET Nat, outs : SUBSET Nat, deps : SUBSET Nat]

ASSUME RuntimeAssumption ==
    /\ NoBuf \notin Bufs
    /\ \A call \in Calls : call.allocs \in Seq(Alloc) /\ call.steps \in Seq(ProgramStep)
    /\ {MaxChunks, MaxEvents, MaxRuns, MaxMapped} \subseteq Nat
    /\ {MayFailLaunch, MayFailDevice, InOrder, Polite} \subseteq BOOLEAN

\* Step k waits for step j, itself or through the steps of M.
WaitsFor(call, j, k) ==
    \E M \in SUBSET DOMAIN call.steps :
        /\ k \in M
        /\ \A x \in M : j \in call.steps[x].deps \/ M \cap call.steps[x].deps # {}

Conflict(s, t) == s.outs \cap (t.ins \cup t.outs) # {} \/ s.ins \cap t.outs # {}

WrittenAllocs(call) == UNION {call.steps[k].outs : k \in DOMAIN call.steps}

\* What Run may count on: the schedule that the program was compiled to orders the steps
\* that conflict (the result of ScheduleDeps).
ASSUME ScheduleAssumption ==
    \A call \in Calls : \A k \in DOMAIN call.steps :
        /\ call.steps[k].ins \cup call.steps[k].outs \subseteq DOMAIN call.allocs
        /\ call.steps[k].deps \subseteq 1..(k - 1)
        /\ \A j \in 1..(k - 1) : Conflict(call.steps[j], call.steps[k]) => WaitsFor(call, j, k)

\* An input whose memory is overwritten, or ends up with an output in it, is consumed: its
\* buffer is the buffer of an output, too (plaidml.cc:1554; not always of the one that gets
\* the memory).
ASSUME BindingAssumption ==
    \A call \in Calls : \A i \in DOMAIN call.allocs :
        call.allocs[i].in # NoBuf =>
            /\ call.allocs[i].out # NoBuf => i \in WrittenAllocs(call)
            /\ i \in WrittenAllocs(call) =>
                  \E o \in DOMAIN call.allocs : call.allocs[o].out = call.allocs[i].in

\* What the application has to see to: a buffer that a run overwrites is bound to one of its
\* inputs only.
SeparateInputs ==
    \A call \in Calls : \A i, j \in DOMAIN call.allocs :
        i \in WrittenAllocs(call) /\ i # j /\ call.allocs[i].in # NoBuf =>
            call.allocs[j].in # call.allocs[i].in

VARIABLES
    bufs,       \* Buffer::chunk_
    chunks,     \* the chunks that are referenced
    cache,      \* MemCache::mem_: the HAL buffers that are free for reuse
    events,     \* the operations given to the device, in order
    mem,        \* what each HAL buffer holds
    req,        \* the RunRequest that is queueing its steps
    shims,      \* the shims kept by the continuations of launched runs
    maps,       \* MapCurrent calls whose future is not ready
    views,      \* DirectMemViews
    aborted,    \* the operations that belong to such launches
    runs        \* number of calls of Run (bound, and names the runs)

rtVars == <<bufs, chunks, cache, events, mem, req, shims, maps, views, aborted, runs>>

ChunkIds == 1..MaxChunks
Hals == 1..(2 * MaxChunks)
NoChunk == 0

\* "none" of the operations has written the memory; "torn" marks memory that is being
\* written, was written by an operation that read the wrong thing, or that failed.
None == 0
Torn == MaxEvents + 1
Values == 0..Torn

\* events_ and ep_ of the chunk's MemDeps are its fields pending and ep (the run whose
\* exception it is, or 0); want is the last operation that was launched to write it.
Chunk == [hal : Hals, tmp : BOOLEAN, pending : SUBSET (1..MaxEvents), ep : 0..MaxRuns, want : Values]

Event == [deps : SUBSET (1..MaxEvents),     \* what it waits for
          reads : SUBSET (Hals \X Values),  \* memory it reads, with what it shall find
          writes : SUBSET Hals,
          kernel : BOOLEAN,                 \* a step of a run; else an Unmap
          st : {"waiting", "active", "misread", "done", "failed"}]

NoReq == [call |-> [allocs |-> <<>>, steps |-> <<>>], step |-> 0, alloc |-> <<>>, want |-> <<>>, event |-> <<>>, terminal |-> {}]

RtInit ==
    /\ bufs = [b \in Bufs |-> NoChunk]
    /\ chunks = [c \in {} |-> 0]
    /\ cache = {}
    /\ events = <<>>
    /\ mem = [h \in Hals |-> None]
    /\ req = NoReq
    /\ shims = {}
    /\ maps = {}
    /\ views = {}
    /\ aborted = {}
    /\ runs = 0

Finished == {e \in DOMAIN events : events[e].st \in {"done", "failed"}}
Failed == {e \in DOMAIN events : events[e].st = "failed"}
Busy == DOMAIN events \ Finished
Idle == req = NoReq

-----------------------------------------------------------------------------
(* References *)

\* Which chunks are referenced: by a buffer, by a shim, by a map or a view.
Referenced(bs, rq, sh, mp, vw) ==
    (  {bs[b] : b \in Bufs} \cup {rq.alloc[i] : i \in DOMAIN rq.alloc}
       \cup (UNION {s.chunks : s \in sh}) \cup {m.chunk : m \in mp} \cup {v.chunk : v \in vw}  ) \ {NoChunk}

Touches(e) == events[e].writes \cup {r[1] : r \in events[e].reads}

\* The memory that belongs to a chunk or to the cache, or that the device still uses: a
\* driver does not hand it out in Memory::MakeBuffer, even if its HAL buffer is gone.
Owned(cs, ca) == {cs[c].hal : c \in DOMAIN cs} \cup ca \cup UNION {Touches(e) : e \in Busy}

FreshHal(cs, ca) == Min(Hals \ Owned(cs, ca))
FreshChunk(cs) == Min(ChunkIds \ DOMAIN cs)

NewChunk(hal, tmp) == [hal |-> hal, tmp |-> tmp, pending |-> {}, ep |-> 0, want |-> None]

Put(cs, c, chunk) == [d \in DOMAIN cs \cup {c} |-> IF d = c THEN chunk ELSE cs[d]]

\* Drops the chunks of cs that are not in refs: ~TmpMemChunk gives its memory to the
\* cache, that of a DirectMemChunk is freed.
DropTo(cs, refs) ==
    /\ chunks' = [c \in DOMAIN cs \cap refs |-> cs[c]]
    /\ cache' = cache \cup {cs[c].hal : c \in {d \in DOMAIN cs \ refs : cs[d].tmp}}

-----------------------------------------------------------------------------
(* Program::Run -> RunRequest::Run *)

\* The state BuildChunkMap works on: chunks, cache and buffers, and the chunk of each
\* alloc it has seen.
EnsureChunk(s, b) ==
    IF s.bufs[b] # NoChunk THEN s
    ELSE LET c == FreshChunk(s.chunks)
         IN [s EXCEPT !.chunks = Put(@, c, NewChunk(FreshHal(s.chunks, s.cache), FALSE)),
                      !.bufs[b] = c]

\* MakeChunk of the output strategy (always new memory) and of the temporary one
\* (memory of the cache, if there is any)
MakeChunk(s, tmp) ==
    LET hal == IF tmp /\ s.cache # {} THEN Min(s.cache) ELSE FreshHal(s.chunks, s.cache)
        c == FreshChunk(s.chunks)
    IN [s EXCEPT !.chunks = Put(@, c, NewChunk(hal, tmp)),
                 !.cache = @ \ {hal},
                 !.alloc = Append(@, c)]

MapAlloc(s, a) ==
    IF a.in # NoBuf
    THEN LET t == EnsureChunk(s, a.in) IN [t EXCEPT !.alloc = Append(@, t.bufs[a.in])]
    ELSE MakeChunk(s, a.out = NoBuf)

Current == [chunks |-> chunks, cache |-> cache, bufs |-> bufs, alloc |-> <<>>]

BuildChunkMap(call) ==
    LET build[i \in 0..Len(call.allocs)] ==
          IF i = 0 THEN Current ELSE MapAlloc(build[i - 1], call.allocs[i])
    IN build[Len(call.allocs)]

Inputs(call) == {call.allocs[i].in : i \in DOMAIN call.allocs} \ {NoBuf}
Outputs(call) == {call.allocs[i].out : i \in DOMAIN call.allocs} \ {NoBuf}
Overwritten(call) ==
    {call.allocs[o].in : o \in UNION {call.steps[k].outs : k \in DOMAIN call.steps}} \ {NoBuf}

\* Some operation that was launched has still to read the buffer's memory.
HasReaders(b) ==
    /\ bufs[b] # NoChunk
    /\ \E e \in Busy : \E v \in Values : <<chunks[bufs[b]].hal, v>> \in events[e].reads

\* bound: room for n more chunks, and memory for them
RoomFor(n) ==
    /\ Cardinality(ChunkIds \ DOMAIN chunks) >= n
    /\ Cardinality(Hals \ Owned(chunks, cache)) >= n

\* bound: room for the chunk that EnsureChunk may create
MayEnsure(b) == bufs[b] # NoChunk \/ RoomFor(1)

Mapped(b) == (\E m \in maps : m.buf = b) \/ (\E v \in views : v.buf = b)

\* bound: few buffers are mapped at a time
MayMap(b) == ~Mapped(b) /\ MayEnsure(b) /\ Cardinality(maps) + Cardinality(views) < MaxMapped

\* The Shim's constructor.  buffer.h: all views of a buffer are deleted before it is
\* passed to Run.
StartRun(call) ==
    /\ Idle
    /\ runs < MaxRuns
    /\ Len(events) + Len(call.steps) <= MaxEvents
    /\ RoomFor(Len(call.allocs))
    /\ \A b \in Inputs(call) \cup Outputs(call) : ~Mapped(b)
    /\ Polite => \A b \in Overwritten(call) : ~HasReaders(b)
    /\ LET built == BuildChunkMap(call)
       IN /\ chunks' = built.chunks
          /\ cache' = built.cache
          /\ bufs' = built.bufs
          /\ req' = [call |-> call, step |-> 1, alloc |-> built.alloc,
                     want |-> [i \in DOMAIN built.alloc |-> built.chunks[built.alloc[i]].want],
                     event |-> <<>>, terminal |-> {}]
    /\ runs' = runs + 1
    /\ UNCHANGED <<events, mem, shims, maps, views, aborted>>

\* MemDeps::GetReadDependencies does not throw
Readable(chunk) == chunk.ep = 0

Step == req.call.steps[req.step]
StepChunks == {req.alloc[i] : i \in Step.outs \cup Step.ins}
Pending(cs) == UNION {chunks[c].pending : c \in cs}

\* Mutant: the event is recorded before the dependencies are taken.
DepsAfterRecording ==
    {req.event[d] : d \in Step.deps} \cup Pending(StepChunks) \cup {Len(events) + 1}

\* Mutant: a step waits for the steps of its own program only.
DepsOfSchedule == {req.event[d] : d \in Step.deps}

\* current_deps of RunSchedule: the steps the schedule names, and what the contents of
\* every chunk it touches waits for
CurrentDeps == {req.event[d] : d \in Step.deps} \cup Pending(StepChunks)

\* Mutant: the run is complete with its last step.
TerminalIsLast(e) == {e}

\* dep_set: the operations nothing that was launched later depends on
Terminal(e) == (req.terminal \cup {e}) \ CurrentDeps

\* Mutant: only the first step of a run that writes a chunk is recorded
AddReadDependencyFirst(c, e) ==
    [chunks[c] EXCEPT !.pending = IF @ = {} THEN {e} ELSE @, !.ep = 0, !.want = e]

\* MemDeps::AddReadDependency
AddReadDependency(c, e) ==
    [chunks[c] EXCEPT !.pending = @ \cup {e}, !.ep = 0, !.want = e]

\* One turn of RunSchedule's loop: the step is given to the device.  The schedule marks
\* every output of the program with add_dep, and only those.
LaunchStep ==
    /\ req.step \in DOMAIN req.call.steps
    /\ \A c \in StepChunks : Readable(chunks[c])
    /\ LET e == Len(events) + 1
           outs == {req.alloc[i] : i \in Step.outs}
           addDep(c) == \E i \in DOMAIN req.alloc : req.alloc[i] = c /\ req.call.allocs[i].out # NoBuf
       IN /\ events' = Append(events,
                [deps |-> CurrentDeps,
                 reads |-> {<<chunks[req.alloc[i]].hal, req.want[i]>> : i \in Step.ins},
                 writes |-> {chunks[c].hal : c \in outs},
                 kernel |-> TRUE,
                 st |-> "waiting"])
          /\ chunks' = [c \in DOMAIN chunks |->
                          IF c \notin outs THEN chunks[c]
                          ELSE IF addDep(c) THEN AddReadDependency(c, e)
                          ELSE [chunks[c] EXCEPT !.want = e]]
          /\ req' = [req EXCEPT !.step = @ + 1,
                                !.event = Append(@, e),
                                !.want = [i \in DOMAIN @ |-> IF i \in Step.outs THEN e ELSE @[i]],
                                !.terminal = Terminal(e)]
    /\ UNCHANGED <<bufs, cache, mem, shims, maps, views, aborted, runs>>

\* Mutant: the chunks of a failed launch are left as they are.
PoisonNothing(c, ep) == chunks[c]

\* MemDeps::Poison
Poison(c, ep) == [chunks[c] EXCEPT !.ep = ep]

\* RunSchedule throws: GetReadDependencies found a poisoned chunk, or the HAL refused
\* the operation.  SetLaunchException poisons every chunk of the shim, the shim is
\* destroyed, and Run returns a ready future.
LaunchFails ==
    /\ req.step \in DOMAIN req.call.steps
    /\ LET poisoned == {c \in StepChunks : ~Readable(chunks[c])}
           own == {req.alloc[i] : i \in DOMAIN req.alloc}
       IN \E ep \in {chunks[c].ep : c \in poisoned} \cup (IF MayFailLaunch THEN {runs} ELSE {}) :
            DropTo([c \in DOMAIN chunks |-> IF c \in own THEN Poison(c, ep) ELSE chunks[c]],
                   Referenced(bufs, NoReq, shims, maps, views))
    /\ req' = NoReq
    /\ aborted' = aborted \cup {req.event[k] : k \in DOMAIN req.event}
    /\ UNCHANGED <<bufs, events, mem, shims, maps, views, runs>>

KeepShim == shims \cup {[chunks |-> {req.alloc[i] : i \in DOMAIN req.alloc}, terminal |-> req.terminal]}

\* Shim::updates_ has the outputs in the order of the allocs, so of several allocs that are
\* bound to one buffer the last remains.
LastAlloc(b) ==
    LET bound == {i \in DOMAIN req.alloc : req.call.allocs[i].out = b}
    IN CHOOSE i \in bound : \A j \in bound : j <= i

\* Shim::OnLaunchSuccess remaps the output buffers; the continuation of the run's
\* future keeps the shim.
LaunchSucceeds ==
    /\ ~Idle
    /\ req.step \notin DOMAIN req.call.steps
    /\ bufs' = [b \in Bufs |->
                  IF b \in Outputs(req.call)
                  THEN req.alloc[LastAlloc(b)] ELSE bufs[b]]
    /\ shims' = KeepShim
    /\ req' = NoReq
    /\ DropTo(chunks, Referenced(bufs', NoReq, shims', maps, views))
    /\ UNCHANGED <<events, mem, maps, views, aborted, runs>>

\* The future of WaitFor(terminal_deps) is ready, and with it the run's.
ReleaseShim(s) ==
    /\ s.terminal \subseteq Finished
    /\ shims' = shims \ {s}
    /\ DropTo(chunks, Referenced(bufs, req, shims', maps, views))
    /\ UNCHANGED <<bufs, events, mem, req, maps, views, aborted, runs>>

-----------------------------------------------------------------------------
(* MapCurrent, the view, and its WriteBack or destructor *)

\* Buffer::MapCurrent -> DirectMemChunk::MapCurrent; of a poisoned chunk it throws.
MapCurrent(b) ==
    /\ Idle
    /\ MayMap(b)
    /\ LET ensured == EnsureChunk(Current, b)
           c == ensured.bufs[b]
       IN /\ Readable(ensured.chunks[c])
          /\ chunks' = ensured.chunks
          /\ bufs' = ensured.bufs
          /\ maps' = maps \cup {[buf |-> b, chunk |-> c, deps |-> ensured.chunks[c].pending]}
    /\ UNCHANGED <<cache, events, mem, req, shims, views, aborted, runs>>

\* Buffer::MapDiscard -> DirectMemChunk::MapDiscard, which blocks for the read
\* dependencies and throws if one of them failed.  The application fills the memory.
MapDiscard(b) ==
    /\ Idle
    /\ MayMap(b)
    /\ Polite => ~HasReaders(b)
    /\ LET ensured == EnsureChunk(Current, b)
           c == ensured.bufs[b]
       IN /\ Readable(ensured.chunks[c])
          /\ ensured.chunks[c].pending \subseteq Finished \ Failed
          /\ chunks' = ensured.chunks
          /\ bufs' = ensured.bufs
          /\ views' = views \cup {[buf |-> b, chunk |-> c, seen |-> None, wrote |-> TRUE]}
          /\ mem' = [mem EXCEPT ![ensured.chunks[c].hal] = Torn]
    /\ UNCHANGED <<cache, events, req, shims, maps, aborted, runs>>

\* the future becomes ready with a view ...
MapReady(m) ==
    /\ m.deps \subseteq Finished \ Failed
    /\ maps' = maps \ {m}
    /\ views' = views \cup {[buf |-> m.buf, chunk |-> m.chunk,
                             seen |-> mem[chunks[m.chunk].hal], wrote |-> FALSE]}
    /\ UNCHANGED <<bufs, chunks, cache, events, mem, req, shims, aborted, runs>>

\* ... or with an exception
MapFails(m) ==
    /\ m.deps \subseteq Finished
    /\ m.deps \cap Failed # {}
    /\ maps' = maps \ {m}
    /\ DropTo(chunks, Referenced(bufs, req, shims, maps', views))
    /\ UNCHANGED <<bufs, events, mem, req, shims, views, aborted, runs>>

\* The application writes through the view.
HostWrites(v) ==
    /\ Idle
    /\ ~v.wrote
    /\ Polite => ~HasReaders(v.buf)
    /\ mem' = [mem EXCEPT ![chunks[v.chunk].hal] = Torn]
    /\ views' = (views \ {v}) \cup {[v EXCEPT !.wrote = TRUE]}
    /\ UNCHANGED <<bufs, chunks, cache, events, req, shims, maps, aborted, runs>>

\* DirectMemView::WriteBack and ~DirectMemView: Unmap's event becomes a read dependency
WriteBack(v) ==
    /\ Idle
    /\ Len(events) < MaxEvents
    /\ LET e == Len(events) + 1
           hal == chunks[v.chunk].hal
           cs == Put(chunks, v.chunk, [AddReadDependency(v.chunk, e) EXCEPT
                                         !.want = IF v.wrote THEN e ELSE chunks[v.chunk].want])
       IN /\ events' = Append(events, [deps |-> {}, reads |-> {}, kernel |-> FALSE, st |-> "waiting",
                                       writes |-> IF v.wrote THEN {hal} ELSE {}])
          /\ views' = views \ {v}
          /\ DropTo(cs, Referenced(bufs, req, shims, maps, views'))
    /\ UNCHANGED <<bufs, mem, req, shims, maps, aborted, runs>>

\* The application frees a buffer that it has unmapped.
FreeBuffer(b) ==
    /\ Idle
    /\ ~Mapped(b)
    /\ bufs[b] # NoChunk
    /\ bufs' = [bufs EXCEPT ![b] = NoChunk]
    /\ DropTo(chunks, Referenced(bufs', req, shims, maps, views))
    /\ UNCHANGED <<events, mem, req, shims, maps, views, aborted, runs>>

-----------------------------------------------------------------------------
(* The device, as tile/hal promises it *)

Overwrite(hals, value) == [h \in Hals |-> IF h \in hals THEN value ELSE mem[h]]

\* All that e reads is what its launch saw, new memory having no contents to lose; what e writes itself is left out of account
\* while e runs.
ReadsRight(e, own) == \A r \in events[e].reads : r[2] = None \/ mem[r[1]] = r[2] \/ r[1] \in own

StartEvent(e) ==
    /\ events[e].st = "waiting"
    /\ events[e].deps \subseteq Finished \ Failed
    /\ InOrder => 1..(e - 1) \subseteq Finished
    /\ events' = [events EXCEPT ![e].st = IF ReadsRight(e, {}) THEN "active" ELSE "misread"]
    /\ mem' = Overwrite(events[e].writes, Torn)
    /\ UNCHANGED <<bufs, chunks, cache, req, shims, maps, views, aborted, runs>>

\* An operation in a final state lets go of what it was given.
Final(e, st) == [deps |-> {}, reads |-> {}, writes |-> {}, kernel |-> events[e].kernel, st |-> st]

\* The continuation of AddReadDependency takes an operation that succeeded off the list
\* (at some time, but it holds nobody up any more); one that failed stays, since
\* future.get() throws before the erase.
Erase(e) == [c \in DOMAIN chunks |-> [chunks[c] EXCEPT !.pending = @ \ {e}]]

FinishEvent(e) ==
    /\ events[e].st \in {"active", "misread"}
    /\ events' = [events EXCEPT ![e] = Final(e, "done")]
    /\ chunks' = Erase(e)
    /\ mem' = Overwrite(events[e].writes,
                        IF events[e].st = "active" /\ ReadsRight(e, events[e].writes) THEN e ELSE Torn)
    /\ UNCHANGED <<bufs, cache, req, shims, maps, views, aborted, runs>>

\* It fails on the device, or does not start since something it waits for has failed.
FailEvent(e) ==
    /\ \/ MayFailDevice /\ events[e].kernel /\ events[e].st \in {"active", "misread"}
       \/ events[e].st = "waiting" /\ events[e].deps \subseteq Finished /\ events[e].deps \cap Failed # {}
    /\ events' = [events EXCEPT ![e] = Final(e, "failed")]
    /\ UNCHANGED <<bufs, chunks, cache, mem, req, shims, maps, views, aborted, runs>>

-----------------------------------------------------------------------------
ClientNext ==
    \/ \E call \in Calls : StartRun(call)
    \/ LaunchStep \/ LaunchFails \/ LaunchSucceeds
    \/ \E b \in Bufs : MapCurrent(b) \/ MapDiscard(b) \/ FreeBuffer(b)
    \/ \E v \in views : HostWrites(v) \/ WriteBack(v)

Continuation ==
    \/ \E s \in shims : ReleaseShim(s)
    \/ \E m \in maps : MapReady(m) \/ MapFails(m)

DeviceNext == \E e \in DOMAIN events : StartEvent(e) \/ FinishEvent(e) \/ FailEvent(e)

RtNext == ClientNext \/ Continuation \/ DeviceNext

RtSpec == RtInit /\ [][RtNext]_rtVars

\* A call of Run that was made goes on; the device executes what it can; continuations
\* of ready futures run.  The application need not call anything.
RtFairness ==
    /\ WF_rtVars(LaunchStep \/ LaunchFails \/ LaunchSucceeds)
    /\ WF_rtVars(\E s \in shims : ReleaseShim(s))
    /\ \A b \in Bufs : WF_rtVars(\E m \in maps : m.buf = b /\ (MapReady(m) \/ MapFails(m)))
    /\ \A e \in 1..MaxEvents :
         WF_rtVars(e \in DOMAIN events /\ (StartEvent(e) \/ FinishEvent(e) \/ FailEvent(e)))

RtFairSpec == RtSpec /\ RtFairness

-----------------------------------------------------------------------------
\* plaidml.h:541-544: a mapping that succeeds shows what the last operation launched
\* before it wrote, for every interleaving of the device with the application: a kernel
\* that failed, one that read too early or too late, or memory that was handed out
\* twice would all show.
MapSeesLogical ==
    \A v \in views : ~v.wrote /\ chunks[v.chunk].want # None => v.seen = chunks[v.chunk].want

\* No two operations that are on the device at a time conflict on a piece of memory.
NoConflict ==
    \A d, e \in {x \in Busy : events[x].st # "waiting"} :
        d # e => /\ events[d].writes \cap events[e].writes = {}
                 /\ \A r \in events[e].reads : r[1] \notin events[d].writes

\* hal.h:160-163: the memory of a kernel stays referenced until the kernel has run, so
\* it is neither freed nor in the cache of temporaries.
KernelMemoryHeld ==
    \A e \in Busy : events[e].kernel => Touches(e) \subseteq {chunks[c].hal : c \in DOMAIN chunks}

\* What the steps of a launch wrote before a later step of it was refused is never seen
\* by the application: the chunk it was written to is poisoned or gone.
HalfRunUnreadable ==
    \A v \in views : ~v.wrote /\ chunks[v.chunk].want # None => v.seen \notin aborted

\* Everything that was given to the device gets to a final state, every MapCurrent is
\* answered, and every run lets go of its chunks: no operation waits on itself through
\* the dependencies, and no future waits for one that is not coming.
EverythingCompletes ==
    /\ \A e \in 1..MaxEvents : (e \in Busy) ~> (e \in Finished)
    /\ \A b \in Bufs : (\E m \in maps : m.buf = b) ~> ~(\E m \in maps : m.buf = b)
    /\ (runs = MaxRuns /\ req = NoReq) ~> (shims = {})
=============================================================================
