---------------------------- MODULE RuntimeProofs ----------------------------
(***************************************************************************)
(* Memory of the run time: for any programs, buffers and bounds, the memory *)
(* of a kernel stays referenced until the kernel has run, and no piece of  *)
(* memory has two owners -- as long as the HAL refuses no operation.  (If  *)
(* it does, the shim of the run is destroyed while its first kernels are   *)
(* on the device; the run runtime_refused shows it.)                       *)
(*                                                                         *)
(* What keeps a kernel's memory is the shim of its run, which lives until  *)
(* the terminal operations of the run have finished.  So the invariant has *)
(* to say that whatever the device has not finished of a run is waited for *)
(* by a terminal operation, through operations that are unfinished as well.*)
(*                                                                         *)
(* Whether or not launches are refused, chunks do not share memory, the    *)
(* memory of a buffer is no temporary, and dependencies point to earlier   *)
(* operations: MInv says so and is inductive by itself.                    *)
(***************************************************************************)
EXTENDS Runtime, FiniteSetTheorems, WellFoundedInduction, TLAPS

Started == {"active", "misread"}

\* The operations and the chunks of the request that is being queued.
ReqEvents == {req.event[k] : k \in DOMAIN req.event}
ReqChunks == {req.alloc[i] : i \in DOMAIN req.alloc}

Mem(cs) == {chunks[c].hal : c \in cs}
InUse == UNION {Touches(e) : e \in Busy}
Bound(b) == bufs[b] # NoChunk

Shim == [chunks : SUBSET ChunkIds, terminal : SUBSET (1..MaxEvents)]
Map == [buf : Bufs, chunk : ChunkIds, deps : SUBSET (1..MaxEvents)]
View == [buf : Bufs, chunk : ChunkIds, seen : Values, wrote : BOOLEAN]
Request == [call : Calls, step : Nat, alloc : Seq(ChunkIds), want : Seq(Values),
            event : Seq(1..MaxEvents), terminal : SUBSET (1..MaxEvents)]

\* A request has a chunk for every alloc and an operation for every step it is past, and
\* there is room for the operations of the steps that are left.
ReqTyped ==
    ~Idle =>
      /\ req \in Request
      /\ Len(req.alloc) = Len(req.call.allocs)
      /\ Len(req.want) = Len(req.call.allocs)
      /\ req.step = Len(req.event) + 1
      /\ req.step <= Len(req.call.steps) + 1
      /\ Len(events) + Len(req.call.steps) + 1 - req.step <= MaxEvents

TypeInv ==
    /\ bufs \in [Bufs -> ChunkIds \cup {NoChunk}]
    /\ DOMAIN chunks \subseteq ChunkIds
    /\ chunks \in [DOMAIN chunks -> Chunk]
    /\ cache \subseteq Hals
    /\ events \in Seq(Event)
    /\ Len(events) <= MaxEvents
    /\ mem \in [Hals -> Values]
    /\ runs \in 0..MaxRuns
    /\ ReqTyped
    /\ shims \subseteq Shim
    /\ maps \subseteq Map
    /\ views \subseteq View

\* No reference dangles.
RefInv == Referenced(bufs, req, shims, maps, views) \subseteq DOMAIN chunks

\* No launch has failed.
PoisonInv == \A c \in DOMAIN chunks : chunks[c].ep = 0

\* Dependencies are on earlier operations, and an operation starts after all of them.
PastInv ==
    /\ \A e \in DOMAIN events :
          /\ events[e].deps \subseteq 1..(e - 1)
          /\ events[e].st \in Started => events[e].deps \subseteq Finished
          /\ e \in Finished => Touches(e) = {}
    /\ \A c \in DOMAIN chunks : chunks[c].pending \subseteq DOMAIN events
    /\ ReqEvents \subseteq DOMAIN events

Unfinished(ev) == {e \in DOMAIN ev : ev[e].st \notin {"done", "failed"}}

\* An operation of T waits for e, itself or through operations that are not finished.
Covered(ev, e, T) ==
    \E E \in SUBSET Unfinished(ev) :
        e \in E /\ \A x \in E : x \in T \/ \E y \in E : x \in ev[y].deps

\* The owner of the chunks cs, which it keeps until T has finished, holds e's memory.
Held(e, cs, T) == Touches(e) \subseteq Mem(cs) /\ Covered(events, e, T)

HeldInv ==
    \A e \in Busy : events[e].kernel =>
        Held(e, ReqChunks, req.terminal) \/ \E s \in shims : Held(e, s.chunks, s.terminal)

\* A piece of memory belongs to one chunk, or it is in the cache.
OwnerInv ==
    /\ \A c, d \in DOMAIN chunks : chunks[c].hal = chunks[d].hal => c = d
    /\ cache \cap Mem(DOMAIN chunks) = {}

\* The device is done with what is in the cache.
HalInv == OwnerInv /\ cache \cap InUse = {}

\* The memory of a buffer, and memory that is mapped, is no temporary.
KeepInv ==
    /\ \A b \in Bufs : Bound(b) => ~chunks[bufs[b]].tmp
    /\ \A i \in DOMAIN req.alloc : req.call.allocs[i].out # NoBuf => ~chunks[req.alloc[i]].tmp
    /\ \A v \in maps \cup views : ~chunks[v.chunk].tmp

\* Memory that was mapped does not become one, either.
TmpInv ==
    /\ KeepInv
    /\ \A e \in Busy : ~events[e].kernel =>
          \A c \in DOMAIN chunks : chunks[c].hal \in Touches(e) => ~chunks[c].tmp

\* What holds of the memory whether or not the HAL refuses an operation ...
MInv == TypeInv /\ RefInv /\ PastInv /\ OwnerInv /\ KeepInv

\* ... and what holds as long as it refuses none.
RInv == TypeInv /\ RefInv /\ PoisonInv /\ PastInv /\ HeldInv /\ HalInv /\ TmpInv

-----------------------------------------------------------------------------
(* Natural numbers and recursion *)

\* A set of natural numbers that is not empty has a least element: among its initial
\* segments, which are finite, one is contained in no other.
LEMMA LeastElement ==
    ASSUME NEW S \in SUBSET Nat, S # {}
    PROVE  \E x \in S : \A y \in S : x <= y
  <1> DEFINE Upto(x) == S \cap (0..x)
             Segments == {Upto(x) : x \in S}
  <1>1. Segments \subseteq FiniteSubsetsOf(Nat)
    <2> SUFFICES ASSUME NEW x \in S PROVE Upto(x) \in FiniteSubsetsOf(Nat)
      OBVIOUS
    <2>1. IsFiniteSet(0..x)
      BY FS_Interval
    <2>2. IsFiniteSet(Upto(x))
      BY <2>1, FS_Subset
    <2>3. QED
      BY <2>2 DEF FiniteSubsetsOf
  <1>2. Segments # {}
    OBVIOUS
  <1> HIDE DEF Segments
  <1>3. PICK A \in Segments : \A B \in Segments : ~(<<B, A>> \in StrictSubsetOrdering(Nat))
    BY <1>1, <1>2, FS_StrictSubsetOrderingWellFounded, WFMin
  <1>4. PICK x \in S : A = Upto(x)
    BY <1>3 DEF Segments
  <1>5. ASSUME NEW y \in S, y < x
        PROVE  FALSE
    <2>1. Upto(y) \subseteq A /\ Upto(y) # A /\ Upto(y) \subseteq Nat /\ A \subseteq Nat
      BY <1>4, <1>5
    <2>2. <<Upto(y), A>> \in StrictSubsetOrdering(Nat)
      BY <2>1 DEF StrictSubsetOrdering
    <2>3. QED
      BY <1>3, <2>2 DEF Segments
  <1>6. QED
    BY <1>5

\* What Min chooses.
LEMMA MinIsIn ==
    ASSUME NEW S \in SUBSET Nat, S # {}
    PROVE  Min(S) \in S
  BY LeastElement DEF Min

\* A bounded set of natural numbers that is not empty has a greatest element.
LEMMA GreatestElement ==
    ASSUME NEW n \in Nat, NEW S \in SUBSET (1..n), S # {}
    PROVE  \E x \in S : \A y \in S : y <= x
  <1> DEFINE T == {n - x : x \in S}
  <1>1. \A x \in S : n - x \in Nat
    OBVIOUS
  <1>a. T \in SUBSET Nat /\ T # {}
    BY <1>1
  <1> HIDE DEF T
  <1>2. PICK z \in T : \A y \in T : z <= y
    BY <1>a, LeastElement
  <1>3. PICK x \in S : z = n - x
    BY <1>2 DEF T
  <1>4. ASSUME NEW y \in S
        PROVE  y <= x
    <2>1. z <= n - y
      BY <1>2 DEF T
    <2>2. QED
      BY <1>3, <2>1
  <1>5. QED
    BY <1>4

\* The recursive function of BuildChunkMap is what its definition says.
Building(call) ==
    LET build[i \in 0..Len(call.allocs)] ==
          IF i = 0 THEN Current ELSE MapAlloc(build[i - 1], call.allocs[i])
    IN build

LEMMA BuildingIsDefined ==
    ASSUME NEW call, Len(call.allocs) \in Nat
    PROVE  /\ BuildChunkMap(call) = Building(call)[Len(call.allocs)]
           /\ Building(call)[0] = Current
           /\ \A i \in 1..Len(call.allocs) :
                Building(call)[i] = MapAlloc(Building(call)[i - 1], call.allocs[i])
  <1> DEFINE s == call.allocs
             Is(f, k) == f = [i \in 0..k |-> IF i = 0 THEN Current ELSE MapAlloc(f[i - 1], s[i])]
             Bad == {k \in 0..Len(s) : ~ \E f : Is(f, k)}
  <1>1. Bad = {}
    <2> SUFFICES ASSUME Bad # {} PROVE FALSE
      OBVIOUS
    <2>1. PICK k \in Bad : \A y \in Bad : k <= y
      <3>1. Bad \in SUBSET Nat
        OBVIOUS
      <3> HIDE DEF Bad
      <3>2. QED
        BY <3>1, LeastElement
    <2>2. CASE k = 0
      <3> DEFINE g == [i \in 0..0 |-> Current]
      <3>1. Is(g, 0)
        OBVIOUS
      <3>2. QED
        BY <3>1, <2>2
    <2>3. CASE k # 0
      <3>a. k \in 0..Len(s)
        OBVIOUS
      <3>1. k - 1 \in 0..Len(s) /\ k \in Nat
        BY <2>3, <3>a
      <3>b. k - 1 \notin Bad
        <4> HIDE DEF Bad
        <4>1. QED
          BY <2>1, <3>1
      <3>2. PICK f : Is(f, k - 1)
        BY <3>1, <3>b
      <3> DEFINE g == [i \in 0..k |-> IF i < k THEN f[i] ELSE MapAlloc(f[k - 1], s[k])]
      <3>3. ASSUME NEW i \in 0..k
            PROVE  g[i] = IF i = 0 THEN Current ELSE MapAlloc(g[i - 1], s[i])
        <4>1. CASE i = k
          BY <4>1, <3>1, <2>3
        <4>2. CASE i # k
          <5>1. i \in 0..(k - 1)
            BY <4>2, <3>1
          <5>2. f[i] = IF i = 0 THEN Current ELSE MapAlloc(f[i - 1], s[i])
            BY <5>1, <3>2
          <5>3. QED
            BY <5>1, <5>2, <3>1
        <4>3. QED
          BY <4>1, <4>2
      <3>4. Is(g, k)
        BY <3>3
      <3>5. QED
        BY <3>4
    <2>4. QED
      BY <2>2, <2>3
  <1>2. \E f : Is(f, Len(s))
    BY <1>1
  <1>3. Building(call) = CHOOSE f : Is(f, Len(s))
    BY DEF Building
  <1>4. PICK g : g = Building(call) /\ Is(g, Len(s))
    BY <1>2, <1>3
  <1>5. BuildChunkMap(call) = g[Len(s)]
    BY <1>4 DEF Building, BuildChunkMap
  <1>6. g[0] = Current
    BY <1>4
  <1>7. \A i \in 1..Len(s) : g[i] = MapAlloc(g[i - 1], s[i])
    BY <1>4
  <1>8. QED
    BY <1>4, <1>5, <1>6, <1>7
-----------------------------------------------------------------------------
(* The memory that BuildChunkMap and EnsureChunk set up *)

\* The chunks cs and the cache ca are the current ones, but for new chunks in memory that
\* no chunk has -- nor the device, unless it was in the cache --, and what those took from
\* the cache.
Grown(cs, ca) ==
    /\ DOMAIN chunks \subseteq DOMAIN cs
    /\ DOMAIN cs \subseteq ChunkIds
    /\ cs \in [DOMAIN cs -> Chunk]
    /\ \A c \in DOMAIN chunks : cs[c] = chunks[c]
    /\ \A c \in DOMAIN cs \ DOMAIN chunks :
          /\ cs[c].hal \in InUse => cs[c].tmp /\ cs[c].hal \in cache
          /\ cs[c].pending = {} /\ cs[c].ep = 0 /\ cs[c].want = None
    /\ \A c, d \in DOMAIN cs : cs[c].hal = cs[d].hal => c = d
    /\ ca \subseteq cache
    /\ \A c \in DOMAIN cs : cs[c].hal \notin ca

\* Buffers that had no chunk may have a new one each.
Ensured(cs, bs) ==
    /\ bs \in [Bufs -> ChunkIds \cup {NoChunk}]
    /\ \A b \in Bufs : Bound(b) => bs[b] = bufs[b]
    /\ \A b \in Bufs : bs[b] # NoChunk =>
          /\ bs[b] \in DOMAIN cs
          /\ ~cs[bs[b]].tmp
          /\ Bound(b) \/ bs[b] \notin DOMAIN chunks
    /\ \A b, d \in Bufs : bs[b] = bs[d] /\ bs[b] # NoChunk => b = d \/ (Bound(b) /\ Bound(d))

Room(cs, ca, n) ==
    /\ Cardinality(ChunkIds \ DOMAIN cs) >= n
    /\ Cardinality(Hals \ Owned(cs, ca)) >= n

LEMMA Bounds ==
    /\ MaxChunks \in Nat /\ MaxEvents \in Nat /\ MaxRuns \in Nat
    /\ Hals \subseteq Nat /\ ChunkIds \subseteq Nat /\ NoChunk \notin ChunkIds
  BY RuntimeAssumption DEF Hals, ChunkIds, NoChunk

LEMMA FreshIsFree ==
    ASSUME NEW cs, NEW ca, Room(cs, ca, 1)
    PROVE  FreshChunk(cs) \in ChunkIds \ DOMAIN cs /\ FreshHal(cs, ca) \in Hals \ Owned(cs, ca)
  <1>1. ChunkIds \ DOMAIN cs # {} /\ Hals \ Owned(cs, ca) # {}
    BY FS_EmptySet DEF Room
  <1>2. ChunkIds \ DOMAIN cs \in SUBSET Nat /\ Hals \ Owned(cs, ca) \in SUBSET Nat
    BY Bounds
  <1>3. QED
    BY <1>1, <1>2, MinIsIn DEF FreshChunk, FreshHal

\* A new chunk takes the room of one, and no more.
LEMMA RoomIsLeft ==
    ASSUME NEW cs, NEW ca, NEW n \in Nat, Room(cs, ca, n + 1),
           NEW c \in ChunkIds \ DOMAIN cs, NEW hal \in Hals, NEW tmp, NEW ca2,
           ca2 \subseteq ca \cup {hal}
    PROVE  Room(Put(cs, c, NewChunk(hal, tmp)), ca2, n)
  <1> DEFINE cs2 == Put(cs, c, NewChunk(hal, tmp))
             A == ChunkIds \ DOMAIN cs
             B == Hals \ Owned(cs, ca)
             B2 == Hals \ Owned(cs2, ca2)
  <1>1. IsFiniteSet(ChunkIds) /\ IsFiniteSet(Hals)
    BY FS_Interval, RuntimeAssumption DEF ChunkIds, Hals
  <1>2. IsFiniteSet(A) /\ IsFiniteSet(B) /\ IsFiniteSet(B2) /\ IsFiniteSet(B \ {hal})
    BY <1>1, FS_Subset
  <1>a. Cardinality(A) \in Nat /\ Cardinality(A) >= n + 1 /\ Cardinality(B) \in Nat /\ Cardinality(B) >= n + 1
    BY <1>2, FS_CardinalityType DEF Room
  <1>3. Cardinality(A \ {c}) >= n
    <2>1. Cardinality(A \ {c}) = Cardinality(A) - 1
      BY <1>2, FS_RemoveElement
    <2>2. QED
      BY <1>a, <2>1
  <1>4. ChunkIds \ DOMAIN cs2 = A \ {c}
    BY DEF Put
  <1>5. Cardinality(B \ {hal}) >= n
    <2>1. CASE hal \in B
      <3>1. Cardinality(B \ {hal}) = Cardinality(B) - 1
        BY <1>2, <2>1, FS_RemoveElement
      <3>2. QED
        BY <1>a, <3>1
    <2>2. CASE hal \notin B
      <3>1. B \ {hal} = B
        BY <2>2
      <3>2. QED
        BY <1>a, <3>1
    <2>3. QED
      BY <2>1, <2>2
  <1>6. \A d \in DOMAIN cs2 : cs2[d].hal = hal \/ (d \in DOMAIN cs /\ cs2[d].hal = cs[d].hal)
    BY DEF Put, NewChunk
  <1>7. B \ {hal} \subseteq B2
    <2> HIDE DEF cs2
    <2>1. QED
      BY <1>6 DEF Owned
  <1>8. Cardinality(B2) >= n
    BY <1>2, <1>5, <1>7, FS_Subset, FS_CardinalityType
  <1>9. QED
    BY <1>3, <1>4, <1>8 DEF Room

LEMMA NewIsTyped ==
    ASSUME NEW hal \in Hals, NEW tmp \in BOOLEAN
    PROVE  /\ NewChunk(hal, tmp) \in Chunk
           /\ NewChunk(hal, tmp).hal = hal /\ NewChunk(hal, tmp).tmp = tmp
           /\ NewChunk(hal, tmp).pending = {} /\ NewChunk(hal, tmp).ep = 0
           /\ NewChunk(hal, tmp).want = None
  BY Bounds DEF NewChunk, Chunk, Values, Torn, None

\* new is a chunk in memory that no chunk has; if it was in the cache ca, it is not in ca2.
CanAdd(cs, ca, c, new, ca2) ==
    /\ Grown(cs, ca)
    /\ c \in ChunkIds \ DOMAIN cs
    /\ new \in Chunk /\ new.pending = {} /\ new.ep = 0 /\ new.want = None
    /\ new.hal \in InUse => new.tmp /\ new.hal \in cache
    /\ \A d \in DOMAIN cs : cs[d].hal # new.hal
    /\ ca2 \subseteq ca \ {new.hal}

LEMMA ChunkAdded ==
    ASSUME NEW cs, NEW ca, NEW c, NEW new, NEW ca2, CanAdd(cs, ca, c, new, ca2)
    PROVE  Grown(Put(cs, c, new), ca2)
  <1> DEFINE cs2 == Put(cs, c, new)
  <1>1. DOMAIN cs2 = DOMAIN cs \cup {c} /\ cs2[c] = new /\ \A d \in DOMAIN cs : cs2[d] = cs[d]
    BY DEF Put, CanAdd
  <1>2. cs2 = [d \in DOMAIN cs2 |-> cs2[d]]
    BY DEF Put
  <1> HIDE DEF cs2
  <1>3. c \in ChunkIds \ DOMAIN chunks
    BY DEF CanAdd, Grown
  <1>4. cs2 \in [DOMAIN cs2 -> Chunk]
    <2>1. \A d \in DOMAIN cs2 : cs2[d] \in Chunk
      BY <1>1 DEF CanAdd, Grown
    <2>2. QED
      BY <1>2, <2>1
  <1>5. \A d, e \in DOMAIN cs2 : cs2[d].hal = cs2[e].hal => d = e
    BY <1>1 DEF CanAdd, Grown
  <1>6. \A d \in DOMAIN cs2 : cs2[d].hal \notin ca2
    BY <1>1 DEF CanAdd, Grown
  <1>7. Grown(cs2, ca2)
    BY <1>1, <1>3, <1>4, <1>5, <1>6 DEF CanAdd, Grown
  <1>8. QED
    BY <1>7 DEF cs2

\* What BuildChunkMap and EnsureChunk work on, with room for n more chunks.
Memory(s, n) ==
    /\ DOMAIN s = {"chunks", "cache", "bufs", "alloc"}
    /\ Grown(s.chunks, s.cache)
    /\ Ensured(s.chunks, s.bufs)
    /\ Room(s.chunks, s.cache, n)

\* t has all that s has.
Extends(t, s) ==
    /\ DOMAIN s.chunks \subseteq DOMAIN t.chunks
    /\ \A c \in DOMAIN s.chunks : t.chunks[c] = s.chunks[c]
    /\ t.cache \subseteq s.cache
    /\ \A b \in Bufs : s.bufs[b] # NoChunk => t.bufs[b] = s.bufs[b]
    /\ \A b \in Bufs : t.bufs[b] = s.bufs[b] \/ t.bufs[b] \notin DOMAIN s.chunks

LEMMA LessRoom ==
    ASSUME NEW cs, NEW ca, NEW n \in Nat, Room(cs, ca, n + 1)
    PROVE  Room(cs, ca, n) /\ Room(cs, ca, 1)
  <1>1. IsFiniteSet(ChunkIds) /\ IsFiniteSet(Hals)
    BY FS_Interval, RuntimeAssumption DEF ChunkIds, Hals
  <1>2. Cardinality(ChunkIds \ DOMAIN cs) \in Nat /\ Cardinality(Hals \ Owned(cs, ca)) \in Nat
    BY <1>1, FS_Subset, FS_CardinalityType
  <1>3. QED
    BY <1>2 DEF Room

\* EnsureChunk gives the buffer a chunk.
LEMMA EnsureKeeps ==
    ASSUME NEW s, NEW n \in Nat, Memory(s, n + 1), NEW b \in Bufs
    PROVE  LET t == EnsureChunk(s, b)
           IN Memory(t, n) /\ Extends(t, s) /\ t.alloc = s.alloc /\ t.bufs[b] \in DOMAIN t.chunks
  <1>1. Room(s.chunks, s.cache, n) /\ Room(s.chunks, s.cache, 1)
    BY LessRoom DEF Memory
  <1>2. CASE s.bufs[b] # NoChunk
    BY <1>1, <1>2 DEF EnsureChunk, Memory, Extends, Ensured
  <1>3. CASE s.bufs[b] = NoChunk
    <2> DEFINE t == EnsureChunk(s, b)
               c == FreshChunk(s.chunks)
               hal == FreshHal(s.chunks, s.cache)
               new == NewChunk(hal, FALSE)
               cs == Put(s.chunks, c, new)
    <2>1. /\ DOMAIN t = DOMAIN s
          /\ t.chunks = cs /\ t.cache = s.cache /\ t.alloc = s.alloc
          /\ t.bufs = [s.bufs EXCEPT ![b] = c]
      BY <1>3 DEF EnsureChunk, Memory
    <2>2. c \in ChunkIds \ DOMAIN s.chunks /\ hal \in Hals \ Owned(s.chunks, s.cache)
      BY <1>1, FreshIsFree
    <2>3. /\ hal \in Hals \ InUse
          /\ \A d \in DOMAIN s.chunks : s.chunks[d].hal # hal
          /\ s.cache \subseteq s.cache \ {hal}
      BY <2>2 DEF Owned, InUse
    <2> HIDE DEF c, hal
    <2>4. /\ Grown(cs, s.cache)
          /\ DOMAIN cs = DOMAIN s.chunks \cup {c}
          /\ \A d \in DOMAIN s.chunks : cs[d] = s.chunks[d]
          /\ cs[c].tmp = FALSE
      <3>1. /\ new \in Chunk /\ new.hal = hal /\ new.tmp = FALSE
            /\ new.pending = {} /\ new.ep = 0 /\ new.want = None
        BY <2>2, Bounds DEF NewChunk, Chunk, Values, Torn, None
      <3> HIDE DEF new
      <3>2. CanAdd(s.chunks, s.cache, c, new, s.cache)
        <4>1. Grown(s.chunks, s.cache)
          BY DEF Memory
        <4>2. QED
          BY <2>2, <2>3, <3>1, <4>1 DEF CanAdd
      <3>3. Grown(cs, s.cache)
        BY <3>2, ChunkAdded
      <3>4. /\ DOMAIN cs = DOMAIN s.chunks \cup {c} /\ cs[c] = new
            /\ \A d \in DOMAIN s.chunks : cs[d] = s.chunks[d]
        BY <2>2 DEF Put
      <3>5. QED
        BY <3>1, <3>3, <3>4
    <2>5. Room(cs, s.cache, n)
      BY <2>2, RoomIsLeft DEF Memory
    <2> HIDE DEF cs
    <2>6. Ensured(s.chunks, s.bufs) /\ c # NoChunk /\ c \notin DOMAIN chunks
      BY <2>2 DEF Memory, Grown, ChunkIds, NoChunk
    <2> DEFINE bs == t.bufs
    <2>7. bs \in [Bufs -> ChunkIds \cup {NoChunk}] /\ \A d \in Bufs : bs[d] = IF d = b THEN c ELSE s.bufs[d]
      BY <2>1, <2>2, <2>6 DEF Ensured
    <2> HIDE DEF bs
    <2>8. Ensured(cs, bs)
      <3>1. \A d \in Bufs : Bound(d) => bs[d] = bufs[d]
        BY <1>3, <2>6, <2>7 DEF Ensured, Bound
      <3>2. ASSUME NEW d \in Bufs, bs[d] # NoChunk
            PROVE  bs[d] \in DOMAIN cs /\ ~cs[bs[d]].tmp /\ (Bound(d) \/ bs[d] \notin DOMAIN chunks)
        BY <3>2, <2>4, <2>6, <2>7 DEF Ensured
      <3>3. ASSUME NEW d \in Bufs, NEW e \in Bufs, bs[d] = bs[e], bs[d] # NoChunk
            PROVE  d = e \/ (Bound(d) /\ Bound(e))
        BY <3>3, <2>2, <2>6, <2>7 DEF Ensured
      <3>4. QED
        BY <2>7, <3>1, <3>2, <3>3 DEF Ensured
    <2>9. Extends(t, s)
      BY <1>3, <2>1, <2>2, <2>4, <2>7 DEF Extends, bs
    <2>10. bs[b] \in DOMAIN cs
      BY <2>4, <2>7
    <2>11. Memory(t, n)
      BY <2>1, <2>4, <2>5, <2>8 DEF Memory, bs
    <2>12. QED
      BY <2>1, <2>9, <2>10, <2>11 DEF bs
  <1>4. QED
    BY <1>2, <1>3

\* The chunk c of t is the new chunk of an alloc without an input.
HasMade(t, s, c, out) ==
    /\ Extends(t, s)
    /\ t.bufs = s.bufs
    /\ t.alloc = Append(s.alloc, c)
    /\ c \in DOMAIN t.chunks
    /\ t.chunks[c].tmp = (out = NoBuf)

\* MakeChunk adds a chunk of its own to the map.
LEMMA MakeKeeps ==
    ASSUME NEW s, NEW n \in Nat, Memory(s, n + 1), cache \subseteq Hals, NEW out
    PROVE  LET t == MakeChunk(s, out = NoBuf)
           IN Memory(t, n) /\ \E c \in ChunkIds \ DOMAIN s.chunks : HasMade(t, s, c, out)
  <1>0. PICK tmp \in BOOLEAN : tmp = (out = NoBuf)
    OBVIOUS
  <1> DEFINE t == MakeChunk(s, out = NoBuf)
             c == FreshChunk(s.chunks)
             hal == IF tmp /\ s.cache # {} THEN Min(s.cache) ELSE FreshHal(s.chunks, s.cache)
             new == NewChunk(hal, tmp)
             cs == Put(s.chunks, c, new)
             ca == s.cache \ {hal}
  <1>1. /\ DOMAIN t = DOMAIN s
        /\ t.chunks = cs /\ t.cache = ca /\ t.bufs = s.bufs
        /\ t.alloc = Append(s.alloc, c)
    BY <1>0 DEF MakeChunk, Memory
  <1>2. Room(s.chunks, s.cache, 1)
    BY LessRoom DEF Memory
  <1>3. c \in ChunkIds \ DOMAIN s.chunks /\ FreshHal(s.chunks, s.cache) \in Hals \ Owned(s.chunks, s.cache)
    BY <1>2, FreshIsFree
  <1>4. /\ hal \in Hals /\ (hal \in InUse => tmp /\ hal \in cache)
        /\ \A d \in DOMAIN s.chunks : s.chunks[d].hal # hal
    <2>1. CASE tmp /\ s.cache # {}
      <3>1. s.cache \in SUBSET Nat /\ s.cache \subseteq cache
        BY Bounds DEF Memory, Grown
      <3>2. hal \in s.cache
        BY <2>1, <3>1, MinIsIn
      <3>3. QED
        BY <2>1, <3>1, <3>2 DEF Memory, Grown
    <2>2. CASE ~(tmp /\ s.cache # {})
      <3>1. hal \in Hals \ Owned(s.chunks, s.cache)
        BY <2>2, <1>3
      <3>2. QED
        BY <3>1 DEF Owned, InUse
    <2>3. QED
      BY <2>1, <2>2
  <1> HIDE DEF c, hal
  <1>5. /\ Grown(cs, ca)
        /\ DOMAIN cs = DOMAIN s.chunks \cup {c}
        /\ \A d \in DOMAIN s.chunks : cs[d] = s.chunks[d]
        /\ cs[c].tmp = tmp
    <2>1. /\ new \in Chunk /\ new.hal = hal /\ new.tmp = tmp
          /\ new.pending = {} /\ new.ep = 0 /\ new.want = None
      BY <1>4, NewIsTyped
    <2> HIDE DEF new, hal
    <2>2. CanAdd(s.chunks, s.cache, c, new, ca)
      <3>1. Grown(s.chunks, s.cache)
        BY DEF Memory
      <3>2. c \in ChunkIds \ DOMAIN s.chunks
        BY <1>3
      <3>3. new.hal \in InUse => new.tmp /\ new.hal \in cache
        BY <1>4, <2>1
      <3>4. \A d \in DOMAIN s.chunks : s.chunks[d].hal # new.hal
        BY <1>4, <2>1
      <3>5. ca \subseteq s.cache \ {new.hal}
        BY <2>1
      <3>6. QED
        BY <2>1, <3>1, <3>2, <3>3, <3>4, <3>5 DEF CanAdd
    <2> HIDE DEF ca
    <2>3. Grown(cs, ca)
      BY <2>2, ChunkAdded
    <2>4. /\ DOMAIN cs = DOMAIN s.chunks \cup {c} /\ cs[c] = new
          /\ \A d \in DOMAIN s.chunks : cs[d] = s.chunks[d]
      BY <1>3 DEF Put
    <2>5. QED
      BY <2>1, <2>3, <2>4
  <1>6. Room(cs, ca, n)
    BY <1>3, <1>4, RoomIsLeft DEF Memory
  <1>7. Ensured(cs, s.bufs)
    <2>1. Ensured(s.chunks, s.bufs)
      BY DEF Memory
    <2> HIDE DEF cs
    <2>2. QED
      BY <2>1, <1>5 DEF Ensured
  <1>8. Memory(t, n) /\ Extends(t, s)
    <2> HIDE DEF cs, ca, t
    <2>1. Memory(t, n)
      BY <1>1, <1>5, <1>6, <1>7 DEF Memory
    <2>2. Extends(t, s)
      BY <1>1, <1>5 DEF Extends, ca
    <2>3. QED
      BY <2>1, <2>2
  <1>9. HasMade(t, s, c, out)
    <2> HIDE DEF cs, t
    <2>1. QED
      BY <1>0, <1>1, <1>3, <1>5, <1>8 DEF HasMade
  <1>10. QED
    BY <1>3, <1>8, <1>9

\* The chunk of every alloc that has been seen: that of its buffer, or a new one of its own.
Placed(s, allocs) ==
    /\ s.alloc \in Seq(ChunkIds)
    /\ \A j \in 1..Len(s.alloc) :
          /\ s.alloc[j] \in DOMAIN s.chunks
          /\ allocs[j].in # NoBuf => s.bufs[allocs[j].in] = s.alloc[j]
          /\ allocs[j].in = NoBuf =>
                /\ s.alloc[j] \notin DOMAIN chunks
                /\ s.chunks[s.alloc[j]].tmp = (allocs[j].out = NoBuf)
                /\ \A b \in Bufs : s.bufs[b] # s.alloc[j]
                /\ \A k \in 1..Len(s.alloc) : k # j => s.alloc[k] # s.alloc[j]

LEMMA MapAllocKeeps ==
    ASSUME NEW s, NEW n \in Nat, Memory(s, n + 1), cache \subseteq Hals,
           NEW allocs \in Seq(Alloc), Placed(s, allocs), Len(s.alloc) < Len(allocs)
    PROVE  LET t == MapAlloc(s, allocs[Len(s.alloc) + 1])
           IN Memory(t, n) /\ Placed(t, allocs) /\ Len(t.alloc) = Len(s.alloc) + 1
  <1> DEFINE l == Len(s.alloc)
             a == allocs[l + 1]
             t == MapAlloc(s, a)
  <1>1. l \in Nat /\ a \in Alloc /\ s.alloc \in Seq(ChunkIds)
    BY DEF Placed
  <1> HIDE DEF l
  <1>2. CASE a.in # NoBuf
    <2> DEFINE u == EnsureChunk(s, a.in)
    <2>1. a.in \in Bufs
      BY <1>1, <1>2 DEF Alloc
    <2>2. /\ Memory(u, n) /\ Extends(u, s)
          /\ u.alloc = s.alloc /\ u.bufs[a.in] \in DOMAIN u.chunks
      BY <2>1, EnsureKeeps
    <2> HIDE DEF u
    <2>3. /\ DOMAIN t = DOMAIN u /\ t.chunks = u.chunks /\ t.cache = u.cache /\ t.bufs = u.bufs
          /\ t.alloc = Append(s.alloc, u.bufs[a.in])
      BY <1>2, <2>2 DEF MapAlloc, u, Memory
    <2> DEFINE c == u.bufs[a.in]
    <2> HIDE DEF t, c
    <2>4. Memory(t, n)
      BY <2>2, <2>3 DEF Memory
    <2>5. c \in ChunkIds /\ c # NoChunk /\ c \in DOMAIN u.chunks
      BY <2>2, Bounds DEF Memory, Grown, c
    <2>6. /\ t.alloc \in Seq(ChunkIds) /\ Len(t.alloc) = l + 1 /\ t.alloc[l + 1] = c
          /\ \A j \in 1..l : t.alloc[j] = s.alloc[j]
      BY <1>1, <2>3, <2>5 DEF c, l
    <2>7. ASSUME NEW j \in 1..l
          PROVE  /\ t.alloc[j] \in DOMAIN t.chunks
                 /\ t.chunks[t.alloc[j]] = s.chunks[s.alloc[j]]
                 /\ allocs[j].in # NoBuf => t.bufs[allocs[j].in] = t.alloc[j]
                 /\ allocs[j].in = NoBuf =>
                       /\ \A b \in Bufs : t.bufs[b] # t.alloc[j]
                       /\ t.alloc[j] # c
      <3>1. /\ s.alloc[j] \in DOMAIN s.chunks /\ s.alloc[j] # NoChunk
            /\ allocs[j] \in Alloc
        <4>1. s.alloc[j] \in DOMAIN s.chunks /\ s.alloc[j] \in ChunkIds
          BY DEF Placed, l
        <4>2. allocs[j] \in Alloc
          <5>1. j \in 1..Len(allocs)
            BY <1>1 DEF l
          <5>2. QED
            BY <5>1
        <4>3. QED
          BY <4>1, <4>2, Bounds
      <3>2. allocs[j].in # NoBuf => s.bufs[allocs[j].in] = s.alloc[j]
        BY DEF Placed, l
      <3>3. allocs[j].in = NoBuf => \A b \in Bufs : s.bufs[b] # s.alloc[j]
        BY DEF Placed, l
      <3>4. allocs[j].in # NoBuf => allocs[j].in \in Bufs
        BY <3>1 DEF Alloc
      <3>5. t.alloc[j] = s.alloc[j]
        BY <2>6
      <3>6. t.alloc[j] \in DOMAIN t.chunks /\ t.chunks[t.alloc[j]] = s.chunks[s.alloc[j]]
        BY <2>2, <2>3, <3>1, <3>5 DEF Extends
      <3>7. allocs[j].in # NoBuf => t.bufs[allocs[j].in] = t.alloc[j]
        BY <2>2, <2>3, <3>1, <3>2, <3>4, <3>5 DEF Extends
      <3>8. allocs[j].in = NoBuf => \A b \in Bufs : t.bufs[b] # t.alloc[j]
        BY <2>2, <2>3, <3>1, <3>3, <3>5 DEF Extends
      <3>9. QED
        BY <2>1, <2>3, <3>6, <3>7, <3>8 DEF c
    <2>8. Placed(t, allocs)
      <3>1. ASSUME NEW j \in 1..(l + 1)
            PROVE  /\ t.alloc[j] \in DOMAIN t.chunks
                   /\ allocs[j].in # NoBuf => t.bufs[allocs[j].in] = t.alloc[j]
                   /\ allocs[j].in = NoBuf =>
                        /\ t.alloc[j] \notin DOMAIN chunks
                        /\ t.chunks[t.alloc[j]].tmp = (allocs[j].out = NoBuf)
                        /\ \A b \in Bufs : t.bufs[b] # t.alloc[j]
                        /\ \A k \in 1..(l + 1) : k # j => t.alloc[k] # t.alloc[j]
        <4>1. CASE j = l + 1
          BY <4>1, <1>2, <2>3, <2>5, <2>6 DEF a, c
        <4>2. CASE j # l + 1
          <5>1. j \in 1..l
            BY <4>2, <1>1
          <5>2. allocs[j].in = NoBuf =>
                  /\ t.alloc[j] \notin DOMAIN chunks
                  /\ t.chunks[t.alloc[j]].tmp = (allocs[j].out = NoBuf)
            <6>1. allocs[j].in = NoBuf =>
                    /\ s.alloc[j] \notin DOMAIN chunks
                    /\ s.chunks[s.alloc[j]].tmp = (allocs[j].out = NoBuf)
              BY <5>1 DEF Placed, l
            <6>2. t.alloc[j] = s.alloc[j] /\ t.chunks[t.alloc[j]] = s.chunks[s.alloc[j]]
              BY <5>1, <2>6, <2>7
            <6>3. QED
              BY <6>1, <6>2
          <5>3. allocs[j].in = NoBuf => \A k \in 1..(l + 1) : k # j => t.alloc[k] # t.alloc[j]
            <6>0. SUFFICES ASSUME allocs[j].in = NoBuf, NEW k \in 1..(l + 1), k # j
                           PROVE  t.alloc[k] # t.alloc[j]
              OBVIOUS
            <6>1. CASE k = l + 1
              BY <6>0, <6>1, <5>1, <2>6, <2>7
            <6>2. CASE k # l + 1
              <7>1. k \in 1..l
                BY <6>2, <1>1
              <7>2. s.alloc[k] # s.alloc[j]
                BY <5>1, <6>0, <7>1 DEF Placed, l
              <7>3. QED
                BY <5>1, <7>1, <7>2, <2>6
            <6>3. QED
              BY <6>1, <6>2
          <5>4. QED
            BY <5>1, <5>2, <5>3, <2>7
        <4>3. QED
          BY <4>1, <4>2
      <3>2. QED
        BY <2>6, <3>1 DEF Placed
    <2>9. QED
      BY <2>4, <2>6, <2>8 DEF t, l
  <1>3. CASE a.in = NoBuf
    <2>1. t = MakeChunk(s, a.out = NoBuf)
      BY <1>3 DEF MapAlloc
    <2> HIDE DEF t
    <2>7. Memory(t, n) /\ \E c \in ChunkIds \ DOMAIN s.chunks : HasMade(t, s, c, a.out)
      BY <2>1, MakeKeeps
    <2>8. PICK c \in ChunkIds \ DOMAIN s.chunks : HasMade(t, s, c, a.out)
      BY <2>7
    <2>2. /\ Extends(t, s) /\ t.bufs = s.bufs
          /\ t.alloc = Append(s.alloc, c)
          /\ c \in DOMAIN t.chunks /\ t.chunks[c].tmp = (a.out = NoBuf)
      BY <2>8 DEF HasMade
    <2>3. c \notin DOMAIN chunks /\ \A b \in Bufs : s.bufs[b] # c
      BY <2>7, Bounds DEF Memory, Grown, Ensured
    <2>4. /\ t.alloc \in Seq(ChunkIds) /\ Len(t.alloc) = l + 1 /\ t.alloc[l + 1] = c
          /\ \A j \in 1..l : t.alloc[j] = s.alloc[j]
      BY <1>1, <2>2 DEF l
    <2>5. ASSUME NEW j \in 1..l
          PROVE  /\ t.alloc[j] \in DOMAIN t.chunks
                 /\ t.chunks[t.alloc[j]] = s.chunks[s.alloc[j]]
                 /\ t.alloc[j] # c
      <3>1. s.alloc[j] \in DOMAIN s.chunks
        BY DEF Placed, l
      <3>2. QED
        BY <3>1, <2>2, <2>4 DEF Extends
    <2>6. Placed(t, allocs)
      <3>1. ASSUME NEW j \in 1..(l + 1)
            PROVE  /\ t.alloc[j] \in DOMAIN t.chunks
                   /\ allocs[j].in # NoBuf => t.bufs[allocs[j].in] = t.alloc[j]
                   /\ allocs[j].in = NoBuf =>
                        /\ t.alloc[j] \notin DOMAIN chunks
                        /\ t.chunks[t.alloc[j]].tmp = (allocs[j].out = NoBuf)
                        /\ \A b \in Bufs : t.bufs[b] # t.alloc[j]
                        /\ \A k \in 1..(l + 1) : k # j => t.alloc[k] # t.alloc[j]
        <4>1. CASE j = l + 1
          <5>1. \A k \in 1..(l + 1) : k # j => k \in 1..l
            BY <4>1, <1>1
          <5>2. QED
            BY <4>1, <5>1, <1>3, <2>2, <2>3, <2>4, <2>5 DEF a
        <4>2. CASE j # l + 1
          <5>1. j \in 1..l
            BY <4>2, <1>1
          <5>2. allocs[j].in = NoBuf =>
                  /\ t.alloc[j] \notin DOMAIN chunks
                  /\ t.chunks[t.alloc[j]].tmp = (allocs[j].out = NoBuf)
                  /\ \A b \in Bufs : t.bufs[b] # t.alloc[j]
            BY <5>1, <2>2, <2>4, <2>5 DEF Placed, l
          <5>3. allocs[j].in = NoBuf => \A k \in 1..(l + 1) : k # j => t.alloc[k] # t.alloc[j]
            <6>0. SUFFICES ASSUME allocs[j].in = NoBuf, NEW k \in 1..(l + 1), k # j
                           PROVE  t.alloc[k] # t.alloc[j]
              OBVIOUS
            <6>1. CASE k = l + 1
              BY <6>0, <6>1, <5>1, <2>4, <2>5
            <6>2. CASE k # l + 1
              <7>1. k \in 1..l
                BY <6>2, <1>1
              <7>2. s.alloc[k] # s.alloc[j]
                BY <5>1, <6>0, <7>1 DEF Placed, l
              <7>3. QED
                BY <5>1, <7>1, <7>2, <2>4
            <6>3. QED
              BY <6>1, <6>2
          <5>4. allocs[j].in # NoBuf => t.bufs[allocs[j].in] = t.alloc[j]
            BY <5>1, <2>2, <2>4 DEF Placed, l
          <5>5. QED
            BY <5>1, <5>2, <5>3, <5>4, <2>5
        <4>3. QED
          BY <4>1, <4>2
      <3>2. QED
        BY <2>4, <3>1 DEF Placed
    <2>9. QED
      BY <2>7, <2>4, <2>6 DEF t, l
  <1>4. QED
    BY <1>2, <1>3

LEMMA CurrentIsMemory ==
    ASSUME TypeInv, RefInv, OwnerInv, KeepInv
    PROVE  /\ Grown(chunks, cache) /\ Ensured(chunks, bufs)
           /\ \A n \in Nat : RoomFor(n) => Memory(Current, n)
  <1>1. Grown(chunks, cache)
    BY DEF Grown, TypeInv, OwnerInv, Mem
  <1>2. Ensured(chunks, bufs)
    <2>1. \A b \in Bufs : Bound(b) => bufs[b] \in DOMAIN chunks
      BY DEF RefInv, Referenced, Bound
    <2>2. QED
      BY <2>1 DEF Ensured, TypeInv, KeepInv, Bound
  <1>3. /\ DOMAIN Current = {"chunks", "cache", "bufs", "alloc"}
        /\ Current.chunks = chunks /\ Current.cache = cache /\ Current.bufs = bufs
    BY DEF Current
  <1>4. ASSUME NEW n \in Nat, RoomFor(n)
        PROVE  Memory(Current, n)
    BY <1>1, <1>2, <1>3, <1>4 DEF Memory, Room, RoomFor
  <1>5. QED
    BY <1>1, <1>2, <1>4

\* The map that a run gets: induction over the allocs.
LEMMA ChunkMapBuilt ==
    ASSUME TypeInv, RefInv, OwnerInv, KeepInv, NEW call \in Calls, RoomFor(Len(call.allocs))
    PROVE  LET s == BuildChunkMap(call)
           IN Memory(s, 0) /\ Placed(s, call.allocs) /\ Len(s.alloc) = Len(call.allocs)
  <1> DEFINE n == Len(call.allocs)
             B == Building(call)
             Good(i) == Memory(B[i], n - i) /\ Placed(B[i], call.allocs) /\ Len(B[i].alloc) = i
             Bad == {i \in 0..n : ~Good(i)}
  <1>1. call.allocs \in Seq(Alloc) /\ n \in Nat
    BY RuntimeAssumption
  <1>2. /\ BuildChunkMap(call) = B[n] /\ B[0] = Current
        /\ \A i \in 1..n : B[i] = MapAlloc(B[i - 1], call.allocs[i])
    BY <1>1, BuildingIsDefined
  <1>3. cache \subseteq Hals
    BY DEF TypeInv
  <1> HIDE DEF n, B
  <1>4. Good(0)
    <2>1. Memory(Current, n) /\ n - 0 = n
      BY <1>1, CurrentIsMemory DEF n
    <2>2. Placed(Current, call.allocs) /\ Len(Current.alloc) = 0
      BY DEF Placed, Current
    <2>3. QED
      BY <1>2, <2>1, <2>2
  <1>5. ASSUME NEW i \in 1..n, Good(i - 1)
        PROVE  Good(i)
    <2> DEFINE s == B[i - 1]
    <2>1. n - (i - 1) = (n - i) + 1 /\ n - i \in Nat /\ (i - 1) + 1 = i /\ i - 1 < n
      BY <1>1
    <2>2. Memory(s, (n - i) + 1) /\ Placed(s, call.allocs) /\ Len(s.alloc) = i - 1
      BY <1>5, <2>1
    <2> HIDE DEF s
    <2>3. /\ Memory(MapAlloc(s, call.allocs[Len(s.alloc) + 1]), n - i)
          /\ Placed(MapAlloc(s, call.allocs[Len(s.alloc) + 1]), call.allocs)
          /\ Len(MapAlloc(s, call.allocs[Len(s.alloc) + 1]).alloc) = Len(s.alloc) + 1
      BY <1>1, <1>3, <2>1, <2>2, MapAllocKeeps DEF n
    <2>4. MapAlloc(s, call.allocs[Len(s.alloc) + 1]) = B[i] /\ Len(s.alloc) + 1 = i
      BY <1>2, <2>1, <2>2 DEF s
    <2>5. QED
      BY <2>3, <2>4
  <1>6. Bad = {}
    <2> SUFFICES ASSUME Bad # {} PROVE FALSE
      OBVIOUS
    <2> HIDE DEF Good
    <2>1. Bad \in SUBSET Nat
      BY <1>1
    <2>2. PICK i \in Bad : \A j \in Bad : i <= j
      <3> HIDE DEF Bad
      <3>1. QED
        BY <2>1, LeastElement
    <2>3. i \in 0..n /\ ~Good(i)
      OBVIOUS
    <2>4. i # 0 /\ i \in 1..n /\ i - 1 \in 0..n
      BY <1>1, <1>4, <2>3
    <2>5. i - 1 \notin Bad
      <3> HIDE DEF Bad
      <3>1. QED
        BY <2>2, <2>4
    <2>6. QED
      BY <1>5, <2>3, <2>4, <2>5
  <1>7. Good(n) /\ n - n = 0
    BY <1>1, <1>6
  <1>8. QED
    BY <1>2, <1>7 DEF n

\* What EnsureChunk does for MapCurrent and MapDiscard.
LEMMA CurrentEnsured ==
    ASSUME TypeInv, RefInv, OwnerInv, KeepInv, NEW b \in Bufs, MayEnsure(b)
    PROVE  LET t == EnsureChunk(Current, b)
           IN /\ Grown(t.chunks, cache) /\ Ensured(t.chunks, t.bufs) /\ t.cache = cache
              /\ t.bufs[b] \in DOMAIN t.chunks
              /\ \A d \in Bufs : d # b => t.bufs[d] = bufs[d]
  <1> DEFINE t == EnsureChunk(Current, b)
  <1>1. CASE Bound(b)
    <2>1. t = Current /\ bufs[b] \in DOMAIN chunks
      BY <1>1 DEF EnsureChunk, Current, Bound, RefInv, Referenced
    <2> HIDE DEF t
    <2>2. t.chunks = chunks /\ t.bufs = bufs /\ t.cache = cache
      BY <2>1 DEF Current
    <2>3. QED
      BY <2>1, <2>2, CurrentIsMemory DEF t
  <1>2. CASE ~Bound(b)
    <2>1. RoomFor(0 + 1) /\ 0 + 1 \in Nat
      BY <1>2 DEF MayEnsure, Bound
    <2>2. Memory(Current, 0 + 1)
      BY <2>1, CurrentIsMemory
    <2>3. Memory(t, 0) /\ t.bufs[b] \in DOMAIN t.chunks
      BY <2>2, EnsureKeeps
    <2>4. t.cache = cache /\ \A d \in Bufs : d # b => t.bufs[d] = bufs[d]
      BY <1>2 DEF EnsureChunk, Current, TypeInv, Bound
    <2> HIDE DEF t
    <2>5. QED
      BY <2>3, <2>4 DEF Memory, t
  <1>3. QED
    BY <1>1, <1>2

-----------------------------------------------------------------------------
(* Who waits for an operation *)

\* It is covered still when other operations are added, or leave that wait for nothing.
LEMMA CoveredKept ==
    ASSUME NEW ev, NEW ev2, NEW T, NEW e \in Unfinished(ev2), Covered(ev, e, T),
           \A x \in Unfinished(ev) \cap Unfinished(ev2) : ev2[x].deps = ev[x].deps,
           \A y \in Unfinished(ev) \ Unfinished(ev2) : ev[y].deps \cap Unfinished(ev) = {}
    PROVE  Covered(ev2, e, T)
  <1>1. PICK E \in SUBSET Unfinished(ev) :
           e \in E /\ \A x \in E : x \in T \/ \E y \in E : x \in ev[y].deps
    BY DEF Covered
  <1> DEFINE E2 == E \cap Unfinished(ev2)
  <1>2. ASSUME NEW x \in E2, x \notin T
        PROVE  \E y \in E2 : x \in ev2[y].deps
    <2>1. PICK y \in E : x \in ev[y].deps
      BY <1>1, <1>2
    <2>2. y \in Unfinished(ev2)
      BY <2>1
    <2>3. QED
      BY <2>1, <2>2
  <1>3. E2 \in SUBSET Unfinished(ev2) /\ e \in E2
    BY <1>1
  <1> HIDE DEF E2
  <1>4. QED
    BY <1>2, <1>3 DEF Covered

\* Dependencies point back: the last operation of a chain is one of T.
LEMMA CoveredBySome ==
    ASSUME NEW ev, NEW n \in Nat, NEW e, NEW T, Covered(ev, e, T),
           Unfinished(ev) \subseteq 1..n,
           \A y \in Unfinished(ev) : ev[y].deps \subseteq 1..(y - 1)
    PROVE  T \cap Unfinished(ev) # {}
  <1>1. PICK E \in SUBSET Unfinished(ev) :
           e \in E /\ \A x \in E : x \in T \/ \E y \in E : x \in ev[y].deps
    BY DEF Covered
  <1>2. E \in SUBSET (1..n) /\ E # {}
    BY <1>1
  <1>3. PICK x \in E : \A y \in E : y <= x
    BY <1>2, GreatestElement
  <1>4. x \in T
    <2> SUFFICES ASSUME NEW y \in E, x \in ev[y].deps PROVE FALSE
      BY <1>1
    <2>1. x \in 1..(y - 1) /\ y \in 1..n /\ x \in 1..n /\ y <= x
      BY <1>2, <1>3
    <2>2. QED
      BY <2>1
  <1>5. QED
    BY <1>4

\* Nobody refers to a chunk that is gone.
NoneDangles ==
    /\ ReqChunks \subseteq DOMAIN chunks
    /\ \A s \in shims : s.chunks \subseteq DOMAIN chunks
    /\ \A v \in maps \cup views : v.chunk \in DOMAIN chunks
    /\ \A b \in Bufs : Bound(b) => bufs[b] \in DOMAIN chunks

LEMMA OwnersRefer ==
    TypeInv /\ RefInv => NoneDangles
  <1> SUFFICES ASSUME TypeInv, RefInv PROVE NoneDangles
    OBVIOUS
  <1>1. ReqChunks \subseteq ChunkIds
    <2>1. CASE Idle
      BY <2>1 DEF Idle, NoReq, ReqChunks
    <2>2. CASE ~Idle
      BY <2>2 DEF TypeInv, ReqTyped, Request, ReqChunks
    <2>3. QED
      BY <2>1, <2>2
  <1>2. ReqChunks \subseteq DOMAIN chunks
    BY <1>1, Bounds DEF RefInv, Referenced, ReqChunks
  <1>3. \A s \in shims : s.chunks \subseteq DOMAIN chunks
    <2>1. \A s \in shims : s.chunks \subseteq ChunkIds
      BY DEF TypeInv, Shim
    <2>2. QED
      BY <2>1, Bounds DEF RefInv, Referenced
  <1>4. \A v \in maps \cup views : v.chunk \in DOMAIN chunks
    <2>1. \A v \in maps \cup views : v.chunk \in ChunkIds
      BY DEF TypeInv, Map, View
    <2>2. QED
      BY <2>1, Bounds DEF RefInv, Referenced
  <1>5. \A b \in Bufs : Bound(b) => bufs[b] \in DOMAIN chunks
    BY DEF RefInv, Referenced, Bound
  <1>6. QED
    BY <1>2, <1>3, <1>4, <1>5 DEF NoneDangles

\* A kernel's memory is that of chunks.
LEMMA KernelMemory ==
    TypeInv /\ RefInv /\ HeldInv => KernelMemoryHeld
  <1> SUFFICES ASSUME TypeInv, RefInv, HeldInv PROVE KernelMemoryHeld
    OBVIOUS
  <1>1. ReqChunks \subseteq DOMAIN chunks /\ \A s \in shims : s.chunks \subseteq DOMAIN chunks
    BY OwnersRefer DEF NoneDangles
  <1>2. QED
    BY <1>1 DEF KernelMemoryHeld, HeldInv, Held, Mem

\* Dropping chunks moves their memory to the cache, or frees it ...
LEMMA DropKeepsOwners ==
    ASSUME OwnerInv, NEW cs, NEW refs, DropTo(cs, refs), DOMAIN cs = DOMAIN chunks,
           \A c \in DOMAIN chunks : cs[c].hal = chunks[c].hal
    PROVE  OwnerInv'
  <1>1. /\ DOMAIN chunks' = DOMAIN chunks \cap refs
        /\ \A c \in DOMAIN chunks' : chunks'[c] = cs[c]
    BY DEF DropTo
  <1>2. cache' = cache \cup {cs[c].hal : c \in {d \in DOMAIN cs \ refs : cs[d].tmp}}
    BY DEF DropTo
  <1>3. \A c, d \in DOMAIN chunks' : chunks'[c].hal = chunks'[d].hal => c = d
    BY <1>1 DEF OwnerInv
  <1>4. cache' \cap Mem(DOMAIN chunks)' = {}
    BY <1>1, <1>2 DEF OwnerInv, Mem
  <1>5. QED
    BY <1>3, <1>4 DEF OwnerInv

\* ... and no operation on the device uses what is in the cache.
LEMMA DropKeepsHalInv ==
    ASSUME HalInv, NEW cs, NEW refs, DropTo(cs, refs), DOMAIN cs = DOMAIN chunks,
           \A c \in DOMAIN chunks : cs[c].hal = chunks[c].hal /\ cs[c].tmp = chunks[c].tmp,
           TypeInv', RefInv', HeldInv', cache \cap InUse' = {},
           \A e \in Busy' : ~events'[e].kernel =>
              \A c \in DOMAIN chunks : chunks[c].hal \in Touches(e)' => ~chunks[c].tmp
    PROVE  HalInv'
  <1>1. /\ DOMAIN chunks' = DOMAIN chunks \cap refs
        /\ \A c \in DOMAIN chunks' : chunks'[c] = cs[c]
    BY DEF DropTo
  <1>2. cache' = cache \cup {cs[c].hal : c \in {d \in DOMAIN cs \ refs : cs[d].tmp}}
    BY DEF DropTo
  <1>3. OwnerInv'
    BY DropKeepsOwners DEF HalInv
  <1>5. ASSUME NEW c \in DOMAIN chunks \ refs, chunks[c].tmp
        PROVE  chunks[c].hal \notin InUse'
    <2> SUFFICES ASSUME NEW e \in Busy', chunks[c].hal \in Touches(e)' PROVE FALSE
      BY DEF InUse
    <2>1. events'[e].kernel
      BY <1>5
    <2>2. KernelMemoryHeld'
      BY KernelMemory, PTL
    <2>3. QED
      BY <1>1, <2>1, <2>2 DEF KernelMemoryHeld, HalInv, OwnerInv
  <1>6. cache' \cap InUse' = {}
    BY <1>2, <1>5
  <1>7. QED
    BY <1>3, <1>6 DEF HalInv

-----------------------------------------------------------------------------
(* The device *)

\* The chunks cs are those there were, in the same memory.
SameMemory(cs) ==
    /\ DOMAIN cs = DOMAIN chunks
    /\ \A c \in DOMAIN chunks :
          cs[c].hal = chunks[c].hal /\ cs[c].tmp = chunks[c].tmp /\ cs[c].ep = chunks[c].ep

\* In ev, operations that wait for nothing may have finished.
Progress(ev) ==
    /\ Unfinished(ev) \subseteq Unfinished(events)
    /\ \A x \in Unfinished(ev) :
          /\ ev[x].deps = events[x].deps /\ ev[x].kernel = events[x].kernel
          /\ ev[x].reads = events[x].reads /\ ev[x].writes = events[x].writes
    /\ \A y \in Unfinished(events) \ Unfinished(ev) : events[y].deps \cap Unfinished(events) = {}

LEMMA MemoryPart == RInv => MInv
  BY DEF RInv, MInv, HalInv, TmpInv

LEMMA BusyIsUnfinished == Busy = Unfinished(events)
  BY DEF Busy, Finished, Unfinished

LEMMA SameMemoryKeeps ==
    ASSUME MInv, UNCHANGED <<bufs, cache, req, shims, maps, views>>, SameMemory(chunks')
    PROVE  RefInv' /\ OwnerInv' /\ KeepInv'
  <1>1. /\ DOMAIN chunks' = DOMAIN chunks
        /\ \A c \in DOMAIN chunks : chunks'[c].hal = chunks[c].hal /\ chunks'[c].tmp = chunks[c].tmp
    BY DEF SameMemory
  <1>2. NoneDangles
    BY OwnersRefer DEF MInv
  <1>3. RefInv'
    BY <1>1 DEF MInv, RefInv, Referenced
  <1>4. OwnerInv'
    BY <1>1 DEF MInv, OwnerInv, Mem
  <1>5. KeepInv'
    <2>1. \A b \in Bufs : Bound(b)' => ~chunks'[bufs'[b]].tmp
      BY <1>1, <1>2 DEF MInv, KeepInv, Bound, NoneDangles
    <2>2. \A i \in DOMAIN req'.alloc : req'.call.allocs[i].out # NoBuf => ~chunks'[req'.alloc[i]].tmp
      BY <1>1, <1>2 DEF MInv, KeepInv, NoneDangles, ReqChunks
    <2>3. \A v \in maps' \cup views' : ~chunks'[v.chunk].tmp
      BY <1>1, <1>2 DEF MInv, KeepInv, NoneDangles
    <2>4. QED
      BY <2>1, <2>2, <2>3 DEF KeepInv
  <1>6. QED
    BY <1>3, <1>4, <1>5

LEMMA DeviceKeeps ==
    ASSUME RInv, MInv', UNCHANGED <<bufs, cache, req, shims, maps, views>>,
           SameMemory(chunks'), Progress(events')
    PROVE  RInv'
  <1>1. Busy = Unfinished(events) /\ Busy' = Unfinished(events')
    BY DEF Busy, Finished, Unfinished
  <1>2. /\ DOMAIN chunks' = DOMAIN chunks
        /\ \A c \in DOMAIN chunks : /\ chunks'[c].hal = chunks[c].hal
                                    /\ chunks'[c].tmp = chunks[c].tmp
                                    /\ chunks'[c].ep = chunks[c].ep
    BY DEF SameMemory
  <1>3. /\ Busy' \subseteq Busy
        /\ \A e \in Busy' : Touches(e)' = Touches(e) /\ events'[e].kernel = events[e].kernel
    BY <1>1 DEF Progress, Touches
  <1>4. InUse' \subseteq InUse
    BY <1>3 DEF InUse
  <1>6. PoisonInv'
    BY <1>2 DEF RInv, PoisonInv
  <1>7. HalInv'
    BY <1>4 DEF RInv, HalInv, MInv
  <1>8. ReqChunks \subseteq DOMAIN chunks /\ \A s \in shims : s.chunks \subseteq DOMAIN chunks
    BY OwnersRefer DEF RInv, NoneDangles
  <1>9. HeldInv'
    <2> SUFFICES ASSUME NEW e \in Busy', events'[e].kernel
                 PROVE  Held(e, ReqChunks, req.terminal)' \/ \E s \in shims' : Held(e, s.chunks, s.terminal)'
      BY DEF HeldInv
    <2>1. e \in Busy /\ events[e].kernel
      BY <1>3
    <2>2. ASSUME NEW T, Covered(events, e, T)
          PROVE  Covered(events', e, T)
      BY <1>1, <2>2, CoveredKept DEF Progress
    <2>3. ASSUME NEW cs, cs \subseteq DOMAIN chunks, NEW T, Held(e, cs, T)
          PROVE  Touches(e)' \subseteq {chunks'[c].hal : c \in cs} /\ Covered(events', e, T)
      BY <1>2, <1>3, <2>2, <2>3 DEF Held, Mem
    <2>4. CASE Held(e, ReqChunks, req.terminal)
      <3>1. Touches(e)' \subseteq {chunks'[c].hal : c \in ReqChunks} /\ Covered(events', e, req.terminal)
        BY <1>8, <2>3, <2>4
      <3>2. ReqChunks' = ReqChunks
        BY DEF ReqChunks
      <3>3. QED
        BY <3>1, <3>2 DEF Held, Mem
    <2>5. CASE \E s \in shims : Held(e, s.chunks, s.terminal)
      <3>1. PICK s \in shims : Held(e, s.chunks, s.terminal)
        BY <2>5
      <3>2. Touches(e)' \subseteq {chunks'[c].hal : c \in s.chunks} /\ Covered(events', e, s.terminal)
        BY <1>8, <2>3, <3>1
      <3>3. QED
        BY <3>2 DEF Held, Mem
    <2>6. QED
      BY <2>1, <2>4, <2>5 DEF RInv, HeldInv
  <1>10. TmpInv'
    BY <1>2, <1>3 DEF RInv, TmpInv, MInv
  <1>11. QED
    BY <1>6, <1>7, <1>9, <1>10 DEF RInv, MInv

LEMMA EventChanged ==
    ASSUME TypeInv, NEW e \in DOMAIN events, NEW new \in Event,
           events' = [events EXCEPT ![e] = new]
    PROVE  /\ events' \in Seq(Event) /\ Len(events') = Len(events)
           /\ events'[e] = new
           /\ \A x \in DOMAIN events : x # e => events'[x] = events[x]
  BY DEF TypeInv

LEMMA StartEventMemory ==
    ASSUME MInv, NEW e \in DOMAIN events, StartEvent(e)
    PROVE  MInv' /\ Progress(events')
  <1> DEFINE st == IF ReadsRight(e, {}) THEN "active" ELSE "misread"
             new == [events[e] EXCEPT !.st = st]
  <1>1. events[e] \in Event
    BY DEF MInv, TypeInv
  <1>2. /\ new \in Event /\ new.deps = events[e].deps /\ new.reads = events[e].reads
        /\ new.writes = events[e].writes /\ new.kernel = events[e].kernel
        /\ new.st \in {"active", "misread"}
    <2>1. st \in {"active", "misread"}
      OBVIOUS
    <2> HIDE DEF st
    <2>2. QED
      BY <1>1, <2>1 DEF Event
  <1>3. events' = [events EXCEPT ![e] = new]
    BY DEF StartEvent
  <1> HIDE DEF new
  <1>4. /\ events' \in Seq(Event) /\ Len(events') = Len(events)
        /\ events'[e] = new
        /\ \A x \in DOMAIN events : x # e => events'[x] = events[x]
    BY <1>2, <1>3, EventChanged DEF MInv
  <1>5. DOMAIN events' = DOMAIN events /\ DOMAIN events = 1..Len(events)
    BY <1>4 DEF MInv, TypeInv
  <1>6. events[e].st = "waiting" /\ events[e].deps \subseteq Finished
    BY DEF StartEvent
  <1>7. Finished' = Finished
    BY <1>2, <1>4, <1>5, <1>6 DEF Finished
  <1>8. Progress(events')
    BY <1>2, <1>4, <1>5, <1>6 DEF Progress, Unfinished
  <1>9. UNCHANGED <<bufs, chunks, cache, req, shims, maps, views, runs>>
    BY DEF StartEvent
  <1>10. mem' \in [Hals -> Values]
    BY Bounds DEF StartEvent, Overwrite, MInv, TypeInv, Values, Torn
  <1>11. TypeInv'
    BY <1>4, <1>9, <1>10 DEF MInv, TypeInv, ReqTyped, Idle
  <1>12. PastInv'
    <2>1. ASSUME NEW x \in DOMAIN events
          PROVE  /\ events'[x].deps \subseteq 1..(x - 1)
                 /\ events'[x].st \in Started => events'[x].deps \subseteq Finished
                 /\ x \in Finished => Touches(x)' = {}
      BY <1>2, <1>4, <1>6 DEF MInv, PastInv, Touches, Finished
    <2>2. QED
      BY <1>5, <1>7, <1>9, <2>1 DEF MInv, PastInv, ReqEvents
  <1>13. RefInv' /\ OwnerInv' /\ KeepInv'
    BY <1>9, SameMemoryKeeps DEF SameMemory
  <1>14. QED
    BY <1>8, <1>11, <1>12, <1>13 DEF MInv

LEMMA StartEventStep ==
    ASSUME RInv, NEW e \in DOMAIN events, StartEvent(e)
    PROVE  RInv'
  <1>1. MInv' /\ Progress(events')
    BY MemoryPart, StartEventMemory
  <1>2. UNCHANGED <<bufs, chunks, cache, req, shims, maps, views>>
    BY DEF StartEvent
  <1>3. QED
    BY <1>1, <1>2, DeviceKeeps DEF SameMemory

\* An operation gets to a final state.
LEMMA FinalKeeps ==
    ASSUME MInv, NEW e \in Busy, events[e].deps \subseteq Finished,
           NEW st \in {"done", "failed"}, events' = [events EXCEPT ![e] = Final(e, st)]
    PROVE  /\ events' \in Seq(Event) /\ Len(events') = Len(events)
           /\ events'[e].st = st
           /\ \A x \in DOMAIN events : x # e => events'[x] = events[x]
           /\ Progress(events')
           /\ Finished' = Finished \cup {e}
           /\ \A x \in DOMAIN events :
                 /\ events'[x].deps \subseteq 1..(x - 1)
                 /\ events'[x].st \in Started => events'[x].deps \subseteq Finished'
                 /\ x \in Finished' => Touches(x)' = {}
  <1> DEFINE new == Final(e, st)
  <1>1. e \in DOMAIN events /\ events[e] \in Event
    BY DEF MInv, TypeInv, Busy
  <1>2. /\ new \in Event /\ new.deps = {} /\ new.reads = {} /\ new.writes = {}
        /\ new.st = st
    BY <1>1 DEF Final, Event
  <1> HIDE DEF new
  <1>3. /\ events' \in Seq(Event) /\ Len(events') = Len(events)
        /\ events'[e] = new
        /\ \A x \in DOMAIN events : x # e => events'[x] = events[x]
    BY <1>1, <1>2, EventChanged DEF MInv, new
  <1>4. DOMAIN events' = DOMAIN events
    BY <1>3 DEF MInv, TypeInv
  <1>5. Finished' = Finished \cup {e}
    BY <1>1, <1>2, <1>3, <1>4 DEF Finished
  <1>6. Progress(events')
    <2>1. Unfinished(events') = Unfinished(events) \ {e}
      BY <1>1, <1>2, <1>3, <1>4 DEF Unfinished
    <2>2. \A x \in Unfinished(events') : x \in DOMAIN events /\ x # e
      BY <2>1 DEF Unfinished
    <2>3. events[e].deps \cap Unfinished(events) = {}
      BY DEF Finished, Unfinished
    <2>4. QED
      BY <1>3, <2>1, <2>2, <2>3 DEF Progress
  <1>7. ASSUME NEW x \in DOMAIN events
        PROVE  /\ events'[x].deps \subseteq 1..(x - 1)
               /\ events'[x].st \in Started => events'[x].deps \subseteq Finished'
               /\ x \in Finished' => Touches(x)' = {}
    <2>1. CASE x = e
      BY <2>1, <1>2, <1>3 DEF Touches
    <2>2. CASE x # e
      BY <2>2, <1>3, <1>5 DEF MInv, PastInv, Touches
    <2>3. QED
      BY <2>1, <2>2
  <1>8. QED
    BY <1>2, <1>3, <1>5, <1>6, <1>7

LEMMA FinishEventMemory ==
    ASSUME MInv, NEW e \in DOMAIN events, FinishEvent(e)
    PROVE  MInv' /\ Progress(events') /\ SameMemory(chunks')
  <1>1. e \in Busy /\ events[e].deps \subseteq Finished
    BY DEF FinishEvent, MInv, PastInv, Started, Busy, Finished
  <1>2. /\ events' \in Seq(Event) /\ Len(events') = Len(events)
        /\ Progress(events')
        /\ Finished' = Finished \cup {e}
        /\ \A x \in DOMAIN events :
              /\ events'[x].deps \subseteq 1..(x - 1)
              /\ events'[x].st \in Started => events'[x].deps \subseteq Finished'
              /\ x \in Finished' => Touches(x)' = {}
    <2>1. events' = [events EXCEPT ![e] = Final(e, "done")]
      BY DEF FinishEvent
    <2>2. QED
      BY <1>1, <2>1, FinalKeeps
  <1>3. DOMAIN events' = DOMAIN events
    BY <1>2 DEF MInv, TypeInv
  <1>4. /\ chunks' \in [DOMAIN chunks -> Chunk] /\ SameMemory(chunks')
        /\ \A c \in DOMAIN chunks : chunks'[c].pending \subseteq chunks[c].pending
    <2>1. chunks' = [c \in DOMAIN chunks |-> [chunks[c] EXCEPT !.pending = @ \ {e}]]
      BY DEF FinishEvent, Erase
    <2>2. \A c \in DOMAIN chunks : chunks[c] \in Chunk
      BY DEF MInv, TypeInv
    <2>3. QED
      BY <2>1, <2>2 DEF SameMemory, Chunk
  <1>5. UNCHANGED <<bufs, cache, req, shims, maps, views, runs>>
    BY DEF FinishEvent
  <1>6. mem' \in [Hals -> Values]
    <2>1. e \in Values
      BY <1>1, Bounds DEF MInv, TypeInv, Busy, Values, Torn
    <2>2. mem \in [Hals -> Values] /\ Torn \in Values
      BY Bounds DEF MInv, TypeInv, Values, Torn
    <2>3. QED
      BY <2>1, <2>2 DEF FinishEvent, Overwrite
  <1>7. TypeInv'
    BY <1>2, <1>4, <1>5, <1>6 DEF MInv, TypeInv, ReqTyped, Idle
  <1>8. PastInv'
    <2>1. DOMAIN chunks' = DOMAIN chunks /\ ReqEvents' = ReqEvents
      BY <1>4, <1>5 DEF ReqEvents
    <2>2. \A c \in DOMAIN chunks' : chunks'[c].pending \subseteq DOMAIN events'
      BY <1>3, <1>4, <2>1 DEF MInv, PastInv
    <2>3. QED
      BY <1>2, <1>3, <2>1, <2>2 DEF MInv, PastInv
  <1>9. RefInv' /\ OwnerInv' /\ KeepInv'
    BY <1>4, <1>5, SameMemoryKeeps
  <1>10. QED
    BY <1>2, <1>4, <1>7, <1>8, <1>9 DEF MInv

LEMMA FinishEventStep ==
    ASSUME RInv, NEW e \in DOMAIN events, FinishEvent(e)
    PROVE  RInv'
  <1>1. MInv' /\ Progress(events') /\ SameMemory(chunks')
    BY MemoryPart, FinishEventMemory
  <1>2. UNCHANGED <<bufs, cache, req, shims, maps, views>>
    BY DEF FinishEvent
  <1>3. QED
    BY <1>1, <1>2, DeviceKeeps

LEMMA FailEventMemory ==
    ASSUME MInv, NEW e \in DOMAIN events, FailEvent(e)
    PROVE  MInv' /\ Progress(events')
  <1>1. e \in Busy /\ events[e].deps \subseteq Finished
    BY DEF FailEvent, MInv, PastInv, Started, Busy, Finished
  <1>2. /\ events' \in Seq(Event) /\ Len(events') = Len(events)
        /\ Progress(events')
        /\ Finished' = Finished \cup {e}
        /\ \A x \in DOMAIN events :
              /\ events'[x].deps \subseteq 1..(x - 1)
              /\ events'[x].st \in Started => events'[x].deps \subseteq Finished'
              /\ x \in Finished' => Touches(x)' = {}
    <2>1. events' = [events EXCEPT ![e] = Final(e, "failed")]
      BY DEF FailEvent
    <2>2. QED
      BY <1>1, <2>1, FinalKeeps
  <1>3. DOMAIN events' = DOMAIN events
    BY <1>2 DEF MInv, TypeInv
  <1>4. UNCHANGED <<bufs, chunks, cache, mem, req, shims, maps, views, runs>>
    BY DEF FailEvent
  <1>5. TypeInv'
    BY <1>2, <1>4 DEF MInv, TypeInv, ReqTyped, Idle
  <1>6. PastInv'
    BY <1>2, <1>3, <1>4 DEF MInv, PastInv, ReqEvents
  <1>7. RefInv' /\ OwnerInv' /\ KeepInv'
    BY <1>4, SameMemoryKeeps DEF SameMemory
  <1>8. QED
    BY <1>2, <1>5, <1>6, <1>7 DEF MInv

LEMMA FailEventStep ==
    ASSUME RInv, NEW e \in DOMAIN events, FailEvent(e)
    PROVE  RInv'
  <1>1. MInv' /\ Progress(events')
    BY MemoryPart, FailEventMemory
  <1>2. UNCHANGED <<bufs, chunks, cache, req, shims, maps, views>>
    BY DEF FailEvent
  <1>3. QED
    BY <1>1, <1>2, DeviceKeeps DEF SameMemory

-----------------------------------------------------------------------------
(* The application: Run, and the mapping of buffers *)

\* While no request is being queued, it is shims that hold what is on the device.
LEMMA ShimsHold ==
    ASSUME RInv, Idle
    PROVE  \A e \in Busy : events[e].kernel => \E s \in shims : Held(e, s.chunks, s.terminal)
  <1> SUFFICES ASSUME NEW e \in Busy, Held(e, ReqChunks, req.terminal) PROVE FALSE
    BY DEF RInv, HeldInv
  <1>1. req.terminal = {}
    BY DEF Idle, NoReq
  <1>2. Covered(events, e, {})
    BY <1>1 DEF Held
  <1>3. Unfinished(events) \subseteq 1..Len(events) /\ Len(events) \in Nat
    BY DEF RInv, TypeInv, Unfinished
  <1>4. \A y \in Unfinished(events) : events[y].deps \subseteq 1..(y - 1)
    BY DEF RInv, PastInv, Unfinished
  <1>5. QED
    BY <1>2, <1>3, <1>4, CoveredBySome

LEMMA GrowMemory ==
    ASSUME MInv, Grown(chunks', cache')
    PROVE  OwnerInv' /\ \A c \in DOMAIN chunks' : chunks'[c].pending \subseteq DOMAIN events
  <1>1. \A c \in DOMAIN chunks : chunks'[c] = chunks[c]
    BY DEF Grown
  <1>2. \A c \in DOMAIN chunks' \ DOMAIN chunks : chunks'[c].pending = {}
    BY DEF Grown
  <1>3. OwnerInv'
    BY DEF Grown, OwnerInv, Mem
  <1>4. QED
    BY <1>1, <1>2, <1>3 DEF MInv, PastInv

\* As long as no memory of the cache is in use, new chunks are in memory that nobody has.
LEMMA GrownIsFree ==
    ASSUME HalInv, NEW cs, NEW ca, Grown(cs, ca)
    PROVE  \A c \in DOMAIN cs \ DOMAIN chunks : cs[c].hal \notin InUse
  BY DEF Grown, HalInv

LEMMA GrowKeeps ==
    ASSUME RInv, MInv', Idle, UNCHANGED <<events, shims>>, Grown(chunks', cache')
    PROVE  RInv'
  <1>1. Busy' = Busy /\ \A e \in Busy : Touches(e)' = Touches(e)
    BY DEF Busy, Finished, Touches
  <1>2. InUse' = InUse
    BY <1>1 DEF InUse
  <1>3. \A c \in DOMAIN chunks : c \in DOMAIN chunks' /\ chunks'[c] = chunks[c]
    BY DEF Grown
  <1>4. \A c \in DOMAIN chunks' \ DOMAIN chunks : chunks'[c].hal \notin InUse /\ chunks'[c].ep = 0
    BY GrownIsFree DEF Grown, RInv
  <1>5. PoisonInv'
    BY <1>3, <1>4 DEF RInv, PoisonInv
  <1>6. HalInv'
    BY <1>2 DEF Grown, RInv, HalInv, MInv
  <1>7. HeldInv'
    <2> SUFFICES ASSUME NEW e \in Busy, events[e].kernel
                 PROVE  \E s \in shims : Held(e, s.chunks, s.terminal)'
      BY <1>1 DEF HeldInv
    <2>1. PICK s \in shims : Held(e, s.chunks, s.terminal)
      BY ShimsHold
    <2>2. s.chunks \subseteq DOMAIN chunks
      BY OwnersRefer DEF RInv, NoneDangles
    <2>3. Touches(e)' \subseteq {chunks'[c].hal : c \in s.chunks}
      BY <1>1, <1>3, <2>1, <2>2 DEF Held, Mem
    <2>4. Covered(events', e, s.terminal)
      BY <2>1 DEF Held
    <2>5. QED
      BY <2>3, <2>4 DEF Held, Mem
  <1>8. TmpInv'
    <2> SUFFICES ASSUME NEW e \in Busy, ~events[e].kernel, NEW c \in DOMAIN chunks', chunks'[c].hal \in Touches(e)
                 PROVE  ~chunks'[c].tmp
      BY <1>1 DEF TmpInv, MInv
    <2>1. c \in DOMAIN chunks
      BY <1>4 DEF InUse
    <2>2. QED
      BY <1>3, <2>1 DEF RInv, TmpInv
  <1>9. QED
    BY <1>5, <1>6, <1>7, <1>8 DEF RInv, MInv

LEMMA StartRunMemory ==
    ASSUME MInv, NEW call \in Calls, StartRun(call)
    PROVE  MInv' /\ Grown(chunks', cache') /\ Ensured(chunks', bufs')
  <1> DEFINE s == BuildChunkMap(call)
  <1>1. Memory(s, 0) /\ Placed(s, call.allocs) /\ Len(s.alloc) = Len(call.allocs)
    BY ChunkMapBuilt DEF MInv, StartRun
  <1> HIDE DEF s
  <1>2. /\ chunks' = s.chunks /\ cache' = s.cache /\ bufs' = s.bufs
        /\ req' = [call |-> call, step |-> 1, alloc |-> s.alloc,
                   want |-> [i \in DOMAIN s.alloc |-> s.chunks[s.alloc[i]].want],
                   event |-> <<>>, terminal |-> {}]
        /\ runs' = runs + 1 /\ runs < MaxRuns
        /\ Len(events) + Len(call.steps) <= MaxEvents
        /\ UNCHANGED <<events, mem, shims, maps, views>>
        /\ Idle
    BY DEF StartRun, s
  <1>3. /\ req'.call = call /\ req'.step = 1 /\ req'.alloc = s.alloc
        /\ req'.want = [i \in DOMAIN s.alloc |-> s.chunks[s.alloc[i]].want]
        /\ req'.event = <<>> /\ req'.terminal = {}
    BY <1>2
  <1>4. Grown(chunks', cache') /\ Ensured(chunks', bufs')
    BY <1>1, <1>2 DEF Memory
  <1>5. call.allocs \in Seq(Alloc) /\ call.steps \in Seq(ProgramStep)
    BY RuntimeAssumption
  <1>6. TypeInv'
    <2>1. s.alloc \in Seq(ChunkIds) /\ DOMAIN s.alloc = 1..Len(s.alloc)
      BY <1>1 DEF Placed
    <2>2. req'.want \in Seq(Values) /\ Len(req'.want) = Len(call.allocs)
      <3>1. \A i \in 1..Len(s.alloc) : s.chunks[s.alloc[i]].want \in Values
        BY <1>1 DEF Placed, Memory, Grown, Chunk
      <3>2. QED
        BY <1>1, <1>3, <2>1, <3>1
    <2>3. ReqTyped'
      <3>1. req' \in Request
        BY <1>2, <1>3, <2>1, <2>2 DEF Request
      <3>2. /\ Len(req'.alloc) = Len(req'.call.allocs) /\ Len(req'.want) = Len(req'.call.allocs)
            /\ req'.step = Len(req'.event) + 1 /\ req'.step <= Len(req'.call.steps) + 1
            /\ Len(events') + Len(req'.call.steps) + 1 - req'.step <= MaxEvents
        BY <1>1, <1>2, <1>3, <1>5, <2>2 DEF MInv, TypeInv
      <3>3. QED
        BY <3>1, <3>2 DEF ReqTyped
    <2>4. bufs' \in [Bufs -> ChunkIds \cup {NoChunk}]
      BY <1>4 DEF Ensured
    <2>5. DOMAIN chunks' \subseteq ChunkIds /\ chunks' \in [DOMAIN chunks' -> Chunk] /\ cache' \subseteq Hals
      BY <1>4 DEF Grown, MInv, TypeInv
    <2>6. runs' \in 0..MaxRuns
      BY <1>2, Bounds DEF MInv, TypeInv
    <2>7. QED
      BY <1>2, <2>3, <2>4, <2>5, <2>6 DEF MInv, TypeInv
  <1>7. OwnerInv' /\ \A c \in DOMAIN chunks' : chunks'[c].pending \subseteq DOMAIN events
    BY <1>4, GrowMemory
  <1>8. PastInv'
    <2>1. ReqEvents' = {}
      BY <1>3 DEF ReqEvents
    <2>2. QED
      BY <1>2, <1>7, <2>1 DEF MInv, PastInv, Finished, Touches
  <1>9. \A i \in DOMAIN s.alloc :
           /\ s.alloc[i] \in DOMAIN chunks'
           /\ call.allocs[i].in # NoBuf => bufs'[call.allocs[i].in] = s.alloc[i]
           /\ call.allocs[i].in = NoBuf => chunks'[s.alloc[i]].tmp = (call.allocs[i].out = NoBuf)
    <2>1. DOMAIN s.alloc = 1..Len(s.alloc)
      BY <1>1 DEF Placed
    <2>2. QED
      BY <1>1, <1>2, <2>1 DEF Placed
  <1>10. /\ \A d \in shims : d.chunks \subseteq DOMAIN chunks'
         /\ \A v \in maps \cup views : v.chunk \in DOMAIN chunks /\ chunks'[v.chunk] = chunks[v.chunk]
         /\ DOMAIN chunks \subseteq DOMAIN chunks'
    BY <1>4, OwnersRefer DEF Grown, MInv, NoneDangles
  <1>11. \A b \in Bufs : bufs'[b] # NoChunk => bufs'[b] \in DOMAIN chunks' /\ ~chunks'[bufs'[b]].tmp
    BY <1>4 DEF Ensured
  <1>12. RefInv'
    BY <1>2, <1>3, <1>9, <1>10, <1>11 DEF RefInv, Referenced
  <1>13. KeepInv'
    <2>1. ASSUME NEW i \in DOMAIN s.alloc, call.allocs[i].out # NoBuf
          PROVE  ~chunks'[s.alloc[i]].tmp
      <3>1. CASE call.allocs[i].in = NoBuf
        BY <1>9, <2>1, <3>1
      <3>2. CASE call.allocs[i].in # NoBuf
        <4>1. call.allocs[i].in \in Bufs
          <5>1. i \in 1..Len(s.alloc)
            BY <1>1 DEF Placed
          <5>2. call.allocs[i] \in Alloc
            BY <1>1, <1>5, <5>1
          <5>3. QED
            BY <3>2, <5>2 DEF Alloc
        <4>2. s.alloc[i] # NoChunk
          BY <1>1, Bounds DEF Placed
        <4>3. QED
          BY <1>9, <1>11, <3>2, <4>1, <4>2
      <3>3. QED
        BY <3>1, <3>2
    <2>2. \A v \in maps' \cup views' : ~chunks'[v.chunk].tmp
      BY <1>2, <1>10 DEF MInv, KeepInv
    <2>3. \A b \in Bufs : Bound(b)' => ~chunks'[bufs'[b]].tmp
      BY <1>11 DEF Bound
    <2>4. \A i \in DOMAIN req'.alloc : req'.call.allocs[i].out # NoBuf => ~chunks'[req'.alloc[i]].tmp
      BY <1>3, <2>1
    <2>5. QED
      BY <2>2, <2>3, <2>4 DEF KeepInv
  <1>14. QED
    BY <1>4, <1>6, <1>7, <1>8, <1>12, <1>13 DEF MInv

LEMMA StartRunStep ==
    ASSUME RInv, NEW call \in Calls, StartRun(call)
    PROVE  RInv'
  <1>1. MInv' /\ Grown(chunks', cache')
    BY MemoryPart, StartRunMemory
  <1>2. Idle /\ UNCHANGED <<events, shims>>
    BY DEF StartRun
  <1>3. QED
    BY <1>1, <1>2, GrowKeeps

LEMMA HostTears ==
    ASSUME TypeInv, NEW h, mem' = [mem EXCEPT ![h] = Torn]
    PROVE  mem' \in [Hals -> Values]
  <1>1. Torn \in Values
    BY Bounds DEF Values, Torn
  <1>2. QED
    BY <1>1 DEF TypeInv

LEMMA MapCurrentMemory ==
    ASSUME MInv, NEW b \in Bufs, MapCurrent(b)
    PROVE  MInv' /\ Grown(chunks', cache') /\ Ensured(chunks', bufs')
  <1> DEFINE t == EnsureChunk(Current, b)
             c == t.bufs[b]
             m == [buf |-> b, chunk |-> c, deps |-> t.chunks[c].pending]
  <1>1. /\ Grown(t.chunks, cache) /\ Ensured(t.chunks, t.bufs)
        /\ c \in DOMAIN t.chunks /\ \A d \in Bufs : d # b => t.bufs[d] = bufs[d]
    BY CurrentEnsured DEF MInv, MapCurrent, MayMap
  <1> HIDE DEF t
  <1>2. /\ chunks' = t.chunks /\ bufs' = t.bufs /\ maps' = maps \cup {m}
        /\ UNCHANGED <<cache, events, mem, req, shims, views, runs>> /\ Idle
    BY DEF MapCurrent, t
  <1>3. c \in ChunkIds /\ c # NoChunk /\ t.chunks[c] \in Chunk /\ ~t.chunks[c].tmp
    BY <1>1, Bounds DEF Grown, Ensured
  <1> HIDE DEF c
  <1>4. m \in Map /\ m.chunk = c
    BY <1>3 DEF Map, Chunk
  <1> HIDE DEF m
  <1>5. Grown(chunks', cache') /\ Ensured(chunks', bufs')
    BY <1>1, <1>2
  <1>6. TypeInv'
    <2>1. ReqTyped'
      BY <1>2 DEF ReqTyped, Idle
    <2>2. QED
      BY <1>2, <1>4, <1>5, <2>1 DEF MInv, TypeInv, Grown, Ensured
  <1>7. OwnerInv' /\ \A d \in DOMAIN chunks' : chunks'[d].pending \subseteq DOMAIN events
    BY <1>5, GrowMemory
  <1>8. PastInv'
    BY <1>2, <1>7 DEF MInv, PastInv, Finished, Touches, ReqEvents
  <1>9. /\ \A d \in shims : d.chunks \subseteq DOMAIN chunks'
        /\ \A v \in maps \cup views : v.chunk \in DOMAIN chunks' /\ chunks'[v.chunk] = chunks[v.chunk]
        /\ \A d \in Bufs : bufs'[d] # NoChunk => bufs'[d] \in DOMAIN chunks' /\ ~chunks'[bufs'[d]].tmp
        /\ c \in DOMAIN chunks' /\ ~chunks'[c].tmp
    BY <1>1, <1>2, <1>3, <1>5, OwnersRefer DEF Grown, Ensured, MInv, c, NoneDangles
  <1>10. req.alloc = <<>> /\ DOMAIN req.alloc = {}
    BY <1>2 DEF Idle, NoReq
  <1>11. RefInv'
    BY <1>2, <1>4, <1>9, <1>10 DEF RefInv, Referenced
  <1>12. KeepInv'
    <2>1. \A v \in maps' \cup views' : ~chunks'[v.chunk].tmp
      BY <1>2, <1>4, <1>9 DEF MInv, KeepInv
    <2>2. QED
      BY <1>2, <1>9, <1>10, <2>1 DEF KeepInv, Bound
  <1>13. QED
    BY <1>5, <1>6, <1>7, <1>8, <1>11, <1>12 DEF MInv

LEMMA MapCurrentStep ==
    ASSUME RInv, NEW b \in Bufs, MapCurrent(b)
    PROVE  RInv'
  <1>1. MInv' /\ Grown(chunks', cache')
    BY MemoryPart, MapCurrentMemory
  <1>2. Idle /\ UNCHANGED <<events, shims>>
    BY DEF MapCurrent
  <1>3. QED
    BY <1>1, <1>2, GrowKeeps

LEMMA MapDiscardMemory ==
    ASSUME MInv, NEW b \in Bufs, MapDiscard(b)
    PROVE  MInv' /\ Grown(chunks', cache') /\ Ensured(chunks', bufs')
  <1> DEFINE t == EnsureChunk(Current, b)
             c == t.bufs[b]
             w == [buf |-> b, chunk |-> c, seen |-> None, wrote |-> TRUE]
  <1>1. /\ Grown(t.chunks, cache) /\ Ensured(t.chunks, t.bufs)
        /\ c \in DOMAIN t.chunks /\ \A d \in Bufs : d # b => t.bufs[d] = bufs[d]
    BY CurrentEnsured DEF MInv, MapDiscard, MayMap
  <1> HIDE DEF t
  <1>2. /\ chunks' = t.chunks /\ bufs' = t.bufs /\ views' = views \cup {w}
        /\ mem' = [mem EXCEPT ![t.chunks[c].hal] = Torn]
        /\ UNCHANGED <<cache, events, req, shims, maps, runs>> /\ Idle
    BY DEF MapDiscard, t
  <1>3. c \in ChunkIds /\ c # NoChunk /\ t.chunks[c] \in Chunk /\ ~t.chunks[c].tmp
    BY <1>1, Bounds DEF Grown, Ensured
  <1> HIDE DEF c
  <1>4. w \in View /\ w.chunk = c
    BY <1>3, Bounds DEF View, Values, None, Torn
  <1> HIDE DEF w
  <1>5. Grown(chunks', cache') /\ Ensured(chunks', bufs')
    BY <1>1, <1>2
  <1>6. TypeInv'
    <2>1. ReqTyped'
      BY <1>2 DEF ReqTyped, Idle
    <2>2. mem' \in [Hals -> Values]
      BY <1>2, HostTears DEF MInv
    <2>3. QED
      BY <1>2, <1>4, <1>5, <2>1, <2>2 DEF MInv, TypeInv, Grown, Ensured
  <1>7. OwnerInv' /\ \A d \in DOMAIN chunks' : chunks'[d].pending \subseteq DOMAIN events
    BY <1>5, GrowMemory
  <1>8. PastInv'
    BY <1>2, <1>7 DEF MInv, PastInv, Finished, Touches, ReqEvents
  <1>9. /\ \A d \in shims : d.chunks \subseteq DOMAIN chunks'
        /\ \A v \in maps \cup views : v.chunk \in DOMAIN chunks' /\ chunks'[v.chunk] = chunks[v.chunk]
        /\ \A d \in Bufs : bufs'[d] # NoChunk => bufs'[d] \in DOMAIN chunks' /\ ~chunks'[bufs'[d]].tmp
        /\ c \in DOMAIN chunks' /\ ~chunks'[c].tmp
    BY <1>1, <1>2, <1>3, <1>5, OwnersRefer DEF Grown, Ensured, MInv, c, NoneDangles
  <1>10. req.alloc = <<>> /\ DOMAIN req.alloc = {}
    BY <1>2 DEF Idle, NoReq
  <1>11. RefInv'
    BY <1>2, <1>4, <1>9, <1>10 DEF RefInv, Referenced
  <1>12. KeepInv'
    <2>1. \A v \in maps' \cup views' : ~chunks'[v.chunk].tmp
      BY <1>2, <1>4, <1>9 DEF MInv, KeepInv
    <2>2. QED
      BY <1>2, <1>9, <1>10, <2>1 DEF KeepInv, Bound
  <1>13. QED
    BY <1>5, <1>6, <1>7, <1>8, <1>11, <1>12 DEF MInv

LEMMA MapDiscardStep ==
    ASSUME RInv, NEW b \in Bufs, MapDiscard(b)
    PROVE  RInv'
  <1>1. MInv' /\ Grown(chunks', cache')
    BY MemoryPart, MapDiscardMemory
  <1>2. Idle /\ UNCHANGED <<events, shims>>
    BY DEF MapDiscard
  <1>3. QED
    BY <1>1, <1>2, GrowKeeps

\* Only the mappings change, or the contents of memory.
LEMMA MappingMemory ==
    ASSUME MInv, UNCHANGED <<chunks, cache, events, req>>
    PROVE  PastInv' /\ OwnerInv'
  <1>1. Finished' = Finished /\ ReqEvents' = ReqEvents /\ \A e : Touches(e)' = Touches(e)
    BY DEF Finished, ReqEvents, Touches
  <1>2. \A cs : Mem(cs)' = Mem(cs)
    BY DEF Mem
  <1>3. PastInv'
    BY <1>1 DEF MInv, PastInv
  <1>4. OwnerInv'
    BY <1>2 DEF MInv, OwnerInv
  <1>5. QED
    BY <1>3, <1>4

LEMMA MemoryKept ==
    ASSUME RInv, MInv', UNCHANGED <<chunks, cache, events, req, shims>>
    PROVE  RInv'
  <1>1. /\ Busy' = Busy /\ ReqEvents' = ReqEvents /\ ReqChunks' = ReqChunks
        /\ \A e : Touches(e)' = Touches(e)
    BY DEF Finished, Busy, ReqEvents, ReqChunks, Touches
  <1>2. InUse' = InUse /\ \A cs : Mem(cs)' = Mem(cs)
    BY <1>1 DEF InUse, Mem
  <1>3. PoisonInv'
    BY DEF RInv, PoisonInv
  <1>4. HalInv'
    BY <1>2 DEF RInv, HalInv, MInv
  <1>5. HeldInv'
    BY <1>1, <1>2 DEF RInv, HeldInv, Held
  <1>6. TmpInv'
    BY <1>1 DEF RInv, TmpInv, MInv
  <1>7. QED
    BY <1>3, <1>4, <1>5, <1>6 DEF RInv, MInv

\* The view has the chunk of the map.
LEMMA MapReadyMemory ==
    ASSUME MInv, NEW m \in maps, MapReady(m)
    PROVE  MInv'
  <1> DEFINE w == [buf |-> m.buf, chunk |-> m.chunk, seen |-> mem[chunks[m.chunk].hal], wrote |-> FALSE]
  <1>1. /\ maps' = maps \ {m} /\ views' = views \cup {w}
        /\ UNCHANGED <<bufs, chunks, cache, events, mem, req, shims, runs>>
    BY DEF MapReady
  <1>2. m \in Map /\ m.chunk \in DOMAIN chunks /\ ~chunks[m.chunk].tmp
    BY OwnersRefer DEF MInv, TypeInv, KeepInv, NoneDangles
  <1>3. w \in View /\ w.chunk = m.chunk
    BY <1>2 DEF MInv, TypeInv, Map, View, Chunk
  <1> HIDE DEF w
  <1>4. TypeInv'
    BY <1>1, <1>3 DEF MInv, TypeInv, ReqTyped, Idle
  <1>5. RefInv'
    BY <1>1, <1>2, <1>3 DEF MInv, RefInv, Referenced
  <1>6. PastInv' /\ OwnerInv'
    BY <1>1, MappingMemory
  <1>8. KeepInv'
    <2>1. \A v \in maps' \cup views' : ~chunks'[v.chunk].tmp
      BY <1>1, <1>2, <1>3 DEF MInv, KeepInv
    <2>2. QED
      BY <1>1, <2>1 DEF MInv, KeepInv, Bound
  <1>9. QED
    BY <1>4, <1>5, <1>6, <1>8 DEF MInv

LEMMA MapReadyStep ==
    ASSUME RInv, NEW m \in maps, MapReady(m)
    PROVE  RInv'
  <1>1. MInv'
    BY MemoryPart, MapReadyMemory
  <1>2. QED
    BY <1>1, MemoryKept DEF MapReady

LEMMA HostWritesMemory ==
    ASSUME MInv, NEW v \in views, HostWrites(v)
    PROVE  MInv'
  <1> DEFINE w == [v EXCEPT !.wrote = TRUE]
  <1>1. /\ views' = (views \ {v}) \cup {w}
        /\ mem' = [mem EXCEPT ![chunks[v.chunk].hal] = Torn]
        /\ UNCHANGED <<bufs, chunks, cache, events, req, shims, maps, runs>>
    BY DEF HostWrites
  <1>2. w \in View /\ w.chunk = v.chunk
    BY DEF MInv, TypeInv, View
  <1> HIDE DEF w
  <1>3. mem' \in [Hals -> Values]
    BY <1>1, HostTears DEF MInv
  <1>4. TypeInv'
    BY <1>1, <1>2, <1>3 DEF MInv, TypeInv, ReqTyped, Idle
  <1>5. RefInv'
    BY <1>1, <1>2 DEF MInv, RefInv, Referenced
  <1>6. PastInv' /\ OwnerInv'
    BY <1>1, MappingMemory
  <1>8. KeepInv'
    <2>1. \A u \in maps' \cup views' : ~chunks'[u.chunk].tmp
      BY <1>1, <1>2 DEF MInv, KeepInv
    <2>2. QED
      BY <1>1, <2>1 DEF MInv, KeepInv, Bound
  <1>9. QED
    BY <1>4, <1>5, <1>6, <1>8 DEF MInv

LEMMA HostWritesStep ==
    ASSUME RInv, NEW v \in views, HostWrites(v)
    PROVE  RInv'
  <1>1. MInv'
    BY MemoryPart, HostWritesMemory
  <1>2. QED
    BY <1>1, MemoryKept DEF HostWrites

-----------------------------------------------------------------------------
(* References that are dropped *)

LEMMA OwnersReferMemory ==
    ASSUME MInv'
    PROVE  NoneDangles'
  <1>1. TypeInv' /\ RefInv'
    BY DEF MInv
  <1>2. QED
    BY <1>1, OwnersRefer, PTL

\* No operation is added, and no shim goes before its terminal operations have finished.
LEMMA DropKeeps ==
    ASSUME RInv, MInv', NEW refs, DropTo(chunks, refs), UNCHANGED <<events, req>>,
           shims' \subseteq shims, \A s \in shims \ shims' : s.terminal \subseteq Finished
    PROVE  RInv'
  <1>1. /\ \A c \in DOMAIN chunks' : c \in DOMAIN chunks /\ chunks'[c] = chunks[c]
        /\ chunks' = [c \in DOMAIN chunks \cap refs |-> chunks[c]]
    BY DEF DropTo
  <1>2. /\ Busy' = Busy /\ Finished' = Finished
        /\ \A e \in DOMAIN events : Touches(e)' = Touches(e)
    BY DEF Busy, Finished, Touches
  <1>3. PoisonInv'
    BY <1>1 DEF RInv, PoisonInv
  <1>5. HeldInv'
    <2>1. ReqChunks' \subseteq DOMAIN chunks' /\ \A s \in shims' : s.chunks \subseteq DOMAIN chunks'
      <3>1. NoneDangles'
        BY OwnersReferMemory
      <3>2. QED
        BY <3>1 DEF NoneDangles
    <2> SUFFICES ASSUME NEW e \in Busy, events[e].kernel
                 PROVE  \/ Held(e, ReqChunks, req.terminal)'
                        \/ \E s \in shims' : Held(e, s.chunks, s.terminal)'
      BY <1>2 DEF HeldInv
    <2>2. CASE Held(e, ReqChunks, req.terminal)
      <3>1. ReqChunks' = ReqChunks /\ Touches(e)' = Touches(e)
        BY <1>2 DEF ReqChunks, Busy
      <3>2. Touches(e)' \subseteq {chunks'[c].hal : c \in ReqChunks}
        BY <1>1, <2>1, <2>2, <3>1 DEF Held, Mem
      <3>3. QED
        BY <2>2, <3>1, <3>2 DEF Held, Mem
    <2>3. CASE \E s \in shims : Held(e, s.chunks, s.terminal)
      <3>1. PICK s \in shims : Held(e, s.chunks, s.terminal)
        BY <2>3
      <3>0. s \in shims'
        <4> SUFFICES ASSUME s.terminal \subseteq Finished PROVE FALSE
          OBVIOUS
        <4>1. Unfinished(events) \subseteq 1..Len(events) /\ Len(events) \in Nat
          BY DEF RInv, TypeInv, Unfinished
        <4>2. \A y \in Unfinished(events) : events[y].deps \subseteq 1..(y - 1)
          BY DEF RInv, PastInv, Unfinished
        <4>3. s.terminal \cap Unfinished(events) # {}
          BY <3>1, <4>1, <4>2, CoveredBySome DEF Held
        <4>4. QED
          BY <4>3 DEF Finished, Unfinished
      <3>2. Touches(e)' = Touches(e) /\ s.chunks \subseteq DOMAIN chunks'
        BY <1>2, <2>1, <3>0 DEF Busy
      <3>3. Touches(e)' \subseteq {chunks'[c].hal : c \in s.chunks}
        BY <1>1, <3>1, <3>2 DEF Held, Mem
      <3>4. QED
        BY <3>0, <3>1, <3>3 DEF Held, Mem
    <2>4. QED
      BY <2>2, <2>3 DEF RInv, HeldInv
  <1>6. HalInv'
    <2>1. cache \cap InUse' = {}
      BY <1>2 DEF RInv, HalInv, InUse, Busy
    <2>2. \A e \in Busy' : ~events'[e].kernel =>
              \A c \in DOMAIN chunks : chunks[c].hal \in Touches(e)' => ~chunks[c].tmp
      BY <1>2 DEF RInv, TmpInv, Busy
    <2>3. QED
      BY <1>5, <2>1, <2>2, DropKeepsHalInv DEF RInv, MInv
  <1>7. TmpInv'
    BY <1>1, <1>2 DEF RInv, TmpInv, MInv, Busy
  <1>8. QED
    BY <1>3, <1>5, <1>6, <1>7 DEF RInv, MInv

LEMMA DropTypes ==
    ASSUME TypeInv, NEW cs \in [DOMAIN chunks -> Chunk], NEW refs, DropTo(cs, refs)
    PROVE  DOMAIN chunks' \subseteq ChunkIds /\ chunks' \in [DOMAIN chunks' -> Chunk] /\ cache' \subseteq Hals
  <1>1. chunks' = [c \in DOMAIN chunks \cap refs |-> cs[c]]
    BY DEF DropTo
  <1>2. \A c \in DOMAIN chunks : cs[c] \in Chunk /\ cs[c].hal \in Hals
    BY DEF Chunk
  <1>3. cache' \subseteq Hals
    BY <1>2 DEF DropTo, TypeInv
  <1>4. QED
    BY <1>1, <1>2, <1>3 DEF TypeInv

\* What refers to a chunk that is kept finds it as it was.
LEMMA DropRefers ==
    ASSUME NEW cs, NEW refs, DropTo(cs, refs), DOMAIN cs = DOMAIN chunks,
           refs = Referenced(bufs', req', shims', maps', views'), refs \subseteq DOMAIN chunks
    PROVE  RefInv' /\ \A c \in DOMAIN chunks' : c \in DOMAIN chunks /\ chunks'[c] = cs[c]
  <1>1. chunks' = [c \in DOMAIN chunks \cap refs |-> cs[c]]
    BY DEF DropTo
  <1>2. QED
    BY <1>1 DEF RefInv

LEMMA DropKeepsMemory ==
    ASSUME MInv, NEW refs, DropTo(chunks, refs), UNCHANGED <<events, req>>, TypeInv', RefInv',
           \A b \in Bufs : bufs'[b] = bufs[b] \/ bufs'[b] = NoChunk,
           maps' \subseteq maps, views' \subseteq views
    PROVE  MInv'
  <1>1. \A c \in DOMAIN chunks' : c \in DOMAIN chunks /\ chunks'[c] = chunks[c]
    BY DEF DropTo
  <1>2. NoneDangles'
    BY OwnersRefer, PTL
  <1>3. \A b \in Bufs : Bound(b)' => ~chunks'[bufs'[b]].tmp
    BY <1>1, <1>2 DEF NoneDangles, MInv, KeepInv, Bound
  <1>4. \A i \in DOMAIN req'.alloc : req'.call.allocs[i].out # NoBuf => ~chunks'[req'.alloc[i]].tmp
    BY <1>1, <1>2 DEF NoneDangles, ReqChunks, MInv, KeepInv
  <1>6. \A v \in maps' \cup views' : ~chunks'[v.chunk].tmp
    BY <1>1, <1>2 DEF NoneDangles, MInv, KeepInv
  <1>7. KeepInv'
    BY <1>3, <1>4, <1>6 DEF KeepInv
  <1>8. PastInv'
    <2>1. Finished' = Finished /\ \A e \in DOMAIN events : Touches(e)' = Touches(e)
      BY DEF Finished, Touches
    <2>2. QED
      BY <1>1, <2>1 DEF MInv, PastInv, ReqEvents
  <1>9. OwnerInv'
    BY DropKeepsOwners DEF MInv
  <1>10. QED
    BY <1>7, <1>8, <1>9 DEF MInv

LEMMA FreeBufferMemory ==
    ASSUME MInv, NEW b \in Bufs, FreeBuffer(b)
    PROVE  MInv'
  <1> DEFINE refs == Referenced(bufs', req, shims, maps, views)
  <1>1. /\ bufs' = [bufs EXCEPT ![b] = NoChunk] /\ DropTo(chunks, refs) /\ Idle
        /\ UNCHANGED <<events, mem, req, shims, maps, views, runs>>
    BY DEF FreeBuffer
  <1>2. \A d \in Bufs : bufs'[d] = IF d = b THEN NoChunk ELSE bufs[d]
    BY <1>1 DEF MInv, TypeInv
  <1>3. refs \subseteq DOMAIN chunks
    BY <1>2 DEF MInv, RefInv, Referenced
  <1> HIDE DEF refs
  <1>4. RefInv' /\ \A c \in DOMAIN chunks' : c \in DOMAIN chunks /\ chunks'[c] = chunks[c]
    BY <1>1, <1>3, DropRefers DEF refs
  <1>5. TypeInv'
    <2>1. DOMAIN chunks' \subseteq ChunkIds /\ chunks' \in [DOMAIN chunks' -> Chunk] /\ cache' \subseteq Hals
      BY <1>1, DropTypes DEF MInv, TypeInv
    <2>2. bufs' \in [Bufs -> ChunkIds \cup {NoChunk}]
      BY <1>1 DEF MInv, TypeInv
    <2>3. QED
      BY <1>1, <2>1, <2>2 DEF MInv, TypeInv, ReqTyped, Idle
  <1>7. QED
    BY <1>1, <1>2, <1>4, <1>5, DropKeepsMemory DEF MInv

LEMMA FreeBufferStep ==
    ASSUME RInv, NEW b \in Bufs, FreeBuffer(b)
    PROVE  RInv'
  <1>1. MInv'
    BY MemoryPart, FreeBufferMemory
  <1>2. QED
    BY <1>1, DropKeeps DEF FreeBuffer

LEMMA MapFailsMemory ==
    ASSUME MInv, NEW m \in maps, MapFails(m)
    PROVE  MInv'
  <1> DEFINE refs == Referenced(bufs, req, shims, maps', views)
  <1>1. /\ maps' = maps \ {m} /\ DropTo(chunks, refs)
        /\ UNCHANGED <<bufs, events, mem, req, shims, views, runs>>
    BY DEF MapFails
  <1>2. refs \subseteq DOMAIN chunks
    BY <1>1 DEF MInv, RefInv, Referenced
  <1> HIDE DEF refs
  <1>3. RefInv' /\ \A c \in DOMAIN chunks' : c \in DOMAIN chunks /\ chunks'[c] = chunks[c]
    BY <1>1, <1>2, DropRefers DEF refs
  <1>4. TypeInv'
    <2>1. DOMAIN chunks' \subseteq ChunkIds /\ chunks' \in [DOMAIN chunks' -> Chunk] /\ cache' \subseteq Hals
      BY <1>1, DropTypes DEF MInv, TypeInv
    <2>2. QED
      BY <1>1, <2>1 DEF MInv, TypeInv, ReqTyped, Idle
  <1>6. QED
    BY <1>1, <1>3, <1>4, DropKeepsMemory DEF MInv

LEMMA MapFailsStep ==
    ASSUME RInv, NEW m \in maps, MapFails(m)
    PROVE  RInv'
  <1>1. MInv'
    BY MemoryPart, MapFailsMemory
  <1>2. QED
    BY <1>1, DropKeeps DEF MapFails

LEMMA ReleaseShimMemory ==
    ASSUME MInv, NEW s \in shims, ReleaseShim(s)
    PROVE  MInv'
  <1> DEFINE refs == Referenced(bufs, req, shims', maps, views)
  <1>1. /\ shims' = shims \ {s} /\ DropTo(chunks, refs) /\ s.terminal \subseteq Finished
        /\ UNCHANGED <<bufs, events, mem, req, maps, views, runs>>
    BY DEF ReleaseShim
  <1>2. refs \subseteq DOMAIN chunks
    BY <1>1 DEF MInv, RefInv, Referenced
  <1> HIDE DEF refs
  <1>3. RefInv' /\ \A c \in DOMAIN chunks' : c \in DOMAIN chunks /\ chunks'[c] = chunks[c]
    BY <1>1, <1>2, DropRefers DEF refs
  <1>4. TypeInv'
    <2>1. DOMAIN chunks' \subseteq ChunkIds /\ chunks' \in [DOMAIN chunks' -> Chunk] /\ cache' \subseteq Hals
      BY <1>1, DropTypes DEF MInv, TypeInv
    <2>2. QED
      BY <1>1, <2>1 DEF MInv, TypeInv, ReqTyped, Idle
  <1>6. QED
    BY <1>1, <1>3, <1>4, DropKeepsMemory DEF MInv

LEMMA ReleaseShimStep ==
    ASSUME RInv, NEW s \in shims, ReleaseShim(s)
    PROVE  RInv'
  <1>1. MInv'
    BY MemoryPart, ReleaseShimMemory
  <1>2. QED
    BY <1>1, DropKeeps DEF ReleaseShim

\* Operation n is added, as new; nothing that is on the device is covered by less.
Added(n, new) ==
    /\ n = Len(events) + 1 /\ n \in 1..MaxEvents /\ n \in Values
    /\ events' \in Seq(Event) /\ Len(events') = Len(events) + 1 /\ Len(events') <= MaxEvents
    /\ n \notin DOMAIN events /\ DOMAIN events' = DOMAIN events \cup {n}
    /\ events'[n] = new
    /\ \A x \in DOMAIN events : events'[x] = events[x]
    /\ Busy' = Busy \cup {n} /\ Finished' = Finished
    /\ Busy \subseteq DOMAIN events
    /\ \A e \in Busy : Touches(e)' = Touches(e)
    /\ \A e, T : e \in Busy /\ Covered(events, e, T) => Covered(events', e, T)

LEMMA EventAdded ==
    ASSUME TypeInv, NEW new \in Event, events' = Append(events, new), new.st = "waiting",
           Len(events) < MaxEvents
    PROVE  \E n \in Nat : Added(n, new)
  <1>1. events \in Seq(Event) /\ Len(events) \in Nat /\ DOMAIN events = 1..Len(events)
    BY DEF TypeInv
  <1>a. PICK n \in Nat : n = Len(events) + 1
    BY <1>1
  <1>2. /\ events' \in Seq(Event) /\ Len(events') = Len(events) + 1
        /\ events'[n] = new
        /\ \A x \in DOMAIN events : events'[x] = events[x]
        /\ n \notin DOMAIN events
    BY <1>1, <1>a
  <1>3. DOMAIN events' = DOMAIN events \cup {n}
    BY <1>1, <1>2, <1>a
  <1>4. Finished' = Finished
    BY <1>2, <1>3 DEF Finished
  <1>5. Finished \subseteq DOMAIN events
    BY DEF Finished
  <1>6. Busy' = Busy \cup {n} /\ Busy \subseteq DOMAIN events
    BY <1>2, <1>3, <1>4, <1>5 DEF Busy
  <1>7. \A e \in Busy : Touches(e)' = Touches(e)
    BY <1>2, <1>6 DEF Touches
  <1>8. ASSUME NEW e \in Busy, NEW T, Covered(events, e, T)
        PROVE  Covered(events', e, T)
    <2>1. Unfinished(events) = Busy /\ Unfinished(events') = Busy'
      BY DEF Busy, Finished, Unfinished
    <2>2. \A x \in Unfinished(events) \cap Unfinished(events') : events'[x].deps = events[x].deps
      BY <1>2, <1>6, <2>1
    <2>3. \A y \in Unfinished(events) \ Unfinished(events') : events[y].deps \cap Unfinished(events) = {}
      BY <1>6, <2>1
    <2>4. e \in Unfinished(events')
      BY <1>6, <2>1
    <2>5. QED
      BY <1>8, <2>2, <2>3, <2>4, CoveredKept
  <1>9. n \in 1..MaxEvents /\ n \in Values /\ Len(events') <= MaxEvents
    BY <1>1, <1>2, <1>a, Bounds DEF Values, Torn
  <1>10. \A e, T : e \in Busy /\ Covered(events, e, T) => Covered(events', e, T)
    BY <1>8
  <1>11. QED
    BY <1>a, <1>2, <1>3, <1>4, <1>6, <1>7, <1>9, <1>10 DEF Added

\* It waits for earlier operations, and it may be pending in chunks and be one of the
\* request.
LEMMA AddedPast ==
    ASSUME PastInv, TypeInv, NEW n, NEW new, Added(n, new), new.st = "waiting",
           new.deps \subseteq DOMAIN events,
           \A c \in DOMAIN chunks' :
              c \in DOMAIN chunks /\ chunks'[c].pending \subseteq chunks[c].pending \cup {n},
           ReqEvents' \subseteq ReqEvents \cup {n}
    PROVE  PastInv'
  <1>1. DOMAIN events = 1..Len(events) /\ Len(events) \in Nat /\ n = Len(events) + 1
    BY DEF TypeInv, Added
  <1>2. 1..(n - 1) = DOMAIN events
    BY <1>1
  <1>3. ASSUME NEW x \in DOMAIN events'
        PROVE  /\ events'[x].deps \subseteq 1..(x - 1)
               /\ events'[x].st \in Started => events'[x].deps \subseteq Finished
               /\ x \in Finished => Touches(x)' = {}
    <2>1. CASE x = n
      <3>1. n \notin Finished
        BY DEF Added, Finished
      <3>2. QED
        BY <2>1, <3>1, <1>2 DEF Added, Started
    <2>2. CASE x # n
      BY <2>2 DEF Added, PastInv, Touches
    <2>3. QED
      BY <2>1, <2>2
  <1>4. \A c \in DOMAIN chunks' : chunks'[c].pending \subseteq DOMAIN events'
    BY DEF Added, PastInv
  <1>5. ReqEvents' \subseteq DOMAIN events'
    BY DEF Added, PastInv
  <1>6. Finished' = Finished
    BY DEF Added
  <1>7. QED
    BY <1>3, <1>4, <1>5, <1>6 DEF PastInv

LEMMA DependencyAdded ==
    ASSUME NEW c, chunks[c] \in Chunk, NEW e \in 1..MaxEvents
    PROVE  LET d == AddReadDependency(c, e)
           IN /\ d \in Chunk /\ d.hal = chunks[c].hal /\ d.tmp = chunks[c].tmp /\ d.ep = 0
              /\ d.pending = chunks[c].pending \cup {e} /\ d.want = e
  <1>1. e \in Values /\ 0 \in 0..MaxRuns
    BY Bounds DEF Values, Torn
  <1>2. PICK k \in Chunk : k = chunks[c]
    OBVIOUS
  <1>3. k.pending \cup {e} \in SUBSET (1..MaxEvents)
    BY DEF Chunk
  <1>4. AddReadDependency(c, e) = [k EXCEPT !.pending = k.pending \cup {e}, !.ep = 0, !.want = e]
    BY <1>2 DEF AddReadDependency
  <1>5. QED
    BY <1>1, <1>2, <1>3, <1>4 DEF Chunk

\* What the view's end adds, and makes of the chunks.
UnmapEvent(v) == [deps |-> {}, reads |-> {}, kernel |-> FALSE, st |-> "waiting",
                  writes |-> IF v.wrote THEN {chunks[v.chunk].hal} ELSE {}]

WrittenBack(v, n) ==
    Put(chunks, v.chunk, [AddReadDependency(v.chunk, n) EXCEPT
                            !.want = IF v.wrote THEN n ELSE chunks[v.chunk].want])

WritesBack(v, n) ==
    /\ Added(n, UnmapEvent(v))
    /\ events'[n].deps = {} /\ events'[n].st = "waiting" /\ ~events'[n].kernel
    /\ Touches(n)' \subseteq {chunks[v.chunk].hal}
    /\ v.chunk \in DOMAIN chunks /\ ~chunks[v.chunk].tmp
    /\ DOMAIN WrittenBack(v, n) = DOMAIN chunks /\ WrittenBack(v, n) \in [DOMAIN chunks -> Chunk]
    /\ DropTo(WrittenBack(v, n), Referenced(bufs, req, shims, maps, views'))
    /\ RefInv'
    /\ \A c \in DOMAIN chunks :
          /\ WrittenBack(v, n)[c].hal = chunks[c].hal /\ WrittenBack(v, n)[c].tmp = chunks[c].tmp
    /\ \A c \in DOMAIN chunks' :
          /\ c \in DOMAIN chunks
          /\ chunks'[c].hal = chunks[c].hal /\ chunks'[c].tmp = chunks[c].tmp
          /\ c # v.chunk => chunks'[c] = chunks[c]
          /\ c = v.chunk => /\ chunks'[c].ep = 0 /\ chunks'[c].pending = chunks[c].pending \cup {n}
                            /\ chunks'[c].want = IF v.wrote THEN n ELSE chunks[c].want

LEMMA WriteBackAdds ==
    ASSUME MInv, NEW v \in views, WriteBack(v)
    PROVE  \E n \in Nat : WritesBack(v, n)
  <1>0. Len(events) \in Nat
    BY DEF MInv, TypeInv
  <1>1. /\ v \in View /\ v.chunk \in DOMAIN chunks /\ ~chunks[v.chunk].tmp
        /\ chunks[v.chunk] \in Chunk
    BY OwnersRefer DEF NoneDangles, MInv, TypeInv, KeepInv
  <1>2. UnmapEvent(v) \in Event /\ UnmapEvent(v).st = "waiting"
    BY <1>1 DEF Event, Chunk, UnmapEvent
  <1>3. events' = Append(events, UnmapEvent(v)) /\ Len(events) < MaxEvents /\ Idle
    BY DEF WriteBack, UnmapEvent
  <1>4. PICK n \in Nat : Added(n, UnmapEvent(v))
    BY <1>2, <1>3, EventAdded DEF MInv
  <1> DEFINE cs == WrittenBack(v, n)
             chunk == [AddReadDependency(v.chunk, n) EXCEPT
                         !.want = IF v.wrote THEN n ELSE chunks[v.chunk].want]
             refs == Referenced(bufs, req, shims, maps, views')
  <1>5. /\ n = Len(events) + 1 /\ n \in 1..MaxEvents /\ n \in Values
        /\ events'[n] = UnmapEvent(v)
    BY <1>4 DEF Added
  <1>6. DropTo(cs, refs) /\ views' = views \ {v} /\ UNCHANGED <<bufs, req, shims, maps>>
    BY <1>5 DEF WriteBack, WrittenBack
  <1>7. /\ chunk \in Chunk /\ chunk.hal = chunks[v.chunk].hal /\ chunk.tmp = chunks[v.chunk].tmp
        /\ chunk.ep = 0 /\ chunk.pending = chunks[v.chunk].pending \cup {n}
        /\ chunk.want = IF v.wrote THEN n ELSE chunks[v.chunk].want
    <2> DEFINE d == AddReadDependency(v.chunk, n)
               want == IF v.wrote THEN n ELSE chunks[v.chunk].want
    <2>1. /\ d \in Chunk /\ d.hal = chunks[v.chunk].hal /\ d.tmp = chunks[v.chunk].tmp /\ d.ep = 0
          /\ d.pending = chunks[v.chunk].pending \cup {n}
      BY <1>1, <1>5, DependencyAdded
    <2>2. chunk = [d EXCEPT !.want = want]
      OBVIOUS
    <2>3. want \in Values
      BY <1>1, <1>5 DEF Chunk
    <2> HIDE DEF d, want, chunk
    <2>4. /\ chunk \in Chunk /\ chunk.hal = chunks[v.chunk].hal /\ chunk.tmp = chunks[v.chunk].tmp
          /\ chunk.ep = 0 /\ chunk.pending = chunks[v.chunk].pending \cup {n} /\ chunk.want = want
      BY <2>1, <2>2, <2>3 DEF Chunk
    <2>5. QED
      BY <2>4 DEF want
  <1> HIDE DEF chunk
  <1>8. DOMAIN cs = DOMAIN chunks /\ \A c \in DOMAIN chunks : cs[c] = IF c = v.chunk THEN chunk ELSE chunks[c]
    BY <1>1 DEF Put, WrittenBack, chunk
  <1>9. cs \in [DOMAIN chunks -> Chunk]
    <2>1. cs = [c \in DOMAIN chunks |-> cs[c]]
      BY <1>1 DEF Put, WrittenBack
    <2> HIDE DEF cs
    <2>2. \A c \in DOMAIN chunks : cs[c] \in Chunk
      BY <1>7, <1>8 DEF MInv, TypeInv
    <2>3. QED
      BY <2>1, <2>2
  <1> HIDE DEF cs
  <1>10. refs \subseteq DOMAIN chunks
    BY <1>6 DEF MInv, RefInv, Referenced
  <1> HIDE DEF refs
  <1>11. RefInv' /\ \A c \in DOMAIN chunks' : c \in DOMAIN chunks /\ chunks'[c] = cs[c]
    BY <1>6, <1>8, <1>10, DropRefers DEF refs
  <1>12. Touches(n)' \subseteq {chunks[v.chunk].hal}
    BY <1>5 DEF Touches, UnmapEvent
  <1>13. events'[n].deps = {} /\ events'[n].st = "waiting" /\ ~events'[n].kernel
    BY <1>5 DEF UnmapEvent
  <1>14. \A c \in DOMAIN chunks : cs[c].hal = chunks[c].hal /\ cs[c].tmp = chunks[c].tmp
    BY <1>7, <1>8
  <1>15. \A c \in DOMAIN chunks' :
            /\ c \in DOMAIN chunks
            /\ chunks'[c].hal = chunks[c].hal /\ chunks'[c].tmp = chunks[c].tmp
            /\ c # v.chunk => chunks'[c] = chunks[c]
            /\ c = v.chunk => /\ chunks'[c].ep = 0 /\ chunks'[c].pending = chunks[c].pending \cup {n}
                              /\ chunks'[c].want = IF v.wrote THEN n ELSE chunks[c].want
    BY <1>7, <1>8, <1>11
  <1>16. DOMAIN cs = DOMAIN chunks /\ DropTo(cs, refs)
    BY <1>6, <1>8
  <1>17. WritesBack(v, n)
    BY <1>1, <1>4, <1>9, <1>11, <1>12, <1>13, <1>14, <1>15, <1>16 DEF WritesBack, cs, refs
  <1>18. QED
    BY <1>17

LEMMA WriteBackMemory ==
    ASSUME MInv, NEW v \in views, WriteBack(v)
    PROVE  MInv'
  <1>1. PICK n \in Nat : WritesBack(v, n)
    BY WriteBackAdds
  <1>2. /\ views' = views \ {v} /\ Idle
        /\ UNCHANGED <<bufs, mem, req, shims, maps, runs>>
    BY DEF WriteBack
  <1>3. TypeInv'
    <2>1. DOMAIN chunks' \subseteq ChunkIds /\ chunks' \in [DOMAIN chunks' -> Chunk] /\ cache' \subseteq Hals
      BY <1>1, DropTypes DEF MInv, WritesBack
    <2>2. events' \in Seq(Event) /\ Len(events') <= MaxEvents
      BY <1>1 DEF WritesBack, Added
    <2>3. ReqTyped'
      BY <1>2 DEF ReqTyped, Idle
    <2>4. QED
      BY <1>2, <2>1, <2>2, <2>3 DEF MInv, TypeInv
  <1>4. PastInv'
    <2>1. UnmapEvent(v).st = "waiting" /\ UnmapEvent(v).deps \subseteq DOMAIN events
      BY DEF UnmapEvent
    <2>2. \A c \in DOMAIN chunks' :
             c \in DOMAIN chunks /\ chunks'[c].pending \subseteq chunks[c].pending \cup {n}
      BY <1>1 DEF WritesBack
    <2>3. ReqEvents' \subseteq ReqEvents \cup {n}
      BY <1>2 DEF ReqEvents
    <2>4. QED
      BY <1>1, <2>1, <2>2, <2>3, AddedPast DEF MInv, WritesBack
  <1>5. RefInv'
    BY <1>1 DEF WritesBack
  <1>6. NoneDangles'
    BY <1>3, <1>5, OwnersRefer, PTL
  <1>7. KeepInv'
    <2>1. req'.alloc = <<>>
      BY <1>2 DEF Idle, NoReq
    <2>2. \A b \in Bufs : Bound(b)' => ~chunks'[bufs'[b]].tmp
      BY <1>1, <1>2, <1>6 DEF NoneDangles, MInv, KeepInv, Bound, WritesBack
    <2>3. \A w \in maps' \cup views' : ~chunks'[w.chunk].tmp
      BY <1>1, <1>2, <1>6 DEF NoneDangles, MInv, KeepInv, WritesBack
    <2>4. QED
      BY <2>1, <2>2, <2>3 DEF KeepInv
  <1>8. OwnerInv'
    BY <1>1, DropKeepsOwners DEF MInv, WritesBack
  <1>9. QED
    BY <1>3, <1>4, <1>5, <1>7, <1>8 DEF MInv

LEMMA WriteBackStep ==
    ASSUME RInv, NEW v \in views, WriteBack(v)
    PROVE  RInv'
  <1>1. MInv /\ MInv'
    BY MemoryPart, WriteBackMemory
  <1>2. PICK n \in Nat : WritesBack(v, n)
    BY <1>1, WriteBackAdds
  <1>3. Idle /\ UNCHANGED <<req, shims>>
    BY DEF WriteBack
  <1>4. /\ Busy' = Busy \cup {n} /\ Busy \subseteq DOMAIN events
        /\ n \notin DOMAIN events
        /\ \A x \in DOMAIN events : events'[x] = events[x]
        /\ \A e \in Busy : Touches(e)' = Touches(e)
        /\ \A e, T : e \in Busy /\ Covered(events, e, T) => Covered(events', e, T)
        /\ ~events'[n].kernel /\ Touches(n)' \subseteq {chunks[v.chunk].hal}
    BY <1>2 DEF WritesBack, Added
  <1>5. /\ v.chunk \in DOMAIN chunks /\ ~chunks[v.chunk].tmp
        /\ \A c \in DOMAIN chunks' :
             c \in DOMAIN chunks /\ chunks'[c].hal = chunks[c].hal /\ chunks'[c].tmp = chunks[c].tmp
    BY <1>2 DEF WritesBack
  <1>6. PoisonInv'
    BY <1>2 DEF RInv, PoisonInv, WritesBack
  <1>7. HeldInv'
    <2> SUFFICES ASSUME NEW e \in Busy', events'[e].kernel
                 PROVE  \E s \in shims' : Held(e, s.chunks, s.terminal)'
      BY DEF HeldInv
    <2>1. e \in Busy /\ events[e].kernel
      BY <1>4
    <2>2. PICK s \in shims : Held(e, s.chunks, s.terminal)
      BY <1>3, <2>1, ShimsHold
    <2>3. s.chunks \subseteq DOMAIN chunks'
      <3>1. NoneDangles'
        BY <1>1, OwnersReferMemory
      <3>2. QED
        BY <1>3, <3>1 DEF NoneDangles
    <2>4. Touches(e)' \subseteq {chunks'[c].hal : c \in s.chunks}
      BY <1>4, <1>5, <2>1, <2>2, <2>3 DEF Held, Mem
    <2>5. Covered(events', e, s.terminal)
      BY <1>4, <2>1, <2>2 DEF Held
    <2>6. QED
      BY <1>3, <2>4, <2>5 DEF Held, Mem
  <1>8. ASSUME NEW e \in Busy', ~events'[e].kernel, NEW c \in DOMAIN chunks, chunks[c].hal \in Touches(e)'
        PROVE  ~chunks[c].tmp
    <2>1. CASE e = n
      BY <2>1, <1>4, <1>5, <1>8 DEF RInv, HalInv, OwnerInv
    <2>2. CASE e # n
      BY <2>2, <1>4, <1>8 DEF RInv, TmpInv
    <2>3. QED
      BY <2>1, <2>2
  <1>9. HalInv'
    <2>1. cache \cap InUse' = {}
      BY <1>4, <1>5 DEF RInv, HalInv, OwnerInv, InUse, Mem
    <2>2. QED
      BY <1>1, <1>2, <1>7, <1>8, <2>1, DropKeepsHalInv DEF RInv, MInv, WritesBack
  <1>10. TmpInv'
    BY <1>1, <1>5, <1>8 DEF TmpInv, MInv
  <1>11. QED
    BY <1>1, <1>6, <1>7, <1>9, <1>10 DEF RInv, MInv

-----------------------------------------------------------------------------
(* The loop of RunSchedule *)

\* The step to launch, of a program whose schedule is valid.
LEMMA CurrentStep ==
    ASSUME MInv, req.step \in DOMAIN req.call.steps
    PROVE  /\ ~Idle /\ req \in Request /\ req.step \in 1..Len(req.call.steps)
           /\ Step.ins \cup Step.outs \subseteq DOMAIN req.alloc
           /\ Step.deps \subseteq DOMAIN req.event
           /\ StepChunks \subseteq ReqChunks
  <1>1. ~Idle
    BY DEF Idle, NoReq
  <1>2. /\ req \in Request /\ Len(req.alloc) = Len(req.call.allocs)
        /\ req.step = Len(req.event) + 1
    BY <1>1 DEF MInv, TypeInv, ReqTyped
  <1>3. /\ req.call \in Calls /\ req.alloc \in Seq(ChunkIds) /\ req.event \in Seq(1..MaxEvents)
        /\ req.call.allocs \in Seq(Alloc) /\ req.call.steps \in Seq(ProgramStep)
    BY <1>2, RuntimeAssumption DEF Request
  <1>4. req.step \in 1..Len(req.call.steps)
    BY <1>3
  <1>5. /\ Step.ins \cup Step.outs \subseteq DOMAIN req.call.allocs
        /\ Step.deps \subseteq 1..(req.step - 1)
    BY <1>3, ScheduleAssumption DEF Step
  <1>6. DOMAIN req.call.allocs = DOMAIN req.alloc /\ DOMAIN req.event = 1..(req.step - 1)
    BY <1>2, <1>3
  <1>7. QED
    BY <1>1, <1>2, <1>4, <1>5, <1>6 DEF StepChunks, ReqChunks

LEMMA LaunchFailsStep ==
    ASSUME RInv, ~MayFailLaunch, LaunchFails
    PROVE  FALSE
  <1>1. StepChunks \subseteq DOMAIN chunks
    BY MemoryPart, CurrentStep, OwnersRefer DEF LaunchFails, RInv, NoneDangles
  <1>2. {c \in StepChunks : ~Readable(chunks[c])} = {}
    BY <1>1 DEF RInv, PoisonInv, Readable
  <1>3. QED
    BY <1>2 DEF LaunchFails

LEMMA EventRoom ==
    ASSUME NEW n \in Nat, NEW len \in Nat, NEW k \in Nat, NEW max \in Nat,
           1 <= k, k <= len, n + len + 1 - k <= max
    PROVE  n < max /\ n + 1 + len + 1 - (k + 1) <= max
  OBVIOUS

\* The current step, as it is given to the device, and the chunks it writes; those of
\* outputs get it as a dependency.
StepEvent == [deps |-> CurrentDeps,
              reads |-> {<<chunks[req.alloc[i]].hal, req.want[i]>> : i \in Step.ins},
              writes |-> {chunks[c].hal : c \in {req.alloc[i] : i \in Step.outs}},
              kernel |-> TRUE,
              st |-> "waiting"]

StepOuts == {req.alloc[i] : i \in Step.outs}
AddDep(c) == \E i \in DOMAIN req.alloc : req.alloc[i] = c /\ req.call.allocs[i].out # NoBuf

TakesStep(n) ==
    /\ Added(n, StepEvent)
    /\ StepEvent.deps = CurrentDeps /\ StepEvent.st = "waiting" /\ StepEvent.kernel
    /\ StepEvent.writes = Mem(StepOuts)
    /\ StepEvent.reads = {<<chunks[req.alloc[i]].hal, req.want[i]>> : i \in Step.ins}
    /\ Touches(n)' \subseteq Mem(ReqChunks)
    /\ StepOuts \subseteq ReqChunks /\ ReqChunks \subseteq DOMAIN chunks
    /\ CurrentDeps \subseteq DOMAIN events
    /\ DOMAIN chunks' = DOMAIN chunks /\ chunks' \in [DOMAIN chunks -> Chunk]
    /\ \A c \in DOMAIN chunks :
          /\ chunks'[c].hal = chunks[c].hal /\ chunks'[c].tmp = chunks[c].tmp
          /\ chunks'[c].ep = chunks[c].ep
          /\ c \notin StepOuts => chunks'[c] = chunks[c]
          /\ c \in StepOuts => chunks'[c].want = n
          /\ chunks'[c].pending =
               IF c \in StepOuts /\ AddDep(c) THEN chunks[c].pending \cup {n} ELSE chunks[c].pending
    /\ req' \in Request /\ req'.call = req.call /\ req'.alloc = req.alloc
    /\ req'.event = Append(req.event, n) /\ req'.step = req.step + 1
    /\ req'.terminal = Terminal(n)
    /\ req'.want = [i \in DOMAIN req.want |-> IF i \in Step.outs THEN n ELSE req.want[i]]
    /\ Len(req'.event) = Len(req.event) + 1 /\ Len(req'.want) = Len(req.want)
    /\ ReqEvents' = ReqEvents \cup {n} /\ ReqChunks' = ReqChunks

LEMMA StepTaken ==
    ASSUME MInv, LaunchStep
    PROVE  \E n \in Nat : TakesStep(n)
  <1>1. req.step \in DOMAIN req.call.steps /\ events' = Append(events, StepEvent)
    BY DEF LaunchStep, StepEvent
  <1>2. /\ ~Idle /\ req \in Request /\ req.step \in 1..Len(req.call.steps)
        /\ Step.ins \cup Step.outs \subseteq DOMAIN req.alloc
        /\ Step.deps \subseteq DOMAIN req.event
        /\ StepChunks \subseteq ReqChunks
    BY <1>1, CurrentStep
  <1>3. /\ Len(req.alloc) = Len(req.call.allocs) /\ Len(req.want) = Len(req.call.allocs)
        /\ req.step = Len(req.event) + 1
        /\ Len(events) + Len(req.call.steps) + 1 - req.step <= MaxEvents
    BY <1>2 DEF MInv, TypeInv, ReqTyped
  <1>4. /\ req.call \in Calls /\ req.alloc \in Seq(ChunkIds) /\ req.event \in Seq(1..MaxEvents)
        /\ req.want \in Seq(Values) /\ req.terminal \subseteq 1..MaxEvents
        /\ req.call.steps \in Seq(ProgramStep) /\ DOMAIN req.alloc = DOMAIN req.want
        /\ req.step \in Nat /\ Len(req.call.steps) \in Nat /\ req.call.allocs \in Seq(Alloc)
    BY <1>2, <1>3, RuntimeAssumption DEF Request
  <1>5. Len(events) < MaxEvents
    <2>1. Len(events) \in Nat
      BY DEF MInv, TypeInv
    <2>2. req.step >= 1 /\ req.step <= Len(req.call.steps)
      BY <1>2, <1>4
    <2>3. QED
      BY <1>3, <1>4, <2>1, <2>2, Bounds, EventRoom
  <1>6. ReqChunks \subseteq DOMAIN chunks /\ \A c \in DOMAIN chunks : chunks[c] \in Chunk
    BY OwnersRefer DEF NoneDangles, MInv, TypeInv
  <1>7. CurrentDeps \subseteq DOMAIN events
    <2>1. {req.event[d] : d \in Step.deps} \subseteq DOMAIN events
      BY <1>2 DEF MInv, PastInv, ReqEvents
    <2>2. Pending(StepChunks) \subseteq DOMAIN events
      BY <1>2, <1>6 DEF Pending, MInv, PastInv
    <2>3. QED
      BY <2>1, <2>2 DEF CurrentDeps
  <1>8. CurrentDeps \subseteq 1..MaxEvents
    <2>1. Len(events) \in Nat /\ DOMAIN events = 1..Len(events) /\ Len(events) <= MaxEvents
      BY DEF MInv, TypeInv
    <2>2. \A d \in 1..Len(events) : d \in 1..MaxEvents
      BY <2>1, Bounds
    <2>3. QED
      BY <1>7, <2>1, <2>2
  <1>9. StepOuts \subseteq ReqChunks /\ \A i \in Step.ins : req.alloc[i] \in ReqChunks /\ req.want[i] \in Values
    BY <1>2, <1>4 DEF ReqChunks, StepOuts
  <1>10. /\ StepEvent \in Event
         /\ StepEvent.deps = CurrentDeps /\ StepEvent.st = "waiting" /\ StepEvent.kernel
         /\ StepEvent.writes = Mem(StepOuts)
         /\ StepEvent.reads = {<<chunks[req.alloc[i]].hal, req.want[i]>> : i \in Step.ins}
    <2>1. Mem(StepOuts) \subseteq Hals
      BY <1>6, <1>9 DEF Chunk, Mem
    <2>2. {<<chunks[req.alloc[i]].hal, req.want[i]>> : i \in Step.ins} \subseteq Hals \X Values
      BY <1>6, <1>9 DEF Chunk
    <2>3. StepEvent.writes = Mem(StepOuts)
      BY DEF StepEvent, StepOuts, Mem
    <2>4. QED
      BY <1>8, <2>1, <2>2, <2>3 DEF Event, StepEvent
  <1>11. PICK n \in Nat : Added(n, StepEvent)
    BY <1>1, <1>5, <1>10, EventAdded DEF MInv
  <1>12. n = Len(events) + 1 /\ n \in 1..MaxEvents /\ n \in Values /\ events'[n] = StepEvent
    BY <1>11 DEF Added
  <1>13. chunks' = [c \in DOMAIN chunks |->
                      IF c \notin StepOuts THEN chunks[c]
                      ELSE IF AddDep(c) THEN AddReadDependency(c, n)
                      ELSE [chunks[c] EXCEPT !.want = n]]
    BY <1>12 DEF LaunchStep, StepOuts, AddDep
  <1>14. \A c \in StepOuts : chunks[c].ep = 0
    BY DEF LaunchStep, StepOuts, StepChunks, Readable
  <1>15. ASSUME NEW c \in DOMAIN chunks
         PROVE  /\ chunks'[c] \in Chunk
                /\ chunks'[c].hal = chunks[c].hal /\ chunks'[c].tmp = chunks[c].tmp
                /\ chunks'[c].ep = chunks[c].ep
                /\ c \notin StepOuts => chunks'[c] = chunks[c]
                /\ c \in StepOuts => chunks'[c].want = n
                /\ chunks'[c].pending =
                     IF c \in StepOuts /\ AddDep(c) THEN chunks[c].pending \cup {n} ELSE chunks[c].pending
    <2>1. chunks[c] \in Chunk
      BY <1>6
    <2>2. CASE c \notin StepOuts
      BY <1>13, <2>1, <2>2
    <2>3. CASE c \in StepOuts /\ AddDep(c)
      <3>1. chunks'[c] = AddReadDependency(c, n)
        BY <1>13, <2>3
      <3>2. QED
        BY <1>12, <1>14, <2>1, <2>3, <3>1, DependencyAdded
    <2>4. CASE c \in StepOuts /\ ~AddDep(c)
      <3>1. chunks'[c] = [chunks[c] EXCEPT !.want = n]
        BY <1>13, <2>4
      <3>2. QED
        BY <1>12, <2>1, <2>4, <3>1 DEF Chunk
    <2>5. QED
      BY <2>2, <2>3, <2>4
  <1>16. DOMAIN chunks' = DOMAIN chunks /\ chunks' \in [DOMAIN chunks -> Chunk]
    <2>1. DOMAIN chunks' = DOMAIN chunks /\ chunks' = [c \in DOMAIN chunks |-> chunks'[c]]
      BY <1>13
    <2>2. QED
      BY <1>15, <2>1
  <1>17. req' = [req EXCEPT !.step = @ + 1,
                            !.event = Append(@, n),
                            !.want = [i \in DOMAIN @ |-> IF i \in Step.outs THEN n ELSE @[i]],
                            !.terminal = Terminal(n)]
    BY <1>12 DEF LaunchStep
  <1>18. /\ req'.step = req.step + 1 /\ req'.event = Append(req.event, n) /\ req'.call = req.call
         /\ req'.alloc = req.alloc /\ req'.terminal = Terminal(n)
         /\ req'.want = [i \in DOMAIN req.want |-> IF i \in Step.outs THEN n ELSE req.want[i]]
         /\ req' \in Request
    <2>1. Terminal(n) \subseteq 1..MaxEvents
      BY <1>4, <1>12 DEF Terminal
    <2>2. [i \in DOMAIN req.want |-> IF i \in Step.outs THEN n ELSE req.want[i]] \in Seq(Values)
      <3>1. DOMAIN req.want = 1..Len(req.want) /\ Len(req.want) \in Nat
        BY <1>4
      <3>2. \A i \in 1..Len(req.want) : (IF i \in Step.outs THEN n ELSE req.want[i]) \in Values
        BY <1>4, <1>12
      <3>3. QED
        BY <3>1, <3>2
    <2>3. Append(req.event, n) \in Seq(1..MaxEvents) /\ req.step + 1 \in Nat
      BY <1>4, <1>12
    <2>4. QED
      BY <1>2, <1>17, <2>1, <2>2, <2>3 DEF Request
  <1>19. Len(req'.event) = Len(req.event) + 1 /\ Len(req'.want) = Len(req.want)
    BY <1>4, <1>18
  <1>20. ReqEvents' = ReqEvents \cup {n} /\ ReqChunks' = ReqChunks
    <2>1. ReqChunks' = ReqChunks
      BY <1>18 DEF ReqChunks
    <2>2. Len(req.event) \in Nat /\ DOMAIN req.event = 1..Len(req.event)
      BY <1>4
    <2>3. \A k \in DOMAIN req.event : k \in DOMAIN req'.event /\ req'.event[k] = req.event[k]
      BY <1>4, <1>18
    <2>4. /\ Len(req.event) + 1 \in DOMAIN req'.event /\ req'.event[Len(req.event) + 1] = n
          /\ \A k \in DOMAIN req'.event : k \in DOMAIN req.event \/ k = Len(req.event) + 1
      BY <1>4, <1>18
    <2>5. QED
      BY <2>1, <2>3, <2>4 DEF ReqEvents
  <1>21. Touches(n)' \subseteq Mem(ReqChunks)
    BY <1>9, <1>10, <1>12 DEF Touches, Mem
  <1>22. \A c \in DOMAIN chunks :
            /\ chunks'[c].hal = chunks[c].hal /\ chunks'[c].tmp = chunks[c].tmp
            /\ chunks'[c].ep = chunks[c].ep
            /\ c \notin StepOuts => chunks'[c] = chunks[c]
            /\ c \in StepOuts => chunks'[c].want = n
            /\ chunks'[c].pending =
                 IF c \in StepOuts /\ AddDep(c) THEN chunks[c].pending \cup {n} ELSE chunks[c].pending
    BY <1>15
  <1>23. TakesStep(n)
    BY <1>6, <1>7, <1>9, <1>10, <1>11, <1>16, <1>18, <1>19, <1>20, <1>21, <1>22 DEF TakesStep
  <1>24. QED
    BY <1>23

LEMMA LaunchStepMemory ==
    ASSUME MInv, LaunchStep
    PROVE  MInv'
  <1>1. PICK n \in Nat : TakesStep(n)
    BY StepTaken
  <1>2. /\ ~Idle /\ req.step \in 1..Len(req.call.steps) /\ req.call \in Calls
        /\ req.alloc \in Seq(ChunkIds)
    BY CurrentStep DEF LaunchStep, Request
  <1>3. /\ Len(req.alloc) = Len(req.call.allocs) /\ Len(req.want) = Len(req.call.allocs)
        /\ req.step = Len(req.event) + 1
        /\ Len(events) + Len(req.call.steps) + 1 - req.step <= MaxEvents
    BY <1>2 DEF MInv, TypeInv, ReqTyped
  <1>4. UNCHANGED <<bufs, cache, mem, shims, maps, views, runs>>
    BY DEF LaunchStep
  <1>5. /\ Added(n, StepEvent)
        /\ req' \in Request /\ req'.call = req.call /\ req'.alloc = req.alloc
        /\ req'.step = req.step + 1
        /\ Len(req'.event) = Len(req.event) + 1 /\ Len(req'.want) = Len(req.want)
        /\ DOMAIN chunks' = DOMAIN chunks
        /\ \A c \in DOMAIN chunks : chunks'[c].hal = chunks[c].hal /\ chunks'[c].tmp = chunks[c].tmp
    BY <1>1 DEF TakesStep
  <1>6. TypeInv'
    <2>1. Len(events') = Len(events) + 1 /\ events' \in Seq(Event) /\ Len(events') <= MaxEvents
      BY <1>5 DEF Added
    <2>2. Len(events) \in Nat /\ Len(req.call.steps) \in Nat /\ req.step \in Nat
      BY <1>2, RuntimeAssumption DEF MInv, TypeInv
    <2>3. Len(events') + Len(req'.call.steps) + 1 - req'.step <= MaxEvents
      <3>1. Len(events) + 1 + Len(req.call.steps) + 1 - (req.step + 1) <= MaxEvents
        <4>1. 1 <= req.step /\ req.step <= Len(req.call.steps)
          BY <1>2, <2>2
        <4>2. QED
          BY <1>3, <2>2, <4>1, Bounds, EventRoom
      <3>2. QED
        BY <1>5, <2>1, <3>1
    <2>4. req'.step = Len(req'.event) + 1 /\ req'.step <= Len(req'.call.steps) + 1
      BY <1>2, <1>3, <1>5, <2>2
    <2>5. Len(req'.alloc) = Len(req'.call.allocs) /\ Len(req'.want) = Len(req'.call.allocs)
      BY <1>3, <1>5
    <2>6. ReqTyped'
      BY <1>5, <2>3, <2>4, <2>5 DEF ReqTyped
    <2>7. DOMAIN chunks' \subseteq ChunkIds /\ chunks' \in [DOMAIN chunks' -> Chunk]
      BY <1>1 DEF TakesStep, MInv, TypeInv
    <2>8. QED
      BY <1>4, <2>1, <2>6, <2>7 DEF MInv, TypeInv
  <1>7. RefInv'
    BY <1>4, <1>5 DEF MInv, RefInv, Referenced
  <1>8. PastInv'
    <2>1. \A c \in DOMAIN chunks' :
             c \in DOMAIN chunks /\ chunks'[c].pending \subseteq chunks[c].pending \cup {n}
      BY <1>1 DEF TakesStep
    <2>2. /\ StepEvent.st = "waiting" /\ StepEvent.deps \subseteq DOMAIN events
          /\ ReqEvents' \subseteq ReqEvents \cup {n}
      BY <1>1 DEF TakesStep
    <2>3. QED
      BY <1>5, <2>1, <2>2, AddedPast DEF MInv
  <1>9. OwnerInv'
    <2>1. \A c, d \in DOMAIN chunks' : chunks'[c].hal = chunks'[d].hal => c = d
      BY <1>5 DEF MInv, OwnerInv
    <2>2. cache' \cap Mem(DOMAIN chunks)' = {}
      BY <1>4, <1>5 DEF MInv, OwnerInv, Mem
    <2>3. QED
      BY <2>1, <2>2 DEF OwnerInv
  <1>10. KeepInv'
    <2>1. NoneDangles
      BY OwnersRefer DEF MInv
    <2>2. \A b \in Bufs : Bound(b)' => ~chunks'[bufs'[b]].tmp
      BY <1>4, <1>5, <2>1 DEF NoneDangles, MInv, KeepInv, Bound
    <2>3. \A i \in DOMAIN req'.alloc : req'.call.allocs[i].out # NoBuf => ~chunks'[req'.alloc[i]].tmp
      BY <1>5, <2>1 DEF NoneDangles, ReqChunks, MInv, KeepInv
    <2>4. \A v \in maps' \cup views' : ~chunks'[v.chunk].tmp
      BY <1>4, <1>5, <2>1 DEF NoneDangles, MInv, KeepInv
    <2>5. QED
      BY <2>2, <2>3, <2>4 DEF KeepInv
  <1>11. QED
    BY <1>6, <1>7, <1>8, <1>9, <1>10 DEF MInv

LEMMA LaunchStepStep ==
    ASSUME RInv, LaunchStep
    PROVE  RInv'
  <1>1. MInv /\ MInv'
    BY MemoryPart, LaunchStepMemory
  <1>2. PICK n \in Nat : TakesStep(n)
    BY <1>1, StepTaken
  <1>3. UNCHANGED <<cache, shims>>
    BY DEF LaunchStep
  <1>4. /\ n \notin DOMAIN events /\ DOMAIN events' = DOMAIN events \cup {n}
        /\ \A x \in DOMAIN events : events'[x] = events[x]
        /\ Busy' = Busy \cup {n} /\ Busy \subseteq DOMAIN events
        /\ \A e \in Busy : Touches(e)' = Touches(e)
        /\ \A e, T : e \in Busy /\ Covered(events, e, T) => Covered(events', e, T)
        /\ events'[n] = StepEvent
    BY <1>2 DEF TakesStep, Added
  <1>5. /\ events'[n].deps = CurrentDeps /\ events'[n].st = "waiting" /\ events'[n].kernel
        /\ Touches(n)' \subseteq Mem(ReqChunks)
        /\ ReqChunks \subseteq DOMAIN chunks /\ CurrentDeps \subseteq DOMAIN events
        /\ req'.terminal = Terminal(n) /\ ReqChunks' = ReqChunks
        /\ DOMAIN chunks' = DOMAIN chunks
        /\ \A c \in DOMAIN chunks :
              /\ chunks'[c].hal = chunks[c].hal /\ chunks'[c].tmp = chunks[c].tmp
              /\ chunks'[c].ep = chunks[c].ep
    BY <1>2, <1>4 DEF TakesStep
  <1>6. PoisonInv'
    BY <1>5 DEF RInv, PoisonInv
  <1>7. HeldInv'
    <2> SUFFICES ASSUME NEW e \in Busy', events'[e].kernel
                 PROVE  \/ Held(e, ReqChunks, req.terminal)'
                        \/ \E s \in shims' : Held(e, s.chunks, s.terminal)'
      BY DEF HeldInv
    <2>1. CASE e = n
      <3>1. Covered(events', n, Terminal(n))
        <4>1. n \in Terminal(n)
          BY <1>4, <1>5 DEF Terminal
        <4>2. n \in Unfinished(events')
          BY <1>4, <1>5 DEF Unfinished
        <4>3. {n} \in SUBSET Unfinished(events') /\ n \in {n} /\ \A x \in {n} : x \in Terminal(n)
          BY <4>1, <4>2
        <4>4. QED
          BY <4>3 DEF Covered
      <3>2. Touches(e)' \subseteq {chunks'[c].hal : c \in ReqChunks}
        BY <2>1, <1>5 DEF Mem
      <3>3. QED
        BY <2>1, <3>1, <3>2, <1>5 DEF Held, Mem
    <2>2. CASE e # n /\ Held(e, ReqChunks, req.terminal)
      <3>1. e \in Busy
        BY <2>2, <1>4
      <3>2. PICK E \in SUBSET Unfinished(events) :
               e \in E /\ \A x \in E : x \in req.terminal \/ \E y \in E : x \in events[y].deps
        BY <2>2 DEF Held, Covered
      <3> DEFINE E2 == E \cup {n}
      <3>3. E2 \in SUBSET Unfinished(events')
        BY <1>4, <1>5 DEF Unfinished
      <3>4. ASSUME NEW x \in E2, x \notin Terminal(n)
            PROVE  \E y \in E2 : x \in events'[y].deps
        <4>1. x \in E
          BY <1>4, <1>5, <3>4 DEF Terminal
        <4>2. CASE x \in req.terminal
          <5>1. x \in events'[n].deps
            BY <4>2, <3>4, <1>5 DEF Terminal
          <5>2. QED
            BY <5>1
        <4>3. CASE x \notin req.terminal
          <5>1. PICK y \in E : x \in events[y].deps
            BY <4>1, <4>3, <3>2
          <5>2. events'[y] = events[y]
            BY <1>4 DEF Unfinished
          <5>3. QED
            BY <5>1, <5>2
        <4>4. QED
          BY <4>2, <4>3
      <3>5. e \in E2
        BY <3>2
      <3> HIDE DEF E2
      <3>6. Covered(events', e, Terminal(n))
        BY <3>3, <3>4, <3>5 DEF Covered
      <3>7. Touches(e)' \subseteq {chunks'[c].hal : c \in ReqChunks}
        BY <2>2, <3>1, <1>4, <1>5 DEF Held, Mem
      <3>8. QED
        BY <3>6, <3>7, <1>5 DEF Held, Mem
    <2>3. CASE e # n /\ \E s \in shims : Held(e, s.chunks, s.terminal)
      <3>1. PICK s \in shims : Held(e, s.chunks, s.terminal)
        BY <2>3
      <3>2. e \in Busy /\ s.chunks \subseteq DOMAIN chunks
        BY <2>3, <1>4, OwnersRefer DEF NoneDangles, RInv
      <3>3. Touches(e)' \subseteq {chunks'[c].hal : c \in s.chunks}
        BY <3>1, <3>2, <1>4, <1>5 DEF Held, Mem
      <3>4. Covered(events', e, s.terminal)
        BY <3>1, <3>2, <1>4 DEF Held
      <3>5. QED
        BY <1>3, <3>3, <3>4 DEF Held, Mem
    <2>4. e # n => e \in Busy /\ events[e].kernel
      BY <1>4
    <2>5. QED
      BY <2>1, <2>2, <2>3, <2>4 DEF RInv, HeldInv
  <1>8. HalInv'
    <2>1. cache' \cap InUse' = {}
      BY <1>3, <1>4, <1>5 DEF RInv, HalInv, OwnerInv, Mem, InUse
    <2>2. QED
      BY <1>1, <2>1 DEF HalInv, MInv
  <1>9. TmpInv'
    <2>1. \A e \in Busy' : ~events'[e].kernel =>
            \A c \in DOMAIN chunks' : chunks'[c].hal \in Touches(e)' => ~chunks'[c].tmp
      BY <1>4, <1>5 DEF RInv, TmpInv
    <2>2. QED
      BY <1>1, <2>1 DEF TmpInv, MInv
  <1>10. QED
    BY <1>1, <1>6, <1>7, <1>8, <1>9 DEF RInv, MInv

\* The last alloc of an output is an alloc that is bound to it.
LEMMA LastAllocBound ==
    ASSUME MInv, ~Idle, NEW b \in Outputs(req.call)
    PROVE  LastAlloc(b) \in DOMAIN req.alloc /\ req.call.allocs[LastAlloc(b)].out = b
  <1> DEFINE bound == {i \in DOMAIN req.alloc : req.call.allocs[i].out = b}
  <1>1. /\ Len(req.alloc) = Len(req.call.allocs)
        /\ req.call.allocs \in Seq(Alloc) /\ req.alloc \in Seq(ChunkIds)
    BY RuntimeAssumption DEF MInv, TypeInv, ReqTyped, Request
  <1>2. PICK i \in DOMAIN req.call.allocs : req.call.allocs[i].out = b
    BY DEF Outputs
  <1>3. Len(req.alloc) \in Nat /\ bound \in SUBSET (1..Len(req.alloc)) /\ bound # {}
    BY <1>1, <1>2
  <1>4. LastAlloc(b) = CHOOSE x \in bound : \A y \in bound : y <= x
    BY DEF LastAlloc
  <1> HIDE DEF bound
  <1>5. \E x \in bound : \A y \in bound : y <= x
    BY <1>3, GreatestElement
  <1>6. LastAlloc(b) \in bound
    BY <1>4, <1>5
  <1>7. QED
    BY <1>6 DEF bound

\* The shim of the run holds what the request held.
LEMMA LaunchSucceedsMemory ==
    ASSUME MInv, LaunchSucceeds
    PROVE  MInv'
  <1> DEFINE shim == [chunks |-> ReqChunks, terminal |-> req.terminal]
             refs == Referenced(bufs', NoReq, shims', maps, views)
  <1>1. /\ ~Idle /\ req' = NoReq /\ shims' = shims \cup {shim} /\ DropTo(chunks, refs)
        /\ bufs' = [b \in Bufs |-> IF b \in Outputs(req.call) THEN req.alloc[LastAlloc(b)] ELSE bufs[b]]
        /\ UNCHANGED <<events, mem, maps, views, runs>>
    BY DEF LaunchSucceeds, KeepShim, ReqChunks
  <1>2. /\ req \in Request /\ Len(req.alloc) = Len(req.call.allocs)
        /\ req.call.allocs \in Seq(Alloc) /\ req.alloc \in Seq(ChunkIds)
        /\ req.terminal \subseteq 1..MaxEvents
    BY <1>1, RuntimeAssumption DEF MInv, TypeInv, ReqTyped, Request
  <1>3. NoneDangles
    BY OwnersRefer DEF MInv
  <1>4. ASSUME NEW b \in Outputs(req.call)
        PROVE  /\ req.alloc[LastAlloc(b)] \in ReqChunks
               /\ ~chunks[req.alloc[LastAlloc(b)]].tmp
    <2>1. b # NoBuf
      BY DEF Outputs
    <2>2. LastAlloc(b) \in DOMAIN req.alloc /\ req.call.allocs[LastAlloc(b)].out = b
      BY <1>1, LastAllocBound
    <2>3. QED
      BY <2>1, <2>2 DEF ReqChunks, MInv, KeepInv
  <1>5. \A b \in Bufs : bufs'[b] # NoChunk =>
           bufs'[b] \in DOMAIN chunks /\ ~chunks[bufs'[b]].tmp
    BY <1>1, <1>3, <1>4 DEF NoneDangles, Bound, MInv, KeepInv
  <1>6. shim \in Shim /\ shim.chunks = ReqChunks /\ shim.terminal = req.terminal
    <2>1. ReqChunks \subseteq ChunkIds
      BY <1>2 DEF ReqChunks
    <2>2. QED
      BY <1>2, <2>1 DEF Shim
  <1> HIDE DEF shim
  <1>7. refs \subseteq DOMAIN chunks
    <2>1. \A s \in shims' : s.chunks \subseteq DOMAIN chunks
      BY <1>1, <1>3, <1>6 DEF NoneDangles
    <2>2. DOMAIN NoReq.alloc = {}
      BY DEF NoReq
    <2>3. QED
      BY <1>3, <1>5, <2>1, <2>2 DEF Referenced, NoneDangles
  <1>8. refs = Referenced(bufs', req', shims', maps', views')
    BY <1>1
  <1> HIDE DEF refs
  <1>9. RefInv' /\ \A c \in DOMAIN chunks' : c \in DOMAIN chunks /\ chunks'[c] = chunks[c]
    BY <1>1, <1>7, <1>8, DropRefers
  <1>10. TypeInv'
    <2>1. DOMAIN chunks' \subseteq ChunkIds /\ chunks' \in [DOMAIN chunks' -> Chunk] /\ cache' \subseteq Hals
      BY <1>1, DropTypes DEF MInv, TypeInv
    <2>2. bufs' \in [Bufs -> ChunkIds \cup {NoChunk}]
      BY <1>1, <1>2, <1>4 DEF MInv, TypeInv, ReqChunks
    <2>3. ReqTyped'
      BY <1>1 DEF ReqTyped, Idle
    <2>4. shims' \subseteq Shim
      BY <1>1, <1>6 DEF MInv, TypeInv
    <2>5. QED
      BY <1>1, <2>1, <2>2, <2>3, <2>4 DEF MInv, TypeInv
  <1>11. NoneDangles'
    BY <1>9, <1>10, OwnersRefer, PTL
  <1>12. /\ Busy' = Busy /\ Finished' = Finished
         /\ \A e \in DOMAIN events : Touches(e)' = Touches(e)
    BY <1>1 DEF Busy, Finished, Touches
  <1>13. PastInv'
    <2>1. ReqEvents' = {}
      BY <1>1 DEF ReqEvents, NoReq
    <2>2. QED
      BY <1>1, <1>9, <1>12, <2>1 DEF MInv, PastInv
  <1>14. OwnerInv'
    BY <1>1, DropKeepsOwners DEF MInv
  <1>15. KeepInv'
    <2>1. \A b \in Bufs : Bound(b)' => ~chunks'[bufs'[b]].tmp
      BY <1>5, <1>9, <1>11 DEF NoneDangles, Bound
    <2>2. DOMAIN req'.alloc = {}
      BY <1>1 DEF NoReq
    <2>3. \A v \in maps' \cup views' : ~chunks'[v.chunk].tmp
      BY <1>1, <1>9, <1>11 DEF NoneDangles, MInv, KeepInv
    <2>4. QED
      BY <2>1, <2>2, <2>3 DEF KeepInv
  <1>16. QED
    BY <1>9, <1>10, <1>13, <1>14, <1>15 DEF MInv

\* The shim of the run holds what the request held.
LEMMA LaunchSucceedsStep ==
    ASSUME RInv, LaunchSucceeds
    PROVE  RInv'
  <1> DEFINE shim == [chunks |-> ReqChunks, terminal |-> req.terminal]
             refs == Referenced(bufs', NoReq, shims', maps, views)
  <1>1. MInv'
    BY MemoryPart, LaunchSucceedsMemory
  <1>2. /\ shims' = shims \cup {shim} /\ DropTo(chunks, refs) /\ UNCHANGED events
        /\ shim.chunks = ReqChunks /\ shim.terminal = req.terminal
    BY DEF LaunchSucceeds, KeepShim, ReqChunks
  <1> HIDE DEF shim, refs
  <1>3. \A c \in DOMAIN chunks' : c \in DOMAIN chunks /\ chunks'[c] = chunks[c]
    BY <1>2 DEF DropTo
  <1>4. /\ Busy' = Busy /\ \A e \in DOMAIN events : Touches(e)' = Touches(e)
    BY <1>2 DEF Busy, Finished, Touches
  <1>5. PoisonInv'
    BY <1>3 DEF RInv, PoisonInv
  <1>6. HeldInv'
    <2> SUFFICES ASSUME NEW e \in Busy, events[e].kernel
                 PROVE  \E s \in shims' : Held(e, s.chunks, s.terminal)'
      BY <1>2, <1>4 DEF HeldInv
    <2>1. PICK s \in shims' : Held(e, s.chunks, s.terminal)
      <3>1. CASE Held(e, ReqChunks, req.terminal)
        BY <3>1, <1>2
      <3>2. CASE \E s \in shims : Held(e, s.chunks, s.terminal)
        BY <3>2, <1>2
      <3>3. QED
        BY <3>1, <3>2 DEF RInv, HeldInv
    <2>2. s.chunks \subseteq DOMAIN chunks' /\ Touches(e)' = Touches(e)
      <3>1. NoneDangles'
        BY <1>1, OwnersReferMemory
      <3>2. QED
        BY <1>4, <3>1 DEF NoneDangles, Busy
    <2>3. Touches(e)' \subseteq {chunks'[c].hal : c \in s.chunks}
      BY <1>3, <2>1, <2>2 DEF Held, Mem
    <2>4. Covered(events', e, s.terminal)
      BY <1>2, <2>1 DEF Held
    <2>5. QED
      BY <2>3, <2>4 DEF Held, Mem
  <1>7. HalInv'
    <2>1. cache \cap InUse' = {}
      BY <1>4 DEF RInv, HalInv, InUse, Busy
    <2>2. \A e \in Busy' : ~events'[e].kernel =>
              \A c \in DOMAIN chunks : chunks[c].hal \in Touches(e)' => ~chunks[c].tmp
      BY <1>2, <1>4 DEF RInv, TmpInv, Busy
    <2>3. QED
      BY <1>1, <1>2, <1>6, <2>1, <2>2, DropKeepsHalInv DEF RInv, MInv
  <1>8. TmpInv'
    <2>1. \A e \in Busy' : ~events'[e].kernel =>
            \A c \in DOMAIN chunks' : chunks'[c].hal \in Touches(e)' => ~chunks'[c].tmp
      BY <1>2, <1>3, <1>4 DEF RInv, TmpInv, Busy
    <2>2. QED
      BY <1>1, <2>1 DEF TmpInv, MInv
  <1>9. QED
    BY <1>1, <1>5, <1>6, <1>7, <1>8 DEF RInv, MInv

\* A launch that is refused poisons its chunks, and its request lets go of them.
Poisons(cs) ==
    /\ cs \in [DOMAIN chunks -> Chunk]
    /\ DropTo(cs, Referenced(bufs, NoReq, shims, maps, views))
    /\ \A c \in DOMAIN chunks :
          /\ cs[c].hal = chunks[c].hal /\ cs[c].tmp = chunks[c].tmp
          /\ cs[c].pending = chunks[c].pending /\ cs[c].want = chunks[c].want
          /\ c \notin ReqChunks => cs[c] = chunks[c]
          /\ runs > 0 /\ c \in ReqChunks => cs[c].ep # 0

LEMMA LaunchPoisons ==
    ASSUME MInv, LaunchFails
    PROVE  \E cs : Poisons(cs)
  <1>1. /\ ~Idle /\ StepChunks \subseteq ReqChunks /\ runs \in 0..MaxRuns
    BY CurrentStep DEF LaunchFails, MInv, TypeInv
  <1>2. ReqChunks \subseteq DOMAIN chunks /\ \A c \in DOMAIN chunks : chunks[c] \in Chunk
    BY OwnersRefer DEF NoneDangles, MInv, TypeInv
  <1> DEFINE poisoned == {c \in StepChunks : ~Readable(chunks[c])}
             cs(ep) == [c \in DOMAIN chunks |-> IF c \in ReqChunks THEN Poison(c, ep) ELSE chunks[c]]
  <1>3. PICK ep \in {chunks[c].ep : c \in poisoned} \cup (IF MayFailLaunch THEN {runs} ELSE {}) :
          DropTo(cs(ep), Referenced(bufs, NoReq, shims, maps, views))
    BY DEF LaunchFails, ReqChunks
  <1>4. ep \in 0..MaxRuns /\ (runs > 0 => ep # 0)
    BY <1>1, <1>2, <1>3 DEF Chunk, Readable
  <1>5. ASSUME NEW c \in DOMAIN chunks
        PROVE  /\ cs(ep)[c] \in Chunk
               /\ cs(ep)[c].hal = chunks[c].hal /\ cs(ep)[c].tmp = chunks[c].tmp
               /\ cs(ep)[c].pending = chunks[c].pending /\ cs(ep)[c].want = chunks[c].want
               /\ c \notin ReqChunks => cs(ep)[c] = chunks[c]
               /\ runs > 0 /\ c \in ReqChunks => cs(ep)[c].ep # 0
    BY <1>2, <1>4 DEF Chunk, Poison
  <1>6. cs(ep) \in [DOMAIN chunks -> Chunk]
    BY <1>5
  <1>7. Poisons(cs(ep))
    BY <1>3, <1>5, <1>6 DEF Poisons
  <1>8. QED
    BY <1>7

LEMMA LaunchFailsMemory ==
    ASSUME MInv, LaunchFails
    PROVE  MInv'
  <1> DEFINE refs == Referenced(bufs, NoReq, shims, maps, views)
  <1>1. PICK cs : Poisons(cs)
    BY LaunchPoisons
  <1>2. req' = NoReq /\ UNCHANGED <<bufs, events, mem, shims, maps, views, runs>>
    BY DEF LaunchFails
  <1>3. DOMAIN cs = DOMAIN chunks /\ cs \in [DOMAIN chunks -> Chunk] /\ DropTo(cs, refs)
    BY <1>1 DEF Poisons
  <1>4. refs \subseteq DOMAIN chunks
    BY DEF MInv, RefInv, Referenced, NoReq
  <1>5. refs = Referenced(bufs', req', shims', maps', views')
    BY <1>2
  <1> HIDE DEF refs
  <1>6. RefInv' /\ \A c \in DOMAIN chunks' : c \in DOMAIN chunks /\ chunks'[c] = cs[c]
    BY <1>3, <1>4, <1>5, DropRefers
  <1>7. \A c \in DOMAIN chunks' :
           c \in DOMAIN chunks /\ chunks'[c].tmp = chunks[c].tmp /\ chunks'[c].pending = chunks[c].pending
    BY <1>1, <1>6 DEF Poisons
  <1>8. TypeInv'
    <2>1. DOMAIN chunks' \subseteq ChunkIds /\ chunks' \in [DOMAIN chunks' -> Chunk] /\ cache' \subseteq Hals
      BY <1>3, DropTypes DEF MInv
    <2>2. ReqTyped'
      BY <1>2 DEF ReqTyped, Idle
    <2>3. QED
      BY <1>2, <2>1, <2>2 DEF MInv, TypeInv
  <1>9. NoneDangles'
    BY <1>6, <1>8, OwnersRefer, PTL
  <1>10. PastInv'
    <2>1. ReqEvents' = {} /\ Finished' = Finished /\ \A e \in DOMAIN events : Touches(e)' = Touches(e)
      BY <1>2 DEF ReqEvents, NoReq, Finished, Touches
    <2>2. QED
      BY <1>2, <1>7, <2>1 DEF MInv, PastInv
  <1>11. OwnerInv'
    <2>1. \A c \in DOMAIN chunks : cs[c].hal = chunks[c].hal
      BY <1>1 DEF Poisons
    <2>2. QED
      BY <1>3, <2>1, DropKeepsOwners DEF MInv
  <1>12. KeepInv'
    <2>1. \A b \in Bufs : Bound(b)' => ~chunks'[bufs'[b]].tmp
      BY <1>2, <1>7, <1>9 DEF NoneDangles, Bound, MInv, KeepInv
    <2>2. DOMAIN req'.alloc = {}
      BY <1>2 DEF NoReq
    <2>3. \A v \in maps' \cup views' : ~chunks'[v.chunk].tmp
      BY <1>2, <1>7, <1>9 DEF NoneDangles, MInv, KeepInv
    <2>4. QED
      BY <2>1, <2>2, <2>3 DEF KeepInv
  <1>13. QED
    BY <1>6, <1>8, <1>10, <1>11, <1>12 DEF MInv

-----------------------------------------------------------------------------
(* The invariant *)

LEMMA RInit ==
    ASSUME RtInit
    PROVE  RInv
  <1>1. Busy = {} /\ Finished = {} /\ DOMAIN chunks = {} /\ Idle
        /\ ReqEvents = {} /\ DOMAIN req.alloc = {}
    BY DEF RtInit, Busy, Finished, Idle, NoReq, ReqEvents
  <1>2. TypeInv
    <2>1. mem \in [Hals -> Values]
      BY Bounds DEF RtInit, Values, None, Torn
    <2>2. chunks \in [DOMAIN chunks -> Chunk] /\ events \in Seq(Event) /\ Len(events) <= MaxEvents
      BY Bounds DEF RtInit
    <2>3. QED
      BY <1>1, <2>1, <2>2, Bounds DEF RtInit, TypeInv, ReqTyped
  <1>3. RefInv
    BY <1>1 DEF RtInit, RefInv, Referenced
  <1>4. PoisonInv /\ PastInv /\ HeldInv /\ HalInv
    BY <1>1 DEF RtInit, PoisonInv, PastInv, HeldInv, HalInv, OwnerInv, Mem, InUse
  <1>5. TmpInv
    BY <1>1 DEF RtInit, TmpInv, KeepInv, Bound
  <1>6. QED
    BY <1>2, <1>3, <1>4, <1>5 DEF RInv

LEMMA MStep ==
    ASSUME MInv, [RtNext]_rtVars
    PROVE  MInv'
  <1>1. CASE ClientNext
    BY <1>1, StartRunMemory, LaunchStepMemory, LaunchFailsMemory, LaunchSucceedsMemory, MapCurrentMemory,
       MapDiscardMemory, FreeBufferMemory, HostWritesMemory, WriteBackMemory DEF ClientNext
  <1>2. CASE Continuation
    BY <1>2, ReleaseShimMemory, MapReadyMemory, MapFailsMemory DEF Continuation
  <1>3. CASE DeviceNext
    BY <1>3, StartEventMemory, FinishEventMemory, FailEventMemory DEF DeviceNext
  <1>4. CASE UNCHANGED rtVars
    <2> USE <1>4 DEF rtVars
    <2>1. TypeInv'
      BY DEF MInv, TypeInv, ReqTyped, Idle
    <2>2. RefInv'
      BY DEF MInv, RefInv, Referenced
    <2>3. PastInv' /\ OwnerInv'
      BY MappingMemory
    <2>4. KeepInv'
      BY DEF MInv, KeepInv, Bound
    <2>5. QED
      BY <2>1, <2>2, <2>3, <2>4 DEF MInv
  <1>5. QED
    BY <1>1, <1>2, <1>3, <1>4 DEF RtNext

LEMMA RStep ==
    ASSUME RInv, ~MayFailLaunch, [RtNext]_rtVars
    PROVE  RInv'
  <1>1. CASE ClientNext
    BY <1>1, StartRunStep, LaunchStepStep, LaunchFailsStep, LaunchSucceedsStep, MapCurrentStep,
       MapDiscardStep, FreeBufferStep, HostWritesStep, WriteBackStep DEF ClientNext
  <1>2. CASE Continuation
    BY <1>2, ReleaseShimStep, MapReadyStep, MapFailsStep DEF Continuation
  <1>3. CASE DeviceNext
    BY <1>3, StartEventStep, FinishEventStep, FailEventStep DEF DeviceNext
  <1>4. CASE UNCHANGED rtVars
    <2>1. MInv'
      BY MemoryPart, MStep
    <2>2. QED
      BY <1>4, <2>1, MemoryKept DEF rtVars
  <1>5. QED
    BY <1>1, <1>2, <1>3, <1>4 DEF RtNext

LEMMA MemoryInvariant ==
    RtSpec => []MInv
  <1>1. RtInit => MInv
    BY RInit, MemoryPart
  <1>2. MInv /\ [RtNext]_rtVars => MInv'
    BY MStep
  <1>3. QED
    BY <1>1, <1>2, PTL DEF RtSpec

LEMMA RuntimeInvariant ==
    ~MayFailLaunch => (RtSpec => []RInv)
  <1> SUFFICES ASSUME ~MayFailLaunch PROVE RtSpec => []RInv
    OBVIOUS
  <1>1. RtInit => RInv
    BY RInit
  <1>2. RInv /\ [RtNext]_rtVars => RInv'
    BY RStep
  <1>3. QED
    BY <1>1, <1>2, PTL DEF RtSpec

\* hal.h:160-163, for any programs and any interleaving of the device with the application
\* and with the continuations: the memory that a kernel reads or writes belongs to a chunk
\* that somebody refers to for as long as the kernel is on the device.
THEOREM KernelsKeepTheirMemory ==
    ~MayFailLaunch => (RtSpec => []KernelMemoryHeld)
  <1>1. RInv => KernelMemoryHeld
    BY KernelMemory DEF RInv
  <1>2. QED
    BY <1>1, RuntimeInvariant, PTL

\* Whether or not launches are refused, two chunks never share a piece of memory, and
\* MemCache keeps none that belongs to a chunk.
THEOREM MemoryIsNotShared ==
    RtSpec => []OwnerInv
  <1>1. MInv => OwnerInv
    BY DEF MInv
  <1>2. QED
    BY <1>1, MemoryInvariant, PTL

\* MemCache hands memory out twice to nobody: two chunks never share a piece of memory,
\* and what is in the cache belongs to no chunk and is used by no operation.
THEOREM MemoryHasOneOwner ==
    ~MayFailLaunch => (RtSpec => []HalInv)
  <1>1. RInv => HalInv
    BY DEF RInv
  <1>2. QED
    BY <1>1, RuntimeInvariant, PTL
=============================================================================
