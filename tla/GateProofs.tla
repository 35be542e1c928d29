----------------------------- MODULE GateProofs -----------------------------
(***************************************************************************)
(* The gate finalizes exactly once and only when it is quiescent, for any  *)
(* finite number of rundowns and any number of closers.                    *)
(*                                                                         *)
(* SingleFinalization is not inductive: two threads may set the promise,   *)
(* and what keeps them apart is that the one that does has seen the count  *)
(* at zero, that the count is the number of rundowns still inside, and     *)
(* that nothing enters after the gate has closed.  IInv says so.           *)
(***************************************************************************)
EXTENDS Gate, FiniteSetTheorems, TLAPS

\* The threads that have seen the count at zero and will set the promise.
ClosingSetters == {c \in Closers : pc[c] = "signal"}
LastSetters == {r \in Rundowns : st[r] = "last"}

\* The thread that won Close() and has not run its second critical section.
Calling == {c \in Closers : pc[c] = "calling"}

\* While the gate is open its list is exactly what is inside and nobody closes.
OpenInv ==
    isOpen => /\ rundowns = Inside
              /\ ~closeComplete
              /\ todo = {}
              /\ promised = 0
              /\ LastSetters = {}
              /\ \A r \in Rundowns : st[r] # "waiting"
              /\ \A c \in Closers : pc[c] = "idle"

\* After that the count is the number of rundowns inside, whatever they do.
CountInv == ~isOpen => remaining = Cardinality(Inside)

\* Until the second critical section there is one closer that calls back, and every
\* callback left is for a rundown inside.
CallingInv ==
    /\ todo \subseteq Inside
    /\ closeComplete => todo = {} /\ Calling = {}
    /\ ~isOpen /\ ~closeComplete =>
          /\ \A c, d \in Calling : c = d
          /\ ClosingSetters = {} /\ LastSetters = {} /\ promised = 0

\* Whoever sets the promise is alone, and the gate is empty by then.
SetterInv ==
    /\ (ClosingSetters # {} \/ LastSetters # {} \/ promised > 0) =>
          closeComplete /\ Inside = {}
    /\ \A c, d \in ClosingSetters : c = d
    /\ \A r, s \in LastSetters : r = s
    /\ ClosingSetters = {} \/ LastSetters = {}
    /\ ClosingSetters # {} \/ LastSetters # {} => promised = 0
    /\ promised <= 1

IInv ==
    /\ TypeOK
    /\ OpenInv
    /\ closeComplete => ~isOpen
    /\ CountInv
    /\ CallingInv
    /\ SetterInv

-----------------------------------------------------------------------------
\* The rundowns inside are finitely many, so that their number is a natural number
\* and is zero exactly when there is none.
LEMMA InsideFinite ==
    /\ IsFiniteSet(Inside)
    /\ Cardinality(Inside) \in Nat
    /\ Cardinality(Inside) = 0 <=> Inside = {}
  <1>1. Inside \subseteq Rundowns
    BY DEF Inside
  <1>2. IsFiniteSet(Inside)
    BY <1>1, GateAssumption, FS_Subset
  <1>3. QED
    BY <1>2, FS_CardinalityType, FS_EmptySet

\* What a leaving rundown does to the count.
LEMMA InsideMinusOne ==
    ASSUME NEW r \in Inside
    PROVE  /\ Cardinality(Inside \ {r}) = Cardinality(Inside) - 1
           /\ IsFiniteSet(Inside \ {r})
           /\ Cardinality(Inside \ {r}) \in Nat
           /\ Cardinality(Inside \ {r}) = 0 <=> Inside \ {r} = {}
  BY InsideFinite, FS_RemoveElement, FS_CardinalityType, FS_EmptySet

\* The initial state satisfies the inductive invariant.
LEMMA InitInv == Init => IInv
  <1> SUFFICES ASSUME Init PROVE IInv
    OBVIOUS
  <1>1. Inside = {}
    BY DEF Init, Inside
  <1>2. TypeOK
    BY DEF Init, TypeOK, RundownState, CloserState
  <1>3. OpenInv
    BY <1>1 DEF Init, OpenInv, LastSetters
  <1>4. CallingInv
    BY DEF Init, CallingInv, Inside
  <1>5. SetterInv
    BY DEF Init, SetterInv, ClosingSetters, LastSetters
  <1>6. QED
    BY <1>2, <1>3, <1>4, <1>5 DEF IInv, CountInv, Init

\* TryEnterGate: the list gains the rundown, or the gate is closed and nothing moves.
LEMMA EnterInv ==
    ASSUME IInv, NEW r \in Rundowns, TryEnterGate(r)
    PROVE  IInv'
  <1> USE DEF IInv, TryEnterGate
  <1>1. TypeOK'
    BY DEF TypeOK, RundownState
  <1>2. CASE isOpen
    <2>1. Inside' = Inside \cup {r} /\ LastSetters' = LastSetters
      BY <1>2 DEF Inside, LastSetters, TypeOK
    <2>2. ClosingSetters' = ClosingSetters /\ Calling' = Calling
      BY DEF ClosingSetters, Calling
    <2>3. OpenInv'
      BY <1>2, <2>1 DEF OpenInv, TypeOK
    <2>4. ClosingSetters = {} /\ LastSetters = {} /\ promised = 0
      BY <1>2 DEF OpenInv, ClosingSetters
    <2>5. CountInv' /\ CallingInv' /\ SetterInv'
      BY <1>2, <2>1, <2>2, <2>4 DEF OpenInv, CountInv, CallingInv, SetterInv
    <2>6. QED
      BY <1>1, <1>2, <2>3, <2>5
  <1>3. CASE ~isOpen
    <2>1. Inside' = Inside /\ LastSetters' = LastSetters
      BY <1>3 DEF Inside, LastSetters, TypeOK
    <2>2. ClosingSetters' = ClosingSetters /\ Calling' = Calling
      BY DEF ClosingSetters, Calling
    <2>3. QED
      BY <1>1, <1>3, <2>1, <2>2 DEF OpenInv, CountInv, CallingInv, SetterInv
  <1>4. QED
    BY <1>2, <1>3

\* A rundown that leaves an open gate takes its own entry off the list.
LEMMA RemoveWhileOpenInv ==
    ASSUME IInv, NEW r \in Rundowns, RemoveWhileOpen(r)
    PROVE  IInv'
  <1> USE DEF IInv, RemoveWhileOpen
  <1>1. TypeOK'
    BY DEF TypeOK, RundownState
  <1>2. Inside' = Inside \ {r} /\ LastSetters' = LastSetters
    BY DEF Inside, LastSetters, TypeOK
  <1>3. ClosingSetters' = ClosingSetters /\ Calling' = Calling
    BY DEF ClosingSetters, Calling
  <1>4. OpenInv'
    BY <1>2 DEF OpenInv, TypeOK
  <1>5. ClosingSetters = {} /\ LastSetters = {} /\ promised = 0
    BY DEF OpenInv, ClosingSetters
  <1>6. QED
    BY <1>1, <1>2, <1>3, <1>4, <1>5 DEF OpenInv, CountInv, CallingInv, SetterInv

\* A rundown that has to wait stays inside.
LEMMA RemoveBlocksInv ==
    ASSUME IInv, NEW r \in Rundowns, RemoveBlocks(r)
    PROVE  IInv'
  <1> USE DEF IInv, RemoveBlocks
  <1>1. TypeOK'
    BY DEF TypeOK, RundownState
  <1>2. Inside' = Inside /\ LastSetters' = LastSetters
    BY DEF Inside, LastSetters, TypeOK
  <1>3. ClosingSetters' = ClosingSetters /\ Calling' = Calling
    BY DEF ClosingSetters, Calling
  <1>4. QED
    BY <1>1, <1>2, <1>3 DEF OpenInv, CountInv, CallingInv, SetterInv

\* The rundown that takes the count to zero is the last one inside, and nobody has
\* set the promise or is about to.
LEMMA RemoveResumesInv ==
    ASSUME IInv, NEW r \in Rundowns, RemoveResumes(r)
    PROVE  IInv'
  <1> USE DEF IInv, RemoveResumes
  <1>1. r \in Inside /\ ~isOpen
    BY DEF Inside
  <1>2. remaining = Cardinality(Inside) /\ remaining \in Nat
    BY <1>1 DEF CountInv, TypeOK
  <1>3. TypeOK'
    BY <1>2 DEF TypeOK, RundownState
  <1>4. Inside' = Inside \ {r}
    BY DEF Inside, TypeOK
  <1>5. CountInv'
    BY <1>1, <1>2, <1>4, InsideMinusOne DEF CountInv
  <1>6. ClosingSetters = {} /\ LastSetters = {} /\ promised = 0
    BY <1>1 DEF SetterInv, TypeOK
  <1>7. ClosingSetters' = {} /\ Calling' = Calling
    BY <1>6 DEF ClosingSetters, Calling
  <1>8. /\ \A p, q \in LastSetters' : p = q
        /\ LastSetters' # {} => Inside' = {}
    <2>1. CASE remaining = 1
      <3>1. LastSetters' = {r}
        BY <1>6, <2>1 DEF LastSetters, TypeOK
      <3>2. Cardinality(Inside \ {r}) = 0
        BY <1>1, <1>2, <2>1, InsideMinusOne
      <3>3. Inside' = {}
        BY <1>1, <1>4, <3>2, InsideMinusOne
      <3>4. QED
        BY <3>1, <3>3
    <2>2. CASE remaining # 1
      <3>1. LastSetters' = {}
        BY <1>6, <2>2 DEF LastSetters, TypeOK
      <3>2. QED
        BY <3>1
    <2>3. QED
      BY <2>1, <2>2
  <1>9. SetterInv'
    BY <1>6, <1>7, <1>8 DEF SetterInv
  <1>10. CallingInv'
    BY <1>4, <1>7 DEF CallingInv
  <1>11. QED
    BY <1>1, <1>3, <1>5, <1>9, <1>10 DEF OpenInv

\* The rundown that sets the promise finds it unset.
LEMMA RemoveFinalizesInv ==
    ASSUME IInv, NEW r \in Rundowns, RemoveFinalizes(r)
    PROVE  IInv'
  <1> USE DEF IInv, RemoveFinalizes
  <1>1. r \in LastSetters
    BY DEF LastSetters
  <1>2. closeComplete /\ ~isOpen /\ Inside = {} /\ ClosingSetters = {} /\ promised = 0
    BY <1>1 DEF SetterInv
  <1>3. TypeOK'
    BY DEF TypeOK, RundownState
  <1>4. Inside' = Inside
    BY DEF Inside, TypeOK
  <1>5. LastSetters' = {}
    BY <1>1 DEF LastSetters, TypeOK, SetterInv
  <1>6. ClosingSetters' = ClosingSetters /\ Calling' = Calling
    BY DEF ClosingSetters, Calling
  <1>7. SetterInv'
    BY <1>2, <1>4, <1>5, <1>6 DEF SetterInv
  <1>8. QED
    BY <1>2, <1>3, <1>4, <1>6, <1>7 DEF OpenInv, CountInv, CallingInv

\* The closer that wins takes the list, which is exactly what is inside.
LEMMA CloseBeginsInv ==
    ASSUME IInv, NEW c \in Closers, CloseBegins(c)
    PROVE  IInv'
  <1> USE DEF IInv, CloseBegins
  <1>1. rundowns = Inside /\ promised = 0 /\ LastSetters = {} /\ ~closeComplete
    BY DEF OpenInv
  <1>2. Inside' = Inside /\ LastSetters' = LastSetters
    BY DEF Inside, LastSetters
  <1>3. Calling' = {c} /\ ClosingSetters' = {}
    BY DEF OpenInv, Calling, ClosingSetters, TypeOK
  <1>4. TypeOK'
    BY <1>1, InsideFinite DEF TypeOK, CloserState
  <1>5. CountInv'
    BY <1>1, <1>2 DEF CountInv
  <1>6. CallingInv'
    BY <1>1, <1>2, <1>3 DEF CallingInv
  <1>7. SetterInv'
    BY <1>1, <1>2, <1>3 DEF SetterInv
  <1>8. QED
    BY <1>1, <1>4, <1>5, <1>6, <1>7 DEF OpenInv

\* A second Close() and a callback leave every set of the invariant alone.
LEMMA CloseAgainInv ==
    ASSUME IInv, NEW c \in Closers, CloseAgain(c)
    PROVE  IInv'
  <1> USE DEF IInv, CloseAgain
  <1>1. TypeOK'
    BY DEF TypeOK, CloserState
  <1>2. Inside' = Inside /\ LastSetters' = LastSetters
    BY DEF Inside, LastSetters
  <1>3. ClosingSetters' = ClosingSetters /\ Calling' = Calling
    BY DEF ClosingSetters, Calling, TypeOK
  <1>4. QED
    BY <1>1, <1>2, <1>3 DEF OpenInv, CountInv, CallingInv, SetterInv

LEMMA CloseCallsInv ==
    ASSUME IInv, NEW c \in Closers, NEW r \in Rundowns, CloseCalls(c, r)
    PROVE  IInv'
  <1> USE DEF IInv, CloseCalls
  <1>1. TypeOK'
    BY DEF TypeOK
  <1>2. Inside' = Inside /\ LastSetters' = LastSetters
    BY DEF Inside, LastSetters
  <1>3. ClosingSetters' = ClosingSetters /\ Calling' = Calling
    BY DEF ClosingSetters, Calling
  <1>4. QED
    BY <1>1, <1>2, <1>3 DEF OpenInv, CountInv, CallingInv, SetterInv

\* The closer becomes a setter only if the gate is empty already.
LEMMA CloseCompletesInv ==
    ASSUME IInv, NEW c \in Closers, CloseCompletes(c)
    PROVE  IInv'
  <1> USE DEF IInv, CloseCompletes
  <1>1. c \in Calling /\ ~isOpen
    BY DEF Calling, OpenInv
  <1>2. ~closeComplete /\ ClosingSetters = {} /\ LastSetters = {} /\ promised = 0
    BY <1>1 DEF CallingInv
  <1>3. TypeOK'
    BY DEF TypeOK, CloserState
  <1>4. Inside' = Inside /\ LastSetters' = {}
    BY <1>2 DEF Inside, LastSetters
  <1>5. Calling' = {}
    BY <1>1, <1>2 DEF Calling, CallingInv, TypeOK
  <1>6. /\ ClosingSetters' \subseteq {c}
        /\ ClosingSetters' # {} => remaining = 0
    BY <1>2 DEF ClosingSetters, TypeOK
  <1>7. remaining = 0 => Inside = {}
    BY <1>1, InsideFinite DEF CountInv
  <1>8. SetterInv'
    BY <1>2, <1>4, <1>6, <1>7 DEF SetterInv
  <1>9. CallingInv'
    BY <1>4, <1>5 DEF CallingInv
  <1>10. QED
    BY <1>1, <1>3, <1>4, <1>8, <1>9 DEF OpenInv, CountInv

LEMMA CloseFinalizesInv ==
    ASSUME IInv, NEW c \in Closers, CloseFinalizes(c)
    PROVE  IInv'
  <1> USE DEF IInv, CloseFinalizes
  <1>1. c \in ClosingSetters
    BY DEF ClosingSetters
  <1>2. closeComplete /\ ~isOpen /\ Inside = {} /\ LastSetters = {} /\ promised = 0
    BY <1>1 DEF SetterInv
  <1>3. TypeOK'
    BY DEF TypeOK, CloserState
  <1>4. Inside' = Inside /\ LastSetters' = LastSetters
    BY DEF Inside, LastSetters
  <1>5. ClosingSetters' = {}
    BY <1>1 DEF ClosingSetters, SetterInv, TypeOK
  <1>6. Calling' = Calling
    BY DEF Calling, TypeOK
  <1>7. SetterInv'
    BY <1>2, <1>4, <1>5 DEF SetterInv
  <1>8. QED
    BY <1>2, <1>3, <1>4, <1>6, <1>7 DEF OpenInv, CountInv, CallingInv

\* Every step of the gate preserves the inductive invariant.
LEMMA StepInv == IInv /\ [Next]_vars => IInv'
  <1> SUFFICES ASSUME IInv, [Next]_vars PROVE IInv'
    OBVIOUS
  <1>1. ASSUME NEW r \in Rundowns, RundownStep(r) PROVE IInv'
    BY <1>1, EnterInv, RemoveWhileOpenInv, RemoveBlocksInv, RemoveResumesInv,
       RemoveFinalizesInv DEF RundownStep
  <1>2. ASSUME NEW c \in Closers, CloserStep(c) PROVE IInv'
    BY <1>2, CloseBeginsInv, CloseAgainInv, CloseCallsInv, CloseCompletesInv,
       CloseFinalizesInv DEF CloserStep
  <1>3. CASE UNCHANGED vars
    BY <1>3 DEF vars, IInv, TypeOK, OpenInv, CountInv, CallingInv, SetterInv,
       Inside, ClosingSetters, LastSetters, Calling
  <1>4. QED
    BY <1>1, <1>2, <1>3 DEF Next

\* The inductive invariant holds in every reachable state.
LEMMA Invariant == Spec => []IInv
  BY InitInv, StepInv, PTL DEF Spec

-----------------------------------------------------------------------------
\* Type correctness of the gate's state.
THEOREM TypeCorrect == Spec => []TypeOK
  <1>1. IInv => TypeOK
    BY DEF IInv
  <1>2. QED
    BY Invariant, <1>1, PTL

\* The promise of a gate is set at most once, whatever the interleaving of closers
\* and leaving rundowns.
THEOREM GateFinalizesOnce == Spec => []SingleFinalization
  <1>1. IInv => SingleFinalization
    BY DEF IInv, SetterInv, SingleFinalization
  <1>2. QED
    BY Invariant, <1>1, PTL

\* A ready future means that nothing is inside the gate, no destructor is blocked and
\* no callback is left to run.
THEOREM GateFinalizesQuiescent == Spec => []FinalizedIsQuiescent
  <1>1. IInv => FinalizedIsQuiescent
    BY DEF IInv, SetterInv, CallingInv, FinalizedIsQuiescent
  <1>2. QED
    BY Invariant, <1>1, PTL

\* The LOG(FATAL) of RemoveRundown is unreachable.
THEOREM GateNeverOverDereferenced == Spec => []NoOverDereference
  <1>1. IInv => NoOverDereference
    <2> SUFFICES ASSUME IInv, NEW r \in Rundowns, st[r] = "waiting", closeComplete
                 PROVE  remaining > 0
      BY DEF NoOverDereference
    <2>1. r \in Inside
      BY DEF Inside
    <2>2. remaining = Cardinality(Inside)
      BY DEF IInv, CountInv
    <2>3. QED
      BY <2>1, <2>2, InsideFinite
  <1>2. QED
    BY Invariant, <1>1, PTL

\* The gate is the Open -> Closed -> Finalized machine of its class comment: every
\* step maps to a step of AbstractGate or to a stutter.
THEOREM GateImplements == Spec => ImplementsAbstractGate
  <1>1. Init => Abs!AbsInit
    BY DEF Init, Abs!AbsInit, phase, Inside
  <1>2. IInv /\ [Next]_vars => [Abs!AbsNext]_(Abs!absVars)
    <2> SUFFICES ASSUME IInv, [Next]_vars
                 PROVE  Abs!AbsNext \/ UNCHANGED <<phase, Inside>>
      BY DEF Abs!absVars
    <2> USE DEF IInv
    <2>1. ASSUME NEW r \in Rundowns, TryEnterGate(r)
          PROVE  Abs!AbsNext \/ UNCHANGED <<phase, Inside>>
      <3>1. CASE isOpen
        <4>1. phase = "open" /\ phase' = "open" /\ r \notin Inside
          BY <2>1, <3>1 DEF phase, OpenInv, Inside, TryEnterGate
        <4>2. Inside' = Inside \cup {r}
          BY <2>1, <3>1 DEF Inside, TypeOK, TryEnterGate
        <4>3. QED
          BY <4>1, <4>2 DEF Abs!AbsNext, Abs!AbsEnter
      <3>2. CASE ~isOpen
        BY <2>1, <3>2 DEF phase, Inside, TypeOK, TryEnterGate
      <3>3. QED
        BY <3>1, <3>2
    <2>2. ASSUME NEW r \in Rundowns, RemoveWhileOpen(r) \/ RemoveResumes(r)
          PROVE  Abs!AbsNext
      <3>1. r \in Inside /\ Inside' = Inside \ {r}
        BY <2>2 DEF Inside, TypeOK, RemoveWhileOpen, RemoveResumes
      <3>2. UNCHANGED phase
        BY <2>2 DEF phase, RemoveWhileOpen, RemoveResumes
      <3>3. QED
        BY <3>1, <3>2 DEF Abs!AbsNext, Abs!AbsLeave
    <2>3. ASSUME NEW r \in Rundowns, RemoveBlocks(r)
          PROVE  UNCHANGED <<phase, Inside>>
      BY <2>3 DEF phase, Inside, TypeOK, RemoveBlocks
    <2>4. ASSUME NEW r \in Rundowns, RemoveFinalizes(r)
          PROVE  Abs!AbsNext
      <3>1. r \in LastSetters
        BY <2>4 DEF LastSetters, RemoveFinalizes
      <3>2. Inside = {} /\ promised = 0 /\ ~isOpen
        BY <3>1 DEF SetterInv
      <3>3. Inside' = {}
        BY <2>4, <3>2 DEF Inside, RemoveFinalizes, TypeOK
      <3>4. phase = "closed" /\ phase' = "finalized"
        BY <2>4, <3>2 DEF phase, RemoveFinalizes
      <3>5. QED
        BY <3>2, <3>3, <3>4 DEF Abs!AbsNext, Abs!AbsFinalize
    <2>5. ASSUME NEW c \in Closers, CloseBegins(c)
          PROVE  Abs!AbsNext
      <3>1. phase = "open" /\ phase' = "closed" /\ UNCHANGED Inside
        BY <2>5 DEF phase, Inside, CloseBegins, OpenInv
      <3>2. QED
        BY <3>1 DEF Abs!AbsNext, Abs!AbsClose
    <2>6. ASSUME NEW c \in Closers,
                 CloseAgain(c) \/ (\E r \in Rundowns : CloseCalls(c, r)) \/ CloseCompletes(c)
          PROVE  UNCHANGED <<phase, Inside>>
      BY <2>6 DEF phase, Inside, CloseAgain, CloseCalls, CloseCompletes
    <2>7. ASSUME NEW c \in Closers, CloseFinalizes(c)
          PROVE  Abs!AbsNext
      <3>1. c \in ClosingSetters
        BY <2>7 DEF ClosingSetters, CloseFinalizes
      <3>2. Inside = {} /\ promised = 0 /\ ~isOpen
        BY <3>1 DEF SetterInv
      <3>3. phase = "closed" /\ phase' = "finalized" /\ UNCHANGED Inside
        BY <2>7, <3>2 DEF phase, Inside, CloseFinalizes
      <3>4. QED
        BY <3>2, <3>3 DEF Abs!AbsNext, Abs!AbsFinalize
    <2>8. CASE UNCHANGED vars
      BY <2>8 DEF vars, phase, Inside
    <2>9. QED
      BY <2>1, <2>2, <2>3, <2>4, <2>5, <2>6, <2>7, <2>8
         DEF Next, RundownStep, CloserStep
  <1>3. QED
    BY <1>1, <1>2, Invariant, PTL DEF Spec, ImplementsAbstractGate, Abs!AbsSpec

\* A callback is pending only for a rundown that is alive.
THEOREM GateCallbacksLive == Spec => []CallbackTargetsLive
  <1>1. IInv => CallbackTargetsLive
    BY DEF IInv, CallingInv, CallbackTargetsLive, Inside
  <1>2. QED
    BY Invariant, <1>1, PTL
=============================================================================
