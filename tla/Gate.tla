-------------------------------- MODULE Gate --------------------------------
(***************************************************************************)
(* vertexai::context::Gate and Rundown (base/context/gate.{h,cc}).         *)
(*                                                                         *)
(* A Rundown is an operation that keeps the gate from being finalized; it  *)
(* may own a callback to run if the gate closes while it is inside.  Every *)
(* critical section of Gate::mu_ is one action; the callbacks run between  *)
(* two critical sections of Close(), without the mutex, and a rundown that *)
(* is destroyed meanwhile waits on the condition variable.                 *)
(***************************************************************************)
EXTENDS Naturals, FiniteSets

CONSTANTS Rundowns,      \* Rundown objects; each enters at most one gate, once
          Closers        \* threads that call Close()

ASSUME GateAssumption ==
    /\ IsFiniteSet(Rundowns)
    /\ IsFiniteSet(Closers)

VARIABLES
    isOpen,         \* is_open_
    rundowns,       \* rundowns_: the list, as a set (its order is not observable)
    remaining,      \* rundowns_remaining_
    closeComplete,  \* close_complete_
    promised,       \* how often finalized_prom_.set_value() has run
    st,             \* what each Rundown is doing
    pc,             \* where each closer is
    todo            \* Close()'s local list: rundowns not yet notified

vars == <<isOpen, rundowns, remaining, closeComplete, promised, st, pc, todo>>

\* "out"      not in a gate yet
\* "in"       TryEnterGate succeeded, the operation is running
\* "waiting"  its destructor is blocked in RemoveRundown on cv_
\* "last"     its destructor took the count to zero and will set the promise
\* "gone"     destroyed
\* "refused"  TryEnterGate threw Cancelled
RundownState == {"out", "in", "waiting", "last", "gone", "refused"}

\* "idle"     has not called Close()
\* "calling"  running the callbacks, mutex not held
\* "signal"   found the count at zero and will set the promise
\* "done"     Close() has returned
CloserState == {"idle", "calling", "signal", "done"}

TypeOK ==
    /\ isOpen \in BOOLEAN
    /\ rundowns \subseteq Rundowns
    /\ remaining \in Nat
    /\ closeComplete \in BOOLEAN
    /\ promised \in Nat
    /\ st \in [Rundowns -> RundownState]
    /\ pc \in [Closers -> CloserState]
    /\ todo \subseteq Rundowns

Init ==
    /\ isOpen = TRUE
    /\ rundowns = {}
    /\ remaining = 0
    /\ closeComplete = FALSE
    /\ promised = 0
    /\ st = [r \in Rundowns |-> "out"]
    /\ pc = [c \in Closers |-> "idle"]
    /\ todo = {}

-----------------------------------------------------------------------------
(* Mutant: the rundown enters without a test of is_open_. *)
TryEnterUnchecked(r) ==
    /\ st[r] = "out"
    /\ rundowns' = rundowns \cup {r}
    /\ st' = [st EXCEPT ![r] = "in"]
    /\ UNCHANGED <<isOpen, remaining, closeComplete, promised, pc, todo>>

(* Rundown::TryEnterGate -> Gate::TryAddRundown *)
TryEnterGate(r) ==
    /\ st[r] = "out"
    /\ IF isOpen
       THEN /\ rundowns' = rundowns \cup {r}
            /\ st' = [st EXCEPT ![r] = "in"]
       ELSE /\ st' = [st EXCEPT ![r] = "refused"]
            /\ UNCHANGED rundowns
    /\ UNCHANGED <<isOpen, remaining, closeComplete, promised, pc, todo>>

(* Mutant: the open path takes the rundown off the count, too. *)
RemoveWhileOpenCounts(r) ==
    /\ st[r] = "in"
    /\ isOpen
    /\ rundowns' = rundowns \ {r}
    /\ remaining' = remaining - 1
    /\ st' = [st EXCEPT ![r] = "gone"]
    /\ UNCHANGED <<isOpen, closeComplete, promised, pc, todo>>

(* Mutant: the path of an open gate is taken without looking at is_open_. *)
RemoveUnchecked(r) ==
    /\ st[r] = "in"
    /\ rundowns' = rundowns \ {r}
    /\ st' = [st EXCEPT ![r] = "gone"]
    /\ UNCHANGED <<isOpen, remaining, closeComplete, promised, pc, todo>>

(* Rundown::~Rundown -> Gate::RemoveRundown, the path of an open gate *)
RemoveWhileOpen(r) ==
    /\ st[r] = "in"
    /\ isOpen
    /\ rundowns' = rundowns \ {r}
    /\ st' = [st EXCEPT ![r] = "gone"]
    /\ UNCHANGED <<isOpen, remaining, closeComplete, promised, pc, todo>>

(* Gate::RemoveRundown on a closed gate: cv_.wait releases the mutex ... *)
RemoveBlocks(r) ==
    /\ st[r] = "in"
    /\ ~isOpen
    /\ st' = [st EXCEPT ![r] = "waiting"]
    /\ UNCHANGED <<isOpen, rundowns, remaining, closeComplete, promised, pc, todo>>

(* ... until close_complete_, and only then takes the rundown off the count *)
RemoveResumes(r) ==
    /\ st[r] = "waiting"
    /\ closeComplete
    /\ remaining > 0                    \* else LOG(FATAL), see NoOverDereference
    /\ remaining' = remaining - 1
    /\ st' = [st EXCEPT ![r] = IF remaining = 1 THEN "last" ELSE "gone"]
    /\ UNCHANGED <<isOpen, rundowns, closeComplete, promised, pc, todo>>

(* RemoveRundown's tail, after the mutex has been dropped *)
RemoveFinalizes(r) ==
    /\ st[r] = "last"
    /\ promised' = promised + 1
    /\ st' = [st EXCEPT ![r] = "gone"]
    /\ UNCHANGED <<isOpen, rundowns, remaining, closeComplete, pc, todo>>

-----------------------------------------------------------------------------
(* Gate::Close, first critical section: the winner takes the whole list *)
CloseBegins(c) ==
    /\ pc[c] = "idle"
    /\ isOpen
    /\ isOpen' = FALSE
    /\ todo' = rundowns
    /\ rundowns' = {}
    /\ remaining' = Cardinality(rundowns)
    /\ pc' = [pc EXCEPT ![c] = "calling"]
    /\ UNCHANGED <<closeComplete, promised, st>>

(* Gate::Close on a gate that is closed already: returns the same future *)
CloseAgain(c) ==
    /\ pc[c] = "idle"
    /\ ~isOpen
    /\ pc' = [pc EXCEPT ![c] = "done"]
    /\ UNCHANGED <<isOpen, rundowns, remaining, closeComplete, promised, st, todo>>

(* Gate::Close, one turn of the loop that runs OnClose (of an entry that has a
   callback), mutex not held *)
CloseCalls(c, r) ==
    /\ pc[c] = "calling"
    /\ r \in todo
    /\ todo' = todo \ {r}
    /\ UNCHANGED <<isOpen, rundowns, remaining, closeComplete, promised, st, pc>>

(* Mutant: the closer leaves the promise to the rundowns, even if there is none. *)
CloseNeverSignals(c) ==
    /\ pc[c] = "calling"
    /\ todo = {}
    /\ closeComplete' = TRUE
    /\ pc' = [pc EXCEPT ![c] = "done"]
    /\ UNCHANGED <<isOpen, rundowns, remaining, promised, st, todo>>

(* Gate::Close, second critical section and notify_all *)
CloseCompletes(c) ==
    /\ pc[c] = "calling"
    /\ todo = {}
    /\ closeComplete' = TRUE
    /\ pc' = [pc EXCEPT ![c] = IF remaining = 0 THEN "signal" ELSE "done"]
    /\ UNCHANGED <<isOpen, rundowns, remaining, promised, st, todo>>

(* Gate::Close, tail *)
CloseFinalizes(c) ==
    /\ pc[c] = "signal"
    /\ promised' = promised + 1
    /\ pc' = [pc EXCEPT ![c] = "done"]
    /\ UNCHANGED <<isOpen, rundowns, remaining, closeComplete, st, todo>>

-----------------------------------------------------------------------------
RundownStep(r) ==
    \/ TryEnterGate(r)
    \/ RemoveWhileOpen(r)
    \/ RemoveBlocks(r)
    \/ RemoveResumes(r)
    \/ RemoveFinalizes(r)

CloserStep(c) ==
    \/ CloseBegins(c)
    \/ CloseAgain(c)
    \/ \E r \in Rundowns : CloseCalls(c, r)
    \/ CloseCompletes(c)
    \/ CloseFinalizes(c)

Next ==
    \/ \E r \in Rundowns : RundownStep(r)
    \/ \E c \in Closers : CloserStep(c)

Spec == Init /\ [][Next]_vars

-----------------------------------------------------------------------------
\* The rundowns that are inside the gate: they entered and are not off its books.
Inside == {r \in Rundowns : st[r] \in {"in", "waiting"}}

\* gate.cc:97-99: a rundown that wakes up must still be on the count; the
\* program aborts otherwise.
NoOverDereference ==
    \A r \in Rundowns : st[r] = "waiting" /\ closeComplete => remaining > 0

\* finalized_prom_ is set at most once (a second set_value throws in a noexcept
\* function), although the closer and every leaving rundown may be the one to set it.
SingleFinalization == promised <= 1

\* gate.h, "Finalized: no operations are using the gate": when the future is ready
\* no operation is inside, none is blocked in its destructor and no callback is left.
FinalizedIsQuiescent ==
    promised > 0 => Inside = {} /\ todo = {} /\ ~isOpen

\* gate.cc:86-95: a callback runs, or is still to run, only for a rundown whose
\* destructor has not returned, so what the callback captured is alive.
CallbackTargetsLive ==
    \A r \in todo : st[r] \in {"in", "waiting"}

\* The state machine of the class comment, with a gate counted as finalized when its
\* future is ready.
phase == IF promised > 0 THEN "finalized" ELSE IF isOpen THEN "open" ELSE "closed"

Abs == INSTANCE AbstractGate WITH inside <- Inside

\* The gate implements the abstract state machine Open -> Closed -> Finalized.
ImplementsAbstractGate == Abs!AbsSpec
=============================================================================
