------------------------------ MODULE MapBuffer ------------------------------
(***************************************************************************)
(* Asynchronous requests of the C API under a cancellable context:         *)
(* plaidml_map_buffer_current with its MapCompletion, and                  *)
(* plaidml_schedule_invocation (plaidml/plaidml.cc), against               *)
(* vai_cancel_ctx and vai_free_ctx (plaidml/base/context.cc).              *)
(*                                                                         *)
(* Every request owns a Rundown of the context's gate.  A map request has  *)
(* up to three threads that want to answer it: the caller, whose call may  *)
(* fail, the continuation of the buffer's future, and the thread that      *)
(* closes the gate.  The user's callback is called outside of every lock.  *)
(***************************************************************************)
EXTENDS Gate, Sequences

CONSTANTS MapRequests,   \* the requests that are plaidml_map_buffer_current;
                         \* the others are plaidml_schedule_invocation
          Freers         \* the closers that are vai_free_ctx

ASSUME MapBufferAssumption ==
    /\ MapRequests \subseteq Rundowns
    /\ Freers \subseteq Closers

VARIABLES
    api,        \* where the thread that made the request is
    cont,       \* where the continuation of the request's future is
    invoked,    \* MapCompletion::invoked_callback_
    results,    \* what the user's callback has been called with
    canceller,  \* the requests whose callback the closing thread is inside of
    freed       \* vai_free_ctx has returned

mapVars == <<api, cont, invoked, results, canceller, freed>>

\* "idle", "work" (entered the gate, calls into the buffer or the program),
\* "failed" (caught an exception), "calling" (inside the user's callback),
\* "leaving" (about to drop its reference), "done"
ApiState == {"idle", "work", "failed", "calling", "leaving", "done"}

\* "none", "pending" (the future is not ready), "mapped" / "error" (OnComplete and
\* OnException, before InvokeCallback's lock), "calling", "callingNull" (inside the
\* user's callback, with a mapping or without), "leaving", "done"
ContState == {"none", "pending", "mapped", "error", "calling", "callingNull", "leaving", "done"}

Result == {"mapping", "null"}

MapInit ==
    /\ Init
    /\ api = [r \in Rundowns |-> "idle"]
    /\ cont = [r \in Rundowns |-> "none"]
    /\ invoked = [r \in Rundowns |-> FALSE]
    /\ results = [r \in Rundowns |-> <<>>]
    /\ canceller = {}
    /\ freed = FALSE

Deliver(r, result) == results' = [results EXCEPT ![r] = Append(@, result)]

-----------------------------------------------------------------------------
(* The calling thread *)

\* rundown()->TryEnterGate(gate); a closed gate throws Cancelled
Request(r) ==
    /\ api[r] = "idle"
    /\ TryEnterGate(r)
    /\ api' = [api EXCEPT ![r] = IF isOpen THEN "work" ELSE "failed"]
    /\ UNCHANGED <<cont, invoked, results, canceller, freed>>

\* MapCurrent or Run returns a future; the continuation gets the reference to the
\* completion (to the rundown, for an invocation)
Launch(r) ==
    /\ api[r] = "work"
    /\ api' = [api EXCEPT ![r] = "leaving"]
    /\ cont' = [cont EXCEPT ![r] = "pending"]
    /\ UNCHANGED <<vars, invoked, results, canceller, freed>>

\* MapCurrent, MakeProgram or Run throws
LaunchThrows(r) ==
    /\ api[r] = "work"
    /\ api' = [api EXCEPT ![r] = "failed"]
    /\ UNCHANGED <<vars, cont, invoked, results, canceller, freed>>

\* Mutant: the catch clause of a refused request does not call back.
ApiFailsSilently(r) ==
    /\ api[r] = "failed"
    /\ api' = [api EXCEPT ![r] = "leaving"]
    /\ UNCHANGED <<vars, cont, invoked, results, canceller, freed>>

\* the catch clause: OnException -> InvokeCallback(nullptr), up to the end of its
\* critical section; an invocation has no callback
ApiFails(r) ==
    /\ api[r] = "failed"
    /\ IF r \in MapRequests /\ ~invoked[r]
       THEN /\ invoked' = [invoked EXCEPT ![r] = TRUE]
            /\ api' = [api EXCEPT ![r] = "calling"]
       ELSE /\ api' = [api EXCEPT ![r] = "leaving"]
            /\ UNCHANGED invoked
    /\ UNCHANGED <<vars, cont, results, canceller, freed>>

ApiCalls(r) ==
    /\ api[r] = "calling"
    /\ Deliver(r, "null")
    /\ api' = [api EXCEPT ![r] = "leaving"]
    /\ UNCHANGED <<vars, cont, invoked, canceller, freed>>

ApiLeaves(r) ==
    /\ api[r] = "leaving"
    /\ api' = [api EXCEPT ![r] = "done"]
    /\ UNCHANGED <<vars, cont, invoked, results, canceller, freed>>

-----------------------------------------------------------------------------
(* The continuation of the future *)

\* the future becomes ready, with a view or with an exception
Complete(r) ==
    /\ cont[r] = "pending"
    /\ \E s \in {"mapped", "error"} : cont' = [cont EXCEPT ![r] = s]
    /\ UNCHANGED <<vars, api, invoked, results, canceller, freed>>

\* Mutant: InvokeCallback sets invoked_callback_ without testing it.
ContClaimsAlways(r) ==
    /\ cont[r] \in {"mapped", "error"}
    /\ IF r \in MapRequests
       THEN /\ invoked' = [invoked EXCEPT ![r] = TRUE]
            /\ cont' = [cont EXCEPT ![r] = IF @ = "mapped" THEN "calling" ELSE "callingNull"]
       ELSE /\ cont' = [cont EXCEPT ![r] = "leaving"]
            /\ UNCHANGED invoked
    /\ UNCHANGED <<vars, api, results, canceller, freed>>

\* OnComplete or OnException -> InvokeCallback, up to the end of its critical section;
\* the continuation of an invocation only logs the exception
ContClaims(r) ==
    /\ cont[r] \in {"mapped", "error"}
    /\ IF r \in MapRequests /\ ~invoked[r]
       THEN /\ invoked' = [invoked EXCEPT ![r] = TRUE]
            /\ cont' = [cont EXCEPT ![r] = IF @ = "mapped" THEN "calling" ELSE "callingNull"]
       ELSE /\ cont' = [cont EXCEPT ![r] = "leaving"]
            /\ UNCHANGED invoked
    /\ UNCHANGED <<vars, api, results, canceller, freed>>

ContCalls(r) ==
    /\ cont[r] \in {"calling", "callingNull"}
    /\ Deliver(r, IF cont[r] = "calling" THEN "mapping" ELSE "null")
    /\ cont' = [cont EXCEPT ![r] = "leaving"]
    /\ UNCHANGED <<vars, api, invoked, canceller, freed>>

ContLeaves(r) ==
    /\ cont[r] = "leaving"
    /\ cont' = [cont EXCEPT ![r] = "done"]
    /\ UNCHANGED <<vars, api, invoked, results, canceller, freed>>

-----------------------------------------------------------------------------
(* ~MapCompletion -> ~Rundown, by whoever drops the last reference *)

\* Mutant: the continuation holds no reference.
UnreferencedByCaller(r) == api[r] = "done"

Unreferenced(r) == api[r] = "done" /\ cont[r] \in {"none", "done"}

Destroy(r) ==
    /\ Unreferenced(r)
    /\ RemoveWhileOpen(r) \/ RemoveBlocks(r)
    /\ UNCHANGED mapVars

DestroyEnds(r) ==
    /\ RemoveResumes(r) \/ RemoveFinalizes(r)
    /\ UNCHANGED mapVars

-----------------------------------------------------------------------------
(* vai_cancel_ctx and vai_free_ctx *)

CloseStep(c) ==
    /\ CloseBegins(c) \/ CloseAgain(c) \/ CloseCompletes(c) \/ CloseFinalizes(c)
    /\ UNCHANGED mapVars

\* Close() calls OnCancel of a map request -> InvokeCallback(nullptr): the critical
\* section, when the request has been answered already or has no callback
CancelLoses(c, r) ==
    /\ canceller = {}
    /\ r \notin MapRequests \/ invoked[r]
    /\ CloseCalls(c, r)
    /\ UNCHANGED mapVars

\* ... and when it has not
CancelClaims(c, r) ==
    /\ pc[c] = "calling"
    /\ r \in todo \cap MapRequests
    /\ canceller = {}
    /\ ~invoked[r]
    /\ invoked' = [invoked EXCEPT ![r] = TRUE]
    /\ canceller' = {r}
    /\ UNCHANGED <<vars, api, cont, results, freed>>

CancelCalls(c, r) ==
    /\ r \in canceller
    /\ CloseCalls(c, r)
    /\ Deliver(r, "null")
    /\ canceller' = {}
    /\ UNCHANGED <<api, cont, invoked, freed>>

\* Close().wait() returns and the context is deleted
FreeReturns(c) ==
    /\ c \in Freers
    /\ pc[c] = "done"
    /\ promised > 0
    /\ ~freed
    /\ freed' = TRUE
    /\ UNCHANGED <<vars, api, cont, invoked, results, canceller>>

-----------------------------------------------------------------------------
RequestStep(r) ==
    \/ Request(r) \/ Launch(r) \/ LaunchThrows(r) \/ ApiFails(r) \/ ApiCalls(r) \/ ApiLeaves(r)
    \/ Complete(r) \/ ContClaims(r) \/ ContCalls(r) \/ ContLeaves(r)
    \/ Destroy(r) \/ DestroyEnds(r)

CancelStep(c) ==
    \/ CloseStep(c)
    \/ \E r \in Rundowns : CancelLoses(c, r) \/ CancelClaims(c, r) \/ CancelCalls(c, r)
    \/ FreeReturns(c)

MapNext ==
    \/ \E r \in Rundowns : RequestStep(r)
    \/ \E c \in Closers : CancelStep(c)

MapSpec == MapInit /\ [][MapNext]_<<vars, mapVars>>

\* Threads that are inside the library keep running and the user's callback returns;
\* the device completes what it was given, so every future becomes ready.  Nobody has
\* to make a request or to close the context.
MapFairness ==
    /\ \A r \in Rundowns :
         /\ WF_<<vars, mapVars>>(\/ Launch(r) \/ LaunchThrows(r) \/ ApiFails(r)
                                 \/ ApiCalls(r) \/ ApiLeaves(r))
         /\ WF_<<vars, mapVars>>(Complete(r) \/ ContClaims(r) \/ ContCalls(r) \/ ContLeaves(r))
         /\ WF_<<vars, mapVars>>(Destroy(r) \/ DestroyEnds(r))
    /\ \A c \in Closers :
         WF_<<vars, mapVars>>(/\ pc[c] # "idle"
                              /\ CancelStep(c))

MapFairSpec == MapSpec /\ MapFairness

-----------------------------------------------------------------------------
\* A thread is about to call, or is inside, the user's callback for r.
InCallback(r) ==
    \/ api[r] = "calling"
    \/ cont[r] \in {"calling", "callingNull"}
    \/ r \in canceller

\* InvokeCallback's promise: the user's callback is called at most once for a map
\* request, whichever of the three threads gets there, and an invocation has none.
CallbackAtMostOnce ==
    \A r \in Rundowns :
        /\ Len(results[r]) <= 1
        /\ InCallback(r) => results[r] = <<>> /\ r \in MapRequests

\* When vai_free_ctx has returned, every map request that the gate admitted has been
\* answered, no thread is in a callback of the user, no future of an admitted request
\* is pending and no rundown of the context is left.
FreeQuiesces ==
    freed => /\ \A r \in Rundowns : st[r] \notin {"in", "waiting"}
             /\ \A r \in MapRequests : st[r] = "gone" => Len(results[r]) = 1
             /\ \A r \in Rundowns :
                  st[r] = "gone" => ~InCallback(r) /\ cont[r] \in {"none", "done"}

\* The comment on rundown_ ("should be the last member, so that it's the first
\* destroyed"): while the closing thread is in OnCancel of a request, or may still call
\* it, the destructor of its MapCompletion has not got past ~Rundown.
CancelTargetAlive ==
    \A r \in todo \cup canceller : st[r] \in {"in", "waiting"}

\* A map request that was made is answered: also one that was refused, one whose
\* future fails and one that is cancelled.
EveryRequestAnswered ==
    \A r \in MapRequests : (api[r] # "idle") ~> (Len(results[r]) = 1)

\* vai_free_ctx returns, if the callbacks of the user do.
FreeTerminates == \A c \in Freers : (pc[c] # "idle") ~> freed
=============================================================================
