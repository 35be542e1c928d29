--------------------------- MODULE MapBufferProofs ---------------------------
(***************************************************************************)
(* The user's callback is called at most once, and when the context is     *)
(* freed every admitted request has been answered, for any set of map      *)
(* requests and invocations and any number of threads that close the gate. *)
(*                                                                         *)
(* Every step of the requests is a step or a stutter of the gate, so all   *)
(* that GateProofs shows of the gate holds here.  What has to be added is  *)
(* who answers: the invariant counts, for each request, the threads that   *)
(* hold the claim to its callback, and relates where the caller and the    *)
(* continuation are to the state of the request's rundown.                 *)
(***************************************************************************)
EXTENDS MapBuffer, GateProofs

\* The types of what this module adds to the gate.
MapTypeInv ==
    /\ api \in [Rundowns -> ApiState]
    /\ cont \in [Rundowns -> ContState]
    /\ invoked \in [Rundowns -> BOOLEAN]
    /\ results \in [Rundowns -> Seq(Result)]
    /\ canceller \subseteq Rundowns
    /\ freed \in BOOLEAN

ApiCalling(r) == api[r] = "calling"
ContCalling(r) == cont[r] \in {"calling", "callingNull"}
Cancelling(r) == r \in canceller

\* invoked_callback_ is the claim: nobody is in the callback of a request that is not
\* claimed, and of the three threads at most one is in the callback of one that is; it
\* has been called when they are all out of it, once.
ClaimInv(r) ==
    /\ invoked[r] => r \in MapRequests
    /\ InCallback(r) => invoked[r] /\ results[r] = <<>>
    /\ ~(ApiCalling(r) /\ ContCalling(r))
    /\ ~(ApiCalling(r) /\ Cancelling(r))
    /\ ~(ContCalling(r) /\ Cancelling(r))
    /\ ~invoked[r] => results[r] = <<>>
    /\ invoked[r] /\ ~InCallback(r) => Len(results[r]) = 1

\* There is a continuation only after the caller has launched the request, and neither
\* of them leaves a map request that nobody has claimed.
OrderInv(r) ==
    /\ cont[r] # "none" => api[r] \in {"leaving", "done"}
    /\ r \in MapRequests /\ cont[r] \in {"leaving", "done"} => invoked[r]
    /\ r \in MapRequests /\ api[r] \in {"leaving", "done"} /\ cont[r] = "none" => invoked[r]

\* The rundown is left by the last reference to the request.
LastReferenceInv(r) ==
    st[r] \in {"waiting", "last", "gone"} => Unreferenced(r)

\* The closing thread is in one callback at a time, of a request that is still on its
\* list; the context is deleted after the gate's promise has been set.
CancelInv ==
    /\ canceller \subseteq todo
    /\ \A r, s \in canceller : r = s
    /\ freed => promised > 0

MapInv ==
    /\ MapTypeInv
    /\ \A r \in Rundowns : ClaimInv(r) /\ OrderInv(r) /\ LastReferenceInv(r)
    /\ CancelInv

-----------------------------------------------------------------------------
\* Every step of a request or of a closing thread is a step of the gate or leaves it
\* alone.
LEMMA GateStep == [MapNext]_<<vars, mapVars>> => [Next]_vars
  <1> SUFFICES ASSUME [MapNext]_<<vars, mapVars>> PROVE Next \/ UNCHANGED vars
    OBVIOUS
  <1>1. ASSUME NEW r \in Rundowns, RequestStep(r)
        PROVE  RundownStep(r) \/ UNCHANGED vars
    BY <1>1 DEF RequestStep, Request, Launch, LaunchThrows, ApiFails, ApiCalls, ApiLeaves,
       Complete, ContClaims, ContCalls, ContLeaves, Destroy, DestroyEnds, RundownStep
  <1>2. ASSUME NEW c \in Closers, CancelStep(c)
        PROVE  CloserStep(c) \/ UNCHANGED vars
    BY <1>2 DEF CancelStep, CloseStep, CancelLoses, CancelClaims, CancelCalls, FreeReturns,
       CloserStep
  <1>3. CASE UNCHANGED <<vars, mapVars>>
    BY <1>3
  <1>4. QED
    BY <1>1, <1>2, <1>3 DEF MapNext, Next

\* The requests use the gate as its specification says.
LEMMA UsesGate == MapSpec => Spec
  <1>1. MapInit => Init
    BY DEF MapInit
  <1>2. QED
    BY <1>1, GateStep, PTL DEF MapSpec, Spec

-----------------------------------------------------------------------------
\* The initial state: nobody has been asked for anything.
LEMMA MapInitInv == MapInit => MapInv
  <1> SUFFICES ASSUME MapInit PROVE MapInv
    OBVIOUS
  <1> USE DEF MapInit, Init
  <1>1. MapTypeInv
    <2>1. results \in [Rundowns -> Seq(Result)]
      <3>1. <<>> \in Seq(Result)
        OBVIOUS
      <3>2. QED
        BY <3>1
    <2>2. /\ api \in [Rundowns -> ApiState] /\ cont \in [Rundowns -> ContState]
          /\ invoked \in [Rundowns -> BOOLEAN]
      BY DEF ApiState, ContState
    <2>3. QED
      BY <2>1, <2>2 DEF MapTypeInv
  <1>2. CancelInv
    BY DEF CancelInv
  <1>3. ASSUME NEW r \in Rundowns
        PROVE  ClaimInv(r) /\ OrderInv(r) /\ LastReferenceInv(r)
    BY DEF ClaimInv, OrderInv, LastReferenceInv, ApiCalling, ContCalling, Cancelling,
       InCallback
  <1>4. QED
    BY <1>1, <1>2, <1>3 DEF MapInv

\* A step of request r leaves the other requests alone; what remains to be shown is r.
LEMMA Frame ==
    ASSUME MapInv, NEW r \in Rundowns,
           MapTypeInv', ClaimInv(r)', OrderInv(r)', LastReferenceInv(r)', CancelInv',
           \A s \in Rundowns \ {r} :
               /\ st'[s] = st[s] /\ api'[s] = api[s] /\ cont'[s] = cont[s]
               /\ invoked'[s] = invoked[s] /\ results'[s] = results[s]
               /\ s \in canceller' <=> s \in canceller
    PROVE  MapInv'
  <1>1. ASSUME NEW s \in Rundowns, s # r
        PROVE  ClaimInv(s)' /\ OrderInv(s)' /\ LastReferenceInv(s)'
    BY <1>1 DEF MapInv, ClaimInv, OrderInv, LastReferenceInv, ApiCalling, ContCalling,
       Cancelling, InCallback, Unreferenced
  <1>2. QED
    BY <1>1 DEF MapInv

\* TryEnterGate: the request is admitted or refused; its rundown is not yet left.
LEMMA RequestInv ==
    ASSUME IInv, MapInv, NEW r \in Rundowns, Request(r)
    PROVE  MapInv'
  <1> USE DEF MapInv, Request, TryEnterGate
  <1>1. /\ \A s \in Rundowns \ {r} : st'[s] = st[s] /\ api'[s] = api[s]
        /\ api'[r] \in {"work", "failed"}
        /\ st'[r] \in {"in", "refused"}
    BY DEF MapTypeInv, IInv, TypeOK
  <1>2. MapTypeInv'
    BY DEF MapTypeInv, ApiState
  <1>3. ClaimInv(r)'
    BY <1>1 DEF ClaimInv, ApiCalling, ContCalling, Cancelling, InCallback
  <1>4. OrderInv(r)' /\ LastReferenceInv(r)' /\ CancelInv'
    BY <1>1 DEF OrderInv, LastReferenceInv, CancelInv
  <1>5. QED
    BY <1>1, <1>2, <1>3, <1>4, Frame

\* The steps of the caller after that.
LEMMA ApiInv ==
    ASSUME IInv, MapInv, NEW r \in Rundowns,
           Launch(r) \/ LaunchThrows(r) \/ ApiFails(r) \/ ApiCalls(r) \/ ApiLeaves(r)
    PROVE  MapInv'
  <1> USE DEF MapInv
  <1>1. CASE Launch(r)
    <2> USE <1>1 DEF Launch, vars
    <2>1. /\ \A s \in Rundowns \ {r} : api'[s] = api[s] /\ cont'[s] = cont[s]
          /\ api'[r] = "leaving" /\ cont'[r] = "pending"
      BY DEF MapTypeInv
    <2>2. cont[r] = "none"
      BY DEF OrderInv
    <2>3. MapTypeInv'
      BY DEF MapTypeInv, ApiState, ContState
    <2>4. ClaimInv(r)'
      BY <2>1, <2>2 DEF ClaimInv, ApiCalling, ContCalling, Cancelling, InCallback
    <2>5. OrderInv(r)' /\ LastReferenceInv(r)' /\ CancelInv'
      BY <2>1 DEF OrderInv, LastReferenceInv, CancelInv, Unreferenced
    <2>6. QED
      BY <2>1, <2>3, <2>4, <2>5, Frame
  <1>2. CASE LaunchThrows(r)
    <2> USE <1>2 DEF LaunchThrows, vars
    <2>1. /\ \A s \in Rundowns \ {r} : api'[s] = api[s]
          /\ api'[r] = "failed"
      BY DEF MapTypeInv
    <2>2. MapTypeInv'
      BY DEF MapTypeInv, ApiState
    <2>3. ClaimInv(r)'
      BY <2>1 DEF ClaimInv, ApiCalling, ContCalling, Cancelling, InCallback
    <2>4. OrderInv(r)' /\ LastReferenceInv(r)' /\ CancelInv'
      BY <2>1 DEF OrderInv, LastReferenceInv, CancelInv, Unreferenced
    <2>5. QED
      BY <2>1, <2>2, <2>3, <2>4, Frame
  <1>3. CASE ApiFails(r)
    <2> USE <1>3 DEF ApiFails, vars
    <2>1. \A s \in Rundowns \ {r} : api'[s] = api[s] /\ invoked'[s] = invoked[s]
      BY DEF MapTypeInv
    <2>2. MapTypeInv'
      BY DEF MapTypeInv, ApiState
    <2>3. cont[r] = "none" /\ ~Unreferenced(r)
      BY DEF OrderInv, Unreferenced
    <2>4. CASE r \in MapRequests /\ ~invoked[r]
      <3>1. api'[r] = "calling" /\ invoked'[r]
        BY <2>4 DEF MapTypeInv
      <3>2. ~ContCalling(r) /\ ~Cancelling(r) /\ results[r] = <<>>
        BY <2>4 DEF ClaimInv, InCallback, ContCalling, Cancelling
      <3>3. ClaimInv(r)'
        BY <2>4, <3>1, <3>2 DEF ClaimInv, ApiCalling, ContCalling, Cancelling, InCallback
      <3>4. OrderInv(r)' /\ LastReferenceInv(r)' /\ CancelInv'
        BY <2>3, <3>1 DEF OrderInv, LastReferenceInv, CancelInv
      <3>5. QED
        BY <2>1, <2>2, <3>3, <3>4, Frame
    <2>5. CASE ~(r \in MapRequests /\ ~invoked[r])
      <3>1. api'[r] = "leaving" /\ invoked'[r] = invoked[r]
        BY <2>5 DEF MapTypeInv
      <3>2. ClaimInv(r)'
        BY <3>1 DEF ClaimInv, ApiCalling, ContCalling, Cancelling, InCallback
      <3>3. OrderInv(r)' /\ LastReferenceInv(r)' /\ CancelInv'
        BY <2>3, <2>5, <3>1 DEF OrderInv, LastReferenceInv, CancelInv
      <3>4. QED
        BY <2>1, <2>2, <3>2, <3>3, Frame
    <2>6. QED
      BY <2>4, <2>5
  <1>4. CASE ApiCalls(r)
    <2> USE <1>4 DEF ApiCalls, Deliver, vars
    <2>1. /\ \A s \in Rundowns \ {r} : api'[s] = api[s] /\ results'[s] = results[s]
          /\ api'[r] = "leaving"
          /\ results'[r] = Append(results[r], "null")
      BY DEF MapTypeInv
    <2>2. MapTypeInv'
      BY DEF MapTypeInv, ApiState, Result
    <2>3. invoked[r] /\ results[r] = <<>> /\ ~ContCalling(r) /\ ~Cancelling(r)
      BY DEF ClaimInv, InCallback, ApiCalling
    <2>4. Len(results'[r]) = 1
      BY <2>1, <2>3
    <2>5. ClaimInv(r)'
      BY <2>1, <2>3, <2>4 DEF ClaimInv, ApiCalling, ContCalling, Cancelling, InCallback
    <2>6. OrderInv(r)' /\ LastReferenceInv(r)' /\ CancelInv'
      BY <2>1, <2>3 DEF OrderInv, LastReferenceInv, CancelInv, Unreferenced
    <2>7. QED
      BY <2>1, <2>2, <2>5, <2>6, Frame
  <1>5. CASE ApiLeaves(r)
    <2> USE <1>5 DEF ApiLeaves, vars
    <2>1. /\ \A s \in Rundowns \ {r} : api'[s] = api[s]
          /\ api'[r] = "done"
      BY DEF MapTypeInv
    <2>2. MapTypeInv'
      BY DEF MapTypeInv, ApiState
    <2>3. ClaimInv(r)'
      BY <2>1 DEF ClaimInv, ApiCalling, ContCalling, Cancelling, InCallback
    <2>4. OrderInv(r)' /\ LastReferenceInv(r)' /\ CancelInv'
      BY <2>1 DEF OrderInv, LastReferenceInv, CancelInv, Unreferenced
    <2>5. QED
      BY <2>1, <2>2, <2>3, <2>4, Frame
  <1>6. QED
    BY <1>1, <1>2, <1>3, <1>4, <1>5

\* The steps of the continuation: it claims the callback if nobody has.
LEMMA ContInv ==
    ASSUME IInv, MapInv, NEW r \in Rundowns,
           Complete(r) \/ ContClaims(r) \/ ContCalls(r) \/ ContLeaves(r)
    PROVE  MapInv'
  <1> USE DEF MapInv
  <1>1. CASE Complete(r)
    <2> USE <1>1 DEF Complete, vars
    <2>1. /\ \A s \in Rundowns \ {r} : cont'[s] = cont[s]
          /\ cont'[r] \in {"mapped", "error"}
      BY DEF MapTypeInv
    <2>2. MapTypeInv'
      BY DEF MapTypeInv, ContState
    <2>3. ClaimInv(r)'
      BY <2>1 DEF ClaimInv, ApiCalling, ContCalling, Cancelling, InCallback
    <2>4. OrderInv(r)' /\ LastReferenceInv(r)' /\ CancelInv'
      BY <2>1 DEF OrderInv, LastReferenceInv, CancelInv, Unreferenced
    <2>5. QED
      BY <2>1, <2>2, <2>3, <2>4, Frame
  <1>2. CASE ContClaims(r)
    <2> USE <1>2 DEF ContClaims, vars
    <2>1. \A s \in Rundowns \ {r} : cont'[s] = cont[s] /\ invoked'[s] = invoked[s]
      BY DEF MapTypeInv
    <2>2. MapTypeInv'
      BY DEF MapTypeInv, ContState
    <2>3. api[r] \in {"leaving", "done"} /\ ~Unreferenced(r)
      BY DEF OrderInv, Unreferenced
    <2>4. CASE r \in MapRequests /\ ~invoked[r]
      <3>1. cont'[r] \in {"calling", "callingNull"} /\ invoked'[r]
        BY <2>4 DEF MapTypeInv
      <3>2. ~ApiCalling(r) /\ ~Cancelling(r) /\ results[r] = <<>>
        BY <2>4 DEF ClaimInv, InCallback, ApiCalling, Cancelling
      <3>3. ClaimInv(r)'
        BY <2>4, <3>1, <3>2 DEF ClaimInv, ApiCalling, ContCalling, Cancelling, InCallback
      <3>4. OrderInv(r)' /\ LastReferenceInv(r)' /\ CancelInv'
        BY <2>3, <3>1 DEF OrderInv, LastReferenceInv, CancelInv
      <3>5. QED
        BY <2>1, <2>2, <3>3, <3>4, Frame
    <2>5. CASE ~(r \in MapRequests /\ ~invoked[r])
      <3>1. cont'[r] = "leaving" /\ invoked'[r] = invoked[r]
        BY <2>5 DEF MapTypeInv
      <3>2. ClaimInv(r)'
        BY <3>1 DEF ClaimInv, ApiCalling, ContCalling, Cancelling, InCallback
      <3>3. OrderInv(r)' /\ LastReferenceInv(r)' /\ CancelInv'
        BY <2>3, <2>5, <3>1 DEF OrderInv, LastReferenceInv, CancelInv
      <3>4. QED
        BY <2>1, <2>2, <3>2, <3>3, Frame
    <2>6. QED
      BY <2>4, <2>5
  <1>3. CASE ContCalls(r)
    <2> USE <1>3 DEF ContCalls, Deliver, vars
    <2> DEFINE res == IF cont[r] = "calling" THEN "mapping" ELSE "null"
    <2>1. /\ \A s \in Rundowns \ {r} : cont'[s] = cont[s] /\ results'[s] = results[s]
          /\ cont'[r] = "leaving"
          /\ results'[r] = Append(results[r], res)
      BY DEF MapTypeInv
    <2>2. MapTypeInv'
      BY DEF MapTypeInv, ContState, Result
    <2>3. invoked[r] /\ results[r] = <<>> /\ ~ApiCalling(r) /\ ~Cancelling(r)
      BY DEF ClaimInv, InCallback, ContCalling
    <2>4. Len(results'[r]) = 1
      BY <2>1, <2>3
    <2>5. ClaimInv(r)'
      BY <2>1, <2>3, <2>4 DEF ClaimInv, ApiCalling, ContCalling, Cancelling, InCallback
    <2>6. OrderInv(r)' /\ LastReferenceInv(r)' /\ CancelInv'
      BY <2>1, <2>3 DEF OrderInv, LastReferenceInv, CancelInv, Unreferenced
    <2>7. QED
      BY <2>1, <2>2, <2>5, <2>6, Frame
  <1>4. CASE ContLeaves(r)
    <2> USE <1>4 DEF ContLeaves, vars
    <2>1. /\ \A s \in Rundowns \ {r} : cont'[s] = cont[s]
          /\ cont'[r] = "done"
      BY DEF MapTypeInv
    <2>2. MapTypeInv'
      BY DEF MapTypeInv, ContState
    <2>3. ClaimInv(r)'
      BY <2>1 DEF ClaimInv, ApiCalling, ContCalling, Cancelling, InCallback
    <2>4. OrderInv(r)' /\ LastReferenceInv(r)' /\ CancelInv'
      BY <2>1 DEF OrderInv, LastReferenceInv, CancelInv, Unreferenced
    <2>5. QED
      BY <2>1, <2>2, <2>3, <2>4, Frame
  <1>5. QED
    BY <1>1, <1>2, <1>3, <1>4

\* Only a request that nobody refers to any more leaves its rundown.
LEMMA DestroyInv ==
    ASSUME IInv, MapInv, NEW r \in Rundowns, Destroy(r) \/ DestroyEnds(r)
    PROVE  MapInv'
  <1> USE DEF MapInv
  <1>1. /\ UNCHANGED <<api, cont, invoked, results, canceller, freed, todo>>
        /\ \A s \in Rundowns \ {r} : st'[s] = st[s]
        /\ promised' >= promised
    BY DEF Destroy, DestroyEnds, RemoveWhileOpen, RemoveBlocks, RemoveResumes, RemoveFinalizes,
       mapVars, IInv, TypeOK
  <1>2. Unreferenced(r)
    BY DEF Destroy, DestroyEnds, RemoveResumes, RemoveFinalizes, LastReferenceInv
  <1>3. MapTypeInv'
    BY <1>1 DEF MapTypeInv
  <1>4. ClaimInv(r)' /\ OrderInv(r)'
    BY <1>1 DEF ClaimInv, OrderInv, ApiCalling, ContCalling, Cancelling, InCallback
  <1>5. LastReferenceInv(r)'
    BY <1>1, <1>2 DEF LastReferenceInv, Unreferenced
  <1>6. promised \in Nat /\ promised' \in Nat
    BY DEF IInv, TypeOK, Destroy, DestroyEnds, RemoveWhileOpen, RemoveBlocks, RemoveResumes,
       RemoveFinalizes
  <1>7. CancelInv'
    BY <1>1, <1>6 DEF CancelInv
  <1>8. QED
    BY <1>1, <1>3, <1>4, <1>5, <1>7, Frame

\* The closing thread claims the callback if nobody has, and is in one at a time.
LEMMA CancelStepInv ==
    ASSUME IInv, MapInv, NEW c \in Closers, CancelStep(c)
    PROVE  MapInv'
  <1> USE DEF MapInv
  <1>1. CASE CloseStep(c)
    <2>1. /\ UNCHANGED <<api, cont, invoked, results, canceller, freed, st>>
          /\ promised' >= promised /\ promised \in Nat /\ promised' \in Nat
      BY <1>1 DEF CloseStep, CloseBegins, CloseAgain, CloseCompletes, CloseFinalizes, mapVars,
         IInv, TypeOK
    <2>2. todo = {} \/ UNCHANGED todo
      BY <1>1 DEF CloseStep, CloseBegins, CloseAgain, CloseCompletes, CloseFinalizes, IInv, OpenInv
    <2>3. CancelInv'
      BY <2>1, <2>2 DEF CancelInv
    <2>4. MapTypeInv'
      BY <2>1 DEF MapTypeInv
    <2>5. ASSUME NEW r \in Rundowns
          PROVE  ClaimInv(r)' /\ OrderInv(r)' /\ LastReferenceInv(r)'
      BY <2>1 DEF ClaimInv, OrderInv, LastReferenceInv, ApiCalling, ContCalling, Cancelling,
         InCallback, Unreferenced
    <2>6. QED
      BY <2>3, <2>4, <2>5
  <1>2. ASSUME NEW r \in Rundowns, CancelLoses(c, r)
        PROVE  MapInv'
    <2> USE <1>2 DEF CancelLoses, CloseCalls, mapVars
    <2>1. CancelInv' /\ MapTypeInv'
      BY DEF CancelInv, MapTypeInv
    <2>2. ASSUME NEW s \in Rundowns
          PROVE  ClaimInv(s)' /\ OrderInv(s)' /\ LastReferenceInv(s)'
      BY DEF ClaimInv, OrderInv, LastReferenceInv, ApiCalling, ContCalling, Cancelling,
         InCallback, Unreferenced
    <2>3. QED
      BY <2>1, <2>2
  <1>3. ASSUME NEW r \in Rundowns, CancelClaims(c, r)
        PROVE  MapInv'
    <2> USE <1>3 DEF CancelClaims, vars
    <2>1. /\ \A s \in Rundowns \ {r} : invoked'[s] = invoked[s] /\ s \notin canceller'
          /\ invoked'[r] /\ r \in canceller'
      BY DEF MapTypeInv
    <2>2. MapTypeInv' /\ CancelInv'
      BY DEF MapTypeInv, CancelInv
    <2>3. ~ApiCalling(r) /\ ~ContCalling(r) /\ results[r] = <<>>
      BY DEF ClaimInv, ApiCalling, ContCalling, InCallback
    <2>4. ClaimInv(r)'
      BY <2>1, <2>3 DEF ClaimInv, ApiCalling, ContCalling, Cancelling, InCallback
    <2>5. OrderInv(r)' /\ LastReferenceInv(r)'
      BY <2>1 DEF OrderInv, LastReferenceInv, Unreferenced
    <2>6. QED
      BY <2>1, <2>2, <2>4, <2>5, Frame
  <1>4. ASSUME NEW r \in Rundowns, CancelCalls(c, r)
        PROVE  MapInv'
    <2> USE <1>4 DEF CancelCalls, CloseCalls, Deliver
    <2>1. /\ \A s \in Rundowns \ {r} : results'[s] = results[s] /\ s \notin canceller
          /\ results'[r] = Append(results[r], "null")
          /\ canceller' = {}
      BY DEF MapTypeInv, CancelInv
    <2>2. MapTypeInv' /\ CancelInv'
      BY DEF MapTypeInv, CancelInv, Result
    <2>3. /\ invoked[r] /\ results[r] = <<>>
          /\ ~ApiCalling(r) /\ ~ContCalling(r)
      BY DEF ClaimInv, InCallback, Cancelling
    <2>4. Len(results'[r]) = 1
      BY <2>1, <2>3
    <2>5. ClaimInv(r)'
      BY <2>1, <2>3, <2>4 DEF ClaimInv, ApiCalling, ContCalling, Cancelling, InCallback
    <2>6. OrderInv(r)' /\ LastReferenceInv(r)'
      BY DEF OrderInv, LastReferenceInv, Unreferenced
    <2>7. QED
      BY <2>1, <2>2, <2>5, <2>6, Frame
  <1>5. CASE FreeReturns(c)
    <2> USE <1>5 DEF FreeReturns, vars
    <2>1. CancelInv' /\ MapTypeInv'
      BY DEF CancelInv, MapTypeInv
    <2>2. ASSUME NEW s \in Rundowns
          PROVE  ClaimInv(s)' /\ OrderInv(s)' /\ LastReferenceInv(s)'
      BY DEF ClaimInv, OrderInv, LastReferenceInv, ApiCalling, ContCalling, Cancelling,
         InCallback, Unreferenced
    <2>3. QED
      BY <2>1, <2>2
  <1>6. QED
    BY <1>1, <1>2, <1>3, <1>4, <1>5 DEF CancelStep

\* Every step preserves the invariant, given the gate's.
LEMMA MapStepInv == IInv /\ MapInv /\ [MapNext]_<<vars, mapVars>> => MapInv'
  <1> SUFFICES ASSUME IInv, MapInv, [MapNext]_<<vars, mapVars>> PROVE MapInv'
    OBVIOUS
  <1>1. ASSUME NEW r \in Rundowns, RequestStep(r) PROVE MapInv'
    BY <1>1, RequestInv, ApiInv, ContInv, DestroyInv DEF RequestStep
  <1>2. CASE UNCHANGED <<vars, mapVars>>
    BY <1>2 DEF vars, mapVars, MapInv, MapTypeInv, ClaimInv, OrderInv, LastReferenceInv,
       CancelInv, ApiCalling, ContCalling, Cancelling, InCallback, Unreferenced
  <1>3. QED
    BY <1>1, <1>2, CancelStepInv DEF MapNext

LEMMA MapInvariant == MapSpec => []IInv /\ []MapInv
  <1>1. MapSpec => []IInv
    BY UsesGate, Invariant, PTL
  <1>2. QED
    BY <1>1, MapInitInv, MapStepInv, PTL DEF MapSpec

-----------------------------------------------------------------------------
\* Under map requests and invocations the gate is still the Open -> Closed -> Finalized
\* machine of its class comment.
THEOREM RequestsImplementGate == MapSpec => ImplementsAbstractGate
  BY UsesGate, GateImplements, PTL

\* The user's callback is called at most once for a map request and never for an
\* invocation, whichever of the caller, the continuation and the closing thread gets
\* there first.
THEOREM CallbackCalledOnce == MapSpec => []CallbackAtMostOnce
  <1>1. MapInv => CallbackAtMostOnce
    <2> SUFFICES ASSUME MapInv, NEW r \in Rundowns
                 PROVE  /\ Len(results[r]) <= 1
                        /\ InCallback(r) => results[r] = <<>> /\ r \in MapRequests
      BY DEF CallbackAtMostOnce
    <2>1. ClaimInv(r)
      BY DEF MapInv
    <2>2. results[r] = <<>> \/ Len(results[r]) = 1
      BY <2>1 DEF ClaimInv
    <2>3. Len(results[r]) \in {0, 1}
      <3>1. Len(<<>>) = 0
        OBVIOUS
      <3>2. QED
        BY <2>2, <3>1
    <2>4. Len(results[r]) <= 1
      <3>1. \A n \in {0, 1} : n <= 1
        OBVIOUS
      <3>2. QED
        BY <2>3, <3>1
    <2>5. QED
      BY <2>1, <2>4 DEF ClaimInv
  <1>2. QED
    BY MapInvariant, <1>1, PTL

\* A request whose callback the closing thread is in, or may still call, has not got past
\* its ~Rundown.
THEOREM CancelledRequestAlive == MapSpec => []CancelTargetAlive
  <1>1. IInv /\ MapInv => CancelTargetAlive
    BY DEF IInv, CallingInv, MapInv, CancelInv, CancelTargetAlive, Inside
  <1>2. QED
    BY MapInvariant, <1>1, PTL

\* When vai_free_ctx has returned, every admitted map request has been answered once, and
\* nothing of any request is running or pending.
THEOREM FreedContextQuiescent == MapSpec => []FreeQuiesces
  <1>1. IInv /\ MapInv => FreeQuiesces
    <2> SUFFICES ASSUME IInv, MapInv, freed PROVE FreeQuiesces
      BY DEF FreeQuiesces
    <2>1. Inside = {} /\ todo = {}
      BY DEF IInv, SetterInv, CallingInv, MapInv, CancelInv
    <2>2. \A r \in Rundowns : st[r] \notin {"in", "waiting"}
      BY <2>1 DEF Inside
    <2>3. ASSUME NEW r \in Rundowns, st[r] = "gone"
          PROVE  /\ ~InCallback(r) /\ cont[r] \in {"none", "done"}
                 /\ r \in MapRequests => Len(results[r]) = 1
      <3>1. api[r] = "done" /\ cont[r] \in {"none", "done"}
        BY <2>3 DEF MapInv, LastReferenceInv, Unreferenced
      <3>2. ~InCallback(r)
        BY <2>1, <3>1 DEF InCallback, MapInv, CancelInv
      <3>3. r \in MapRequests => invoked[r]
        BY <3>1 DEF MapInv, OrderInv
      <3>4. QED
        BY <3>1, <3>2, <3>3 DEF MapInv, ClaimInv
    <2>4. QED
      BY <2>2, <2>3, MapBufferAssumption DEF FreeQuiesces
  <1>2. QED
    BY MapInvariant, <1>1, PTL
=============================================================================
