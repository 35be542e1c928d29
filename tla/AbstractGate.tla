---------------------------- MODULE AbstractGate ----------------------------
(***************************************************************************)
(* What a gate promises to its users (base/context/gate.h, the comment on  *)
(* class Gate): a state machine Open -> Closed -> Finalized.  Operations   *)
(* enter only while it is open, leave at any time, and the gate reaches    *)
(* Finalized only when no operation is inside any more.                    *)
(***************************************************************************)
CONSTANT Rundowns       \* the operations that may enter the gate

VARIABLES phase,        \* "open", "closed" or "finalized"
          inside        \* the operations that are inside the gate

absVars == <<phase, inside>>

AbsInit ==
    /\ phase = "open"
    /\ inside = {}

AbsEnter(r) ==
    /\ phase = "open"
    /\ r \notin inside
    /\ inside' = inside \cup {r}
    /\ UNCHANGED phase

AbsLeave(r) ==
    /\ r \in inside
    /\ inside' = inside \ {r}
    /\ UNCHANGED phase

AbsClose ==
    /\ phase = "open"
    /\ phase' = "closed"
    /\ UNCHANGED inside

AbsFinalize ==
    /\ phase = "closed"
    /\ inside = {}
    /\ phase' = "finalized"
    /\ UNCHANGED inside

AbsNext ==
    \/ \E r \in Rundowns : AbsEnter(r) \/ AbsLeave(r)
    \/ AbsClose
    \/ AbsFinalize

AbsSpec == AbsInit /\ [][AbsNext]_absVars
=============================================================================
