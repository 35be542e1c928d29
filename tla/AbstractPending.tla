--------------------------- MODULE AbstractPending ---------------------------
(***************************************************************************)
(* What the FIFO scheduler expects of its heap of pending steps: a set of  *)
(* steps, each with the number of dependencies it still waits for.  Calls  *)
(* come one at a time; each changes the set or a number once, as it        *)
(* begins, and whatever it does afterwards changes nothing.                *)
(***************************************************************************)
EXTENDS Naturals

CONSTANT Steps

VARIABLES members, waits,
          busy              \* a call is under way

AInit ==
    /\ members \subseteq Steps
    /\ waits \in [Steps -> Nat]
    /\ busy = FALSE

\* one dependency of a pending step has been retired
AResolve(s) ==
    /\ ~busy
    /\ s \in members
    /\ waits[s] > 0
    /\ waits' = [waits EXCEPT ![s] = @ - 1]
    /\ busy' = TRUE
    /\ UNCHANGED members

\* a step has been scheduled
ARemove(s) ==
    /\ ~busy
    /\ s \in members
    /\ members' = members \ {s}
    /\ busy' \in BOOLEAN
    /\ UNCHANGED waits

AReturn ==
    /\ busy
    /\ busy' = FALSE
    /\ UNCHANGED <<members, waits>>

ANext ==
    \/ \E s \in Steps : AResolve(s) \/ ARemove(s)
    \/ AReturn

ASpec == AInit /\ [][ANext]_<<members, waits, busy>>
=============================================================================
