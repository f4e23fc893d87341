------------------------------ MODULE SingleUse ------------------------------
(***************************************************************************)
(* What the verify endpoints of `tamayo serve` promise of a burn token or  *)
(* of a presentation nonce, with no store, no journal and no restart in    *)
(* sight: one worker at a time may hold a use, a use that was answered is  *)
(* never held again, and the answer comes from the holder.  A worker may   *)
(* give a use up unanswered, and all workers may vanish at once.           *)
(***************************************************************************)
EXTENDS Naturals

CONSTANTS Use, Worker, None

VARIABLES
    holder,    \* who works on a use, or None
    answered   \* how many times a use was answered

vars == <<holder, answered>>

Init ==
    /\ holder = [u \in Use |-> None]
    /\ answered = [u \in Use |-> 0]

Take(u, w) ==
    /\ holder[u] = None
    /\ answered[u] = 0
    /\ holder' = [holder EXCEPT ![u] = w]
    /\ UNCHANGED answered

GiveUp(u) ==
    /\ holder[u] # None
    /\ holder' = [holder EXCEPT ![u] = None]
    /\ UNCHANGED answered

Answer(u) ==
    /\ holder[u] # None
    /\ holder' = [holder EXCEPT ![u] = None]
    /\ answered' = [answered EXCEPT ![u] = @ + 1]

Vanish ==
    /\ holder' = [u \in Use |-> None]
    /\ UNCHANGED answered

Next ==
    \/ \E u \in Use : GiveUp(u) \/ Answer(u) \/ \E w \in Worker : Take(u, w)
    \/ Vanish

Spec == Init /\ [][Next]_vars
=============================================================================
