--------------------------- MODULE MCPresentation ---------------------------
(* A small instance of Presentation; epochs, audiences and nonces may be   *)
(* renamed.                                                                *)
EXTENDS Presentation, TLC

CONSTANTS h1, h2, q1, f1, e1, e2, rp1, rp2, n1, n2

Renaming == Permutations({e1, e2}) \cup Permutations({rp1, rp2}) \cup Permutations({n1, n2})
=============================================================================
