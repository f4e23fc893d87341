------------------------------ MODULE MCEVPRail ------------------------------
(* Instances of EVPRail for TLC.                                           *)
EXTENDS EVPRail, TLC

Symmetry == Permutations(Handler) \cup Permutations(Code)
=============================================================================
