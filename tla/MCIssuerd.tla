------------------------------ MODULE MCIssuerd ------------------------------
(* Instances of Issuerd for TLC.                                           *)
EXTENDS Issuerd, TLC

Symmetry == Permutations(Handler) \cup Permutations(Binding) \cup Permutations(Address)
=============================================================================
