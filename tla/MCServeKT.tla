------------------------------ MODULE MCServeKT ------------------------------
(* Instances of ServeKT for TLC: log keys of other operators are negative. *)
EXTENDS ServeKT

MCOtherKey == {-1}
NoOtherKey == {}
Symmetry == Permutations(Client)
=============================================================================
