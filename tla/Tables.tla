------------------------------- MODULE Tables -------------------------------
(***************************************************************************)
(* Eager(f) is f.  TLC tabulates f once, to compare it with itself, where  *)
(* it would evaluate the body of a function at each of its uses.           *)
(***************************************************************************)
Eager(f) == CHOOSE g \in {f} : g = g
=============================================================================
