---------------------------- MODULE MCAccessDesk ----------------------------
(* Instances of AccessDesk for TLC: the keys and desks are symmetric. *)
EXTENDS AccessDesk, TLC

Symmetry == Permutations(Keys) \cup Permutations(Desks)
=============================================================================
