---------------------------- MODULE MCModelStore ----------------------------
(* Instances of ModelStore for TLC. *)
EXTENDS ModelStore, TLC

CONSTANTS localFile, hubFile, otherFile, bigFile, m

\* Two blocks and more, so that a copy can be left half way; the other file is longer by
\* one, so that what is left of the first can be resumed with the second; the big file is
\* longer than the limit.
MCSize == [f \in Files |-> CASE f = otherFile -> 3 [] f = bigFile -> 4 [] OTHER -> 2]

Symmetry == Permutations(Jobs)
=============================================================================
