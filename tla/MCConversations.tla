-------------------------- MODULE MCConversations --------------------------
(* Instances of Conversations for TLC. *)
EXTENDS Conversations, TLC

CONSTANTS k1, k2

Symmetry == Permutations(Keys)
=============================================================================
