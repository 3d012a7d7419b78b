----------------------------- MODULE MCChatTree -----------------------------
(* A small instance of ChatTree for TLC. *)
EXTENDS ChatTree, TLC

Symmetry == Permutations(Tasks) \cup Permutations(Convs)
=============================================================================
