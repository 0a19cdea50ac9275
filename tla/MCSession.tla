------------------------------ MODULE MCSession ------------------------------
(* Two users in one tab, one after the other. *)
EXTENDS Session, TLC

CONSTANTS ann, bob

Symmetry == Permutations(Users)
=============================================================================
