----------------------------- MODULE MCCatalogue -----------------------------
(* Instances of Catalogue for TLC. *)
EXTENDS Catalogue, TLC

CONSTANTS test, main, v1, v2, w1, w2, w3, other

MCChainOf == [w \in Wallets |-> IF w = w3 THEN main ELSE test]

\* The two vaults, and the two wallets on the test network, are alike.
MCSymmetry == Permutations({v1, v2}) \cup Permutations({w1, w2})
=============================================================================
