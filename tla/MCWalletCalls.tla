---------------------------- MODULE MCWalletCalls ----------------------------
(* Instances of WalletCalls for TLC. *)
EXTENDS WalletCalls

CONSTANTS w1, w2, other
=============================================================================
