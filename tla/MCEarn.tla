------------------------------- MODULE MCEarn -------------------------------
(* Instances of Earn for TLC. *)
EXTENDS EarnInvariants, TLC

CONSTANTS d1, d2, d3, w1, w2, a1, a2, k1, k2

\* Distinct amounts, so that a lost or doubled booking cannot cancel out.
MCAmount ==
    [r \in Requests |-> CASE r = d1 -> 3 [] r = d2 -> 4 [] r = w1 -> 1 [] r = w2 -> 2
                          [] OTHER -> 1]

MCSymmetry == Permutations(Workers)
=============================================================================
