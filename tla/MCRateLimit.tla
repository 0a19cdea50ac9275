---------------------------- MODULE MCRateLimit -----------------------------
(* Instances of RateLimit for TLC. *)
EXTENDS RateLimit, TLC

CONSTANTS r1, r2, q1

MCActionOf == [r \in Requests |-> IF r = q1 THEN "withdraw" ELSE "deposit"]

MCLimit == [a \in Actions |-> 1]

MCSymmetry == Permutations({r1, r2})
=============================================================================
