----------------------------- MODULE MCMutation -----------------------------
(* Instances of IdempotentMutation for TLC. *)
EXTENDS IdempotentMutation

CONSTANTS m1, m2, m3, m4, k1

\* m1, m2 and m4 are tries of one request; m3 reuses their key for another payload.
MCKeyOf == [a \in Attempts |-> k1]

MCPayloadOf == [a \in Attempts |-> IF a = m3 THEN "other" ELSE "same"]
=============================================================================
