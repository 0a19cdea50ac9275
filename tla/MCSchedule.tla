----------------------------- MODULE MCSchedule -----------------------------
(* Instances of ReconcileSchedule for TLC. *)
EXTENDS ReconcileSchedule, TLC

CONSTANTS v1, v2, j1, j2, x1, x2

MCSymmetry == Permutations({v1, v2})
=============================================================================
