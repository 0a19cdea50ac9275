------------------------------ MODULE Positions ------------------------------
(***************************************************************************)
(* One row of the "Position" table and the writes PositionsRepository      *)
(* makes to it (src/earn/persistence/positions).  The table has a unique   *)
(* key on (userId, vaultId), so one user and one vault have one row; a     *)
(* "NONE" status stands for the row not being there.                       *)
(***************************************************************************)
EXTENDS Integers

PositionStatus == {"NONE", "PENDING", "ACTIVE", "WITHDRAWING", "CLOSED", "FAILED"}

Position ==
    [status : PositionStatus, deposited : Int, current : Int, shares : Int]

NoPosition == [status |-> "NONE", deposited |-> 0, current |-> 0, shares |-> 0]

\* create with the default status; the amounts default to 0 in the schema.
CreatePending == [NoPosition EXCEPT !.status = "PENDING"]

\* activate writes absolute amounts over whatever the row holds.
Activate(p, amount, shares) ==
    [status |-> "ACTIVE", deposited |-> amount, current |-> amount, shares |-> shares]

\* addDeposit increments in SQL, so it never loses a concurrent write.
AddDeposit(p, amount, shares) ==
    [status |-> "ACTIVE", deposited |-> p.deposited + amount,
     current |-> p.current + amount, shares |-> p.shares + shares]

\* Mutant: a change of status that is forgotten.
KeepStatus(p) == p

MarkWithdrawing(p) == [p EXCEPT !.status = "WITHDRAWING"]

MarkActive(p) == [p EXCEPT !.status = "ACTIVE"]

MarkPositionFailed(p) == [p EXCEPT !.status = "FAILED"]

\* Mutant: any withdrawal closes the position.
CloseAlways(existing, amount, shares) == [NoPosition EXCEPT !.status = "CLOSED"]

\* Mutant: totalDeposited is not reduced.
SubtractFromCurrentOnly(existing, amount, shares) ==
    IF existing.shares - shares <= 0
      THEN [NoPosition EXCEPT !.status = "CLOSED"]
      ELSE [status |-> "ACTIVE", deposited |-> existing.deposited,
            current |-> existing.current - amount, shares |-> existing.shares - shares]

\* subtractWithdraw computes the new amounts from the row it read before
\* (existing) and writes them as absolute values.
SubtractWithdraw(existing, amount, shares) ==
    IF existing.shares - shares <= 0
      THEN [NoPosition EXCEPT !.status = "CLOSED"]
      ELSE [status |-> "ACTIVE", deposited |-> existing.deposited - amount,
            current |-> existing.current - amount, shares |-> existing.shares - shares]
=============================================================================
