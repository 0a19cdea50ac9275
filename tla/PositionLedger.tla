--------------------------- MODULE PositionLedger ---------------------------
(***************************************************************************)
(* What the earn services promise about one position, without handlers,    *)
(* rows, locks or workers: a request's transaction is sent at most once    *)
(* and gets one receipt; only a successful one is booked, once, and a      *)
(* booking is the only thing that moves the balance, by its exact amount.  *)
(***************************************************************************)
EXTENDS Integers

CONSTANTS Deposits, Withdrawals, Approvals, FullWithdrawals, Amount

VARIABLES
    receipt,   \* receipt[r]: "none" (not sent), "pending", "success", "reverted"
    booked,    \* requests whose amount has been booked
    balance    \* the balance shown to the user

ledgerVars == <<receipt, booked, balance>>

LedgerInit ==
    /\ receipt = [r \in Deposits \cup Withdrawals \cup Approvals |-> "none"]
    /\ booked = {}
    /\ balance = 0

Send(r) ==
    /\ receipt[r] = "none"
    /\ receipt' = [receipt EXCEPT ![r] = "pending"]
    /\ UNCHANGED <<booked, balance>>

Settle(r) ==
    /\ receipt[r] = "pending"
    /\ \E outcome \in {"success", "reverted"} :
          receipt' = [receipt EXCEPT ![r] = outcome]
    /\ UNCHANGED <<booked, balance>>

\* A success not booked before is booked.
Book(r) ==
    /\ receipt[r] = "success"
    /\ r \notin booked
    /\ booked' = booked \cup {r}
    /\ UNCHANGED receipt

Credit(r) == r \in Deposits /\ Book(r) /\ balance' = balance + Amount[r]

Debit(r) ==
    /\ r \in Withdrawals
    /\ Book(r)
    /\ balance' = IF r \in FullWithdrawals THEN 0 ELSE balance - Amount[r]

LedgerNext ==
    \E r \in Deposits \cup Withdrawals \cup Approvals :
        Send(r) \/ Settle(r) \/ Credit(r) \/ Debit(r)

LedgerSpec == LedgerInit /\ [][LedgerNext]_ledgerVars

-----------------------------------------------------------------------------
(* What is left of it when withdrawals overlap with other bookings: their  *)
(* amount is taken from a balance read earlier, so what they leave behind  *)
(* may be any balance.  Deposits are still booked exactly.                 *)

LooseDebit(r) == r \in Withdrawals /\ Book(r) /\ balance' \in Nat

LooseLedgerNext ==
    \E r \in Deposits \cup Withdrawals \cup Approvals :
        Send(r) \/ Settle(r) \/ Credit(r) \/ LooseDebit(r)

LooseLedgerSpec == LedgerInit /\ [][LooseLedgerNext]_ledgerVars
=============================================================================
