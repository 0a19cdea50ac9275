---------------------------- MODULE Transactions ----------------------------
(***************************************************************************)
(* One row of the "Transaction" table and the writes TransactionsService   *)
(* makes to it (src/earn/persistence/transactions).  Every operator maps a *)
(* row to the row a statement leaves behind; who may run the statement,    *)
(* and when, is the business of the modules that use it.                   *)
(*                                                                         *)
(* A row keeps what other components read again: the status, whether a     *)
(* transaction hash is stored, the amount, and the share count carried in  *)
(* the JSON metadata ("estimatedShares" or "sharesBurned").  markFailed    *)
(* and markReverted replace the metadata, so the count is lost there.      *)
(***************************************************************************)
EXTENDS Integers

TransactionStatus ==
    {"NONE", "CREATED", "SUBMITTED", "CONFIRMED", "FAILED", "REVERTED"}

Transaction ==
    [status : TransactionStatus, hash : BOOLEAN, amount : Int, shares : Int]

\* "NONE": no row has been inserted yet.
NoTransaction == [status |-> "NONE", hash |-> FALSE, amount |-> 0, shares |-> 0]

CreateTransaction(amount, shares) ==
    [status |-> "CREATED", hash |-> FALSE, amount |-> amount, shares |-> shares]

\* updateStatus without a WHERE on the status: the row is overwritten
\* whatever its status has become since the caller last read it.
MarkSubmitted(t, shares) ==
    [t EXCEPT !.status = "SUBMITTED", !.hash = TRUE, !.shares = shares]

MarkConfirmed(t) == [t EXCEPT !.status = "CONFIRMED"]

MarkFailed(t) ==
    [status |-> "FAILED", hash |-> t.hash, amount |-> t.amount, shares |-> 0]

MarkReverted(t) ==
    [status |-> "REVERTED", hash |-> t.hash, amount |-> t.amount, shares |-> 0]

\* Mutant: a confirmation that forgets the WHERE status = SUBMITTED.
AnyRowIsConfirmable(t) == t.status # "NONE"

\* Mutant: a confirmation that also accepts a row the handler gave up on.
FailedRowIsConfirmable(t) == t.status \in {"SUBMITTED", "FAILED"}

\* Mutant: a confirmation that looks for the status of a row not yet sent.
CreatedIsConfirmable(t) == t.status = "CREATED"

\* The compare-and-set of confirmSubmitted: updateMany counts one row.
Confirmable(t) == t.status = "SUBMITTED"

\* The WHERE of findOpenDeposit and findOpenWithdraw.
IsOpen(t) == t.status \in {"CREATED", "SUBMITTED"}

\* Mutant: the two conditions of the reconciliation queries mixed up.
CreatedWithHash(t) == t.status = "CREATED" /\ t.hash

\* The WHERE of findPendingReconciliation and, but for the age, of
\* findStaleCreated.
IsPendingReconciliation(t) == t.status = "SUBMITTED" /\ t.hash

IsUnsentCreated(t) == t.status = "CREATED" /\ ~t.hash
=============================================================================
