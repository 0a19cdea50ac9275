--------------------------- MODULE Reconciliation ---------------------------
(***************************************************************************)
(* TransactionReconciliationService: one run of the repeated job, one      *)
(* action per statement that other processes can observe or influence.     *)
(* Runs of different workers overlap freely here: the Redis lock that is   *)
(* meant to keep them apart expires after 25 seconds and is not renewed,   *)
(* so nothing below may depend on it.                                      *)
(*                                                                         *)
(* The two lists are sets and are worked off in any order; their limits    *)
(* (50 and 100 rows) are not reached with the rows of one position.        *)
(***************************************************************************)
EXTENDS EarnState

WorkerAt(w, pc) == worker[w].pc = pc

SetWorker(w, new) == worker' = [worker EXCEPT ![w] = new]

\* Done with the item in hand, back to the list.
NextItem(w) ==
    [worker[w] EXCEPT !.pc = "pending", !.item = NoRequest, !.existing = NoPosition,
                      !.pending = @ \ {worker[w].item}]

DropItem(w, r) == [worker[w] EXCEPT !.pending = @ \ {r}]

\* The item's database transaction has begun; its row is locked.
Hold(w, r, pc) == [worker[w] EXCEPT !.pc = pc, !.item = r]

UnchangedByWorker == UNCHANGED <<chain, onChain, handler>>

-----------------------------------------------------------------------------
(* Stale CREATED rows *)

\* Mutant: the age of a CREATED row is not looked at.
AnyAge(r) == TRUE

\* createdAt is more than ten minutes ago.  A handler that is still running
\* has been at it for less, unless SlowHandlers.
OldEnough(r) == SlowHandlers \/ ~Live(r)

StaleRows == {r \in Requests : IsUnsentCreated(txn[r]) /\ OldEnough(r)}

ReconcileStart(w) ==
    /\ WorkerAt(w, "idle")
    /\ SetWorker(w, [IdleWorker EXCEPT !.pc = "stale", !.stale = StaleRows])
    /\ UNCHANGED faults /\ UnchangedByWorker /\ UnchangedDatabase

StaleMarkFailed(w, r) ==
    /\ WorkerAt(w, "stale")
    /\ r \in worker[w].stale
    /\ RowFree(r)
    /\ txn' = [txn EXCEPT ![r] = MarkFailed(@)]
    /\ SetWorker(w, [worker[w] EXCEPT
                       !.stale = @ \ {r},
                       !.pc = IF r \in Deposits THEN "staleRead" ELSE "stale"])
    /\ UNCHANGED <<position, applied, faults>> /\ UnchangedByWorker

StaleReadPosition(w) ==
    /\ WorkerAt(w, "staleRead")
    /\ SetWorker(w, [worker[w] EXCEPT
                       !.pc = IF position.status = "PENDING" THEN "staleFail" ELSE "stale"])
    /\ UNCHANGED faults /\ UnchangedByWorker /\ UnchangedDatabase

StaleFailPosition(w) ==
    /\ WorkerAt(w, "staleFail")
    /\ position' = MarkPositionFailed(position)
    /\ SetWorker(w, [worker[w] EXCEPT !.pc = "stale"])
    /\ UNCHANGED <<txn, applied, faults>> /\ UnchangedByWorker

-----------------------------------------------------------------------------
(* SUBMITTED rows *)

ListPending(w) ==
    /\ WorkerAt(w, "stale")
    /\ worker[w].stale = {}
    /\ SetWorker(w, [worker[w] EXCEPT
                       !.pc = "pending",
                       !.pending = {r \in Requests : IsPendingReconciliation(txn[r])}])
    /\ UNCHANGED faults /\ UnchangedByWorker /\ UnchangedDatabase

\* There is no receipt yet: the RPC call throws three times, the error is
\* caught and logged.
ReceiptMissing(w, r) ==
    /\ WorkerAt(w, "pending")
    /\ r \in worker[w].pending
    /\ chain[r] = "pending"
    /\ SetWorker(w, DropItem(w, r))
    /\ UNCHANGED faults /\ UnchangedByWorker /\ UnchangedDatabase

\* Mutant: the status of the receipt is not looked at.
AnyReceipt(w, r, rcpt) ==
    /\ WorkerAt(w, "pending")
    /\ r \in worker[w].pending
    /\ chain[r] \in {"success", "reverted"}
    /\ RowFree(r)

\* A row with the receipt rcpt, free to be written by this worker.
Reconcilable(w, r, rcpt) ==
    /\ WorkerAt(w, "pending")
    /\ r \in worker[w].pending
    /\ chain[r] = rcpt
    /\ RowFree(r)

ConfirmApproval(w, r) ==
    /\ r \in Approvals
    /\ Reconcilable(w, r, "success")
    /\ txn' = IF Confirmable(txn[r])
                THEN [txn EXCEPT ![r] = MarkConfirmed(@)] ELSE txn
    /\ SetWorker(w, DropItem(w, r))
    /\ UNCHANGED <<position, applied, faults>> /\ UnchangedByWorker

\* confirmDepositTransaction: a row that is no longer SUBMITTED is left alone;
\* one whose position is not PENDING is confirmed and nothing is credited.
ConfirmDeposit(w, r) ==
    /\ r \in Deposits
    /\ Reconcilable(w, r, "success")
    /\ \/ /\ ~Confirmable(txn[r])
          /\ SetWorker(w, DropItem(w, r))
          /\ UnchangedDatabase
       \/ /\ Confirmable(txn[r])
          /\ position.status # "PENDING"
          /\ txn' = [txn EXCEPT ![r] = MarkConfirmed(@)]
          /\ SetWorker(w, DropItem(w, r))
          /\ UNCHANGED <<position, applied>>
       \/ /\ Confirmable(txn[r])
          /\ position.status = "PENDING"
          /\ SetWorker(w, Hold(w, r, "activate"))
          /\ UnchangedDatabase
    /\ UNCHANGED faults /\ UnchangedByWorker

ActivateAndCommit(w) ==
    LET r == worker[w].item IN
    /\ WorkerAt(w, "activate")
    /\ txn' = [txn EXCEPT ![r] = MarkConfirmed(@)]
    /\ position' = Activate(position, txn[r].amount, txn[r].shares)
    /\ Apply(r)
    /\ SetWorker(w, NextItem(w))
    /\ UNCHANGED faults /\ UnchangedByWorker

\* confirmWithdrawTransaction up to its own read of the position.
ConfirmWithdraw(w, r) ==
    /\ r \in Withdrawals
    /\ Reconcilable(w, r, "success")
    /\ \/ /\ ~Confirmable(txn[r])
          /\ SetWorker(w, DropItem(w, r))
          /\ UnchangedDatabase
       \/ /\ Confirmable(txn[r])
          /\ position.status # "WITHDRAWING"
          /\ txn' = [txn EXCEPT ![r] = MarkConfirmed(@)]
          /\ SetWorker(w, DropItem(w, r))
          /\ UNCHANGED <<position, applied>>
       \/ /\ Confirmable(txn[r])
          /\ position.status = "WITHDRAWING"
          /\ SetWorker(w, Hold(w, r, "withdrawing"))
          /\ UnchangedDatabase
    /\ UNCHANGED faults /\ UnchangedByWorker

\* subtractWithdraw: its read, then its write with the commit.
SubtractRead(w) ==
    /\ WorkerAt(w, "withdrawing")
    /\ SetWorker(w, [worker[w] EXCEPT !.pc = "subtract", !.existing = position])
    /\ UNCHANGED faults /\ UnchangedByWorker /\ UnchangedDatabase

SubtractAndCommit(w) ==
    LET r == worker[w].item IN
    /\ WorkerAt(w, "subtract")
    /\ txn' = [txn EXCEPT ![r] = MarkConfirmed(@)]
    /\ position' = SubtractWithdraw(worker[w].existing, txn[r].amount, txn[r].shares)
    /\ Apply(r)
    /\ SetWorker(w, NextItem(w))
    /\ UNCHANGED faults /\ UnchangedByWorker

\* handleRevertedTransaction: the row is overwritten whatever its status.
RevertTouchesPosition(r) ==
    \/ r \in Deposits /\ position.status = "PENDING"
    \/ r \in Withdrawals /\ position.status = "WITHDRAWING"

HandleReverted(w, r) ==
    /\ Reconcilable(w, r, "reverted")
    /\ \/ /\ RevertTouchesPosition(r)
          /\ SetWorker(w, Hold(w, r, "revertPosition"))
          /\ UNCHANGED txn
       \/ /\ ~RevertTouchesPosition(r)
          /\ SetWorker(w, DropItem(w, r))
          /\ txn' = [txn EXCEPT ![r] = MarkReverted(@)]
    /\ UNCHANGED <<position, applied, faults>> /\ UnchangedByWorker

RevertPositionAndCommit(w) ==
    LET r == worker[w].item IN
    /\ WorkerAt(w, "revertPosition")
    /\ txn' = [txn EXCEPT ![r] = MarkReverted(@)]
    /\ position' = IF r \in Deposits THEN MarkPositionFailed(position)
                                     ELSE MarkActive(position)
    /\ SetWorker(w, NextItem(w))
    /\ UNCHANGED <<applied, faults>> /\ UnchangedByWorker

ReconcileEnd(w) ==
    /\ WorkerAt(w, "pending")
    /\ worker[w].pending = {}
    /\ SetWorker(w, IdleWorker)
    /\ UNCHANGED faults /\ UnchangedByWorker /\ UnchangedDatabase

-----------------------------------------------------------------------------
(* Failures *)

\* An error in the second loop is caught per item (an open database
\* transaction is rolled back) ...
ItemThrows(w) ==
    /\ \/ /\ WorkerAt(w, "pending")
          /\ \E r \in worker[w].pending : SetWorker(w, DropItem(w, r))
       \/ /\ worker[w].pc \in HoldingPCs
          /\ SetWorker(w, NextItem(w))
    /\ Fault
    /\ UnchangedByWorker /\ UnchangedDatabase

\* ... in the first loop it ends the run, and so does the death of the process.
RunAborts(w) ==
    /\ ~WorkerAt(w, "idle")
    /\ SetWorker(w, IdleWorker)
    /\ Fault
    /\ UnchangedByWorker /\ UnchangedDatabase

ReconcileStep(w) ==
    \/ ReconcileStart(w) \/ ListPending(w) \/ ReconcileEnd(w)
    \/ \E r \in Requests :
         \/ StaleMarkFailed(w, r)
         \/ ReceiptMissing(w, r)
         \/ ConfirmApproval(w, r) \/ ConfirmDeposit(w, r) \/ ConfirmWithdraw(w, r)
         \/ HandleReverted(w, r)
    \/ StaleReadPosition(w) \/ StaleFailPosition(w)
    \/ ActivateAndCommit(w)
    \/ SubtractRead(w) \/ SubtractAndCommit(w)
    \/ RevertPositionAndCommit(w)
=============================================================================
