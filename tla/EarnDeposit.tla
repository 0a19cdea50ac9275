----------------------------- MODULE EarnDeposit -----------------------------
(***************************************************************************)
(* EarnDepositService.depositVault, one action per await that reads or     *)
(* writes shared state.  The checks on the vault, the chain, the wallet    *)
(* and its funds come first and leave no trace; they are the choice to     *)
(* start the request at all.                                               *)
(***************************************************************************)
EXTENDS EarnState

\* assertNoDuplicateDeposit, and the same two reads inside the transaction.
DuplicateDeposit == position.status = "PENDING" \/ HasOpenDeposit

DepositPrecheck(r) ==
    /\ r \in Deposits
    /\ At(r, "idle")
    /\ Goto(r, IF DuplicateDeposit THEN "rejected" ELSE "prechecked")
    /\ UNCHANGED <<chain, onChain, worker, faults>> /\ UnchangedDatabase

\* The reads at the start of prisma.$transaction (READ COMMITTED): what they
\* return is used by the writes, which are a later action.
DepositAdmit(r) ==
    /\ r \in Deposits
    /\ At(r, "prechecked")
    /\ \/ DuplicateDeposit /\ Goto(r, "rejected")
       \/ /\ ~DuplicateDeposit
          /\ handler' = [handler EXCEPT ![r] =
                [@ EXCEPT !.pc = "admitted", !.isNew = (position.status = "NONE"),
                          !.amount = Amount[r], !.shares = Amount[r]]]
    /\ UNCHANGED <<chain, onChain, worker, faults>> /\ UnchangedDatabase

\* Mutant: no unique key on (userId, vaultId).
NeverTaken(r) == FALSE

\* createPending meets the unique key on (userId, vaultId).
PositionTaken(r) == handler[r].isNew /\ position.status # "NONE"

\* The writes of the transaction, committed together.
DepositCreate(r) ==
    /\ r \in Deposits
    /\ At(r, "admitted")
    /\ \/ PositionTaken(r) /\ Goto(r, "rejected") /\ UNCHANGED <<txn, position>>
       \/ /\ ~PositionTaken(r)
          /\ position' = IF handler[r].isNew THEN CreatePending ELSE position
          /\ txn' = [txn EXCEPT ![r] =
                CreateTransaction(handler[r].amount, handler[r].shares)]
          /\ Goto(r, "created")
    /\ UNCHANGED <<chain, onChain, worker, applied, faults>>

DepositBroadcast(r) == r \in Deposits /\ Broadcast(r)

DepositMarkSubmitted(r) == r \in Deposits /\ RecordHash(r)

DepositAwaitReceipt(r) ==
    /\ r \in Deposits
    /\ AwaitReceipt(r, IF handler[r].isNew THEN "revertPosition" ELSE "revertTransaction")

\* Reverted on chain: a position this request created is failed first ...
DepositRevertPosition(r) ==
    /\ r \in Deposits
    /\ At(r, "revertPosition")
    /\ position' = MarkPositionFailed(position)
    /\ Goto(r, "revertTransaction")
    /\ UNCHANGED <<txn, chain, onChain, worker, applied, faults>>

\* ... then the row is overwritten ...
DepositMarkReverted(r) ==
    /\ r \in Deposits
    /\ At(r, "revertTransaction")
    /\ RowFree(r)
    /\ txn' = [txn EXCEPT ![r] = MarkReverted(@)]
    /\ Goto(r, "reread")
    /\ UNCHANGED <<position, chain, onChain, worker, applied, faults>>

\* ... and the position is read again for the response.
DepositRespondReverted(r) ==
    /\ r \in Deposits
    /\ At(r, "reread")
    /\ Goto(r, "done")
    /\ UNCHANGED <<chain, onChain, worker, faults>> /\ UnchangedDatabase

CreditsDeposit(r) == Confirmable(txn[r])

\* The confirming transaction: the compare-and-set on the row, and the credit
\* only if it applied.  One write to each of two rows, committed together.
DepositConfirm(r) ==
    /\ r \in Deposits
    /\ At(r, "mined")
    /\ RowFree(r)
    /\ \/ ~CreditsDeposit(r) /\ UnchangedDatabase
       \/ /\ CreditsDeposit(r)
          /\ txn' = [txn EXCEPT ![r] = MarkConfirmed(@)]
          /\ position' =
               IF handler[r].isNew
                 THEN Activate(position, handler[r].amount, handler[r].shares)
                 ELSE AddDeposit(position, handler[r].amount, handler[r].shares)
          /\ Apply(r)
    /\ \E pc \in {"done", "catchTransaction"} : CommitAnswered(pc) /\ Goto(r, pc)
    /\ UNCHANGED <<chain, onChain, worker>>

\* The catch block: the row first, then the position this request created.
DepositCatchTransaction(r) ==
    /\ r \in Deposits
    /\ CatchTransaction(r, IF handler[r].isNew THEN "catchPosition" ELSE "done")

DepositCatchPosition(r) ==
    /\ r \in Deposits
    /\ At(r, "catchPosition")
    /\ position' = MarkPositionFailed(position)
    /\ Goto(r, "done")
    /\ UNCHANGED <<txn, chain, onChain, worker, applied, faults>>

DepositStep(r) ==
    \/ DepositAdmit(r) \/ DepositCreate(r)
    \/ DepositBroadcast(r) \/ DepositMarkSubmitted(r) \/ DepositAwaitReceipt(r)
    \/ DepositRevertPosition(r) \/ DepositMarkReverted(r) \/ DepositRespondReverted(r)
    \/ DepositConfirm(r)
    \/ DepositCatchTransaction(r) \/ DepositCatchPosition(r)
=============================================================================
