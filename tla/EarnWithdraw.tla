---------------------------- MODULE EarnWithdraw ----------------------------
(***************************************************************************)
(* EarnWithdrawService.withdrawPosition, one action per await that reads   *)
(* or writes shared state.                                                 *)
(***************************************************************************)
EXTENDS EarnState

\* resolveWithdrawAmount and previewWithdrawShares (1:1 on Aave): what a full
\* withdrawal takes is what the position held when it was read.
WithdrawAmount(r) ==
    IF r \in FullWithdrawals THEN position.current ELSE Amount[r]

SharesToBurn(r) ==
    IF r \in FullWithdrawals THEN position.shares ELSE Amount[r]

\* findByIdWithVault and the checks made on that one read.
Withdrawable(r) ==
    /\ position.status = "ACTIVE"
    /\ WithdrawAmount(r) <= position.current
    /\ SharesToBurn(r) <= position.shares

WithdrawRead(r) ==
    /\ r \in Withdrawals
    /\ At(r, "idle")
    /\ \/ ~Withdrawable(r) /\ Goto(r, "rejected")
       \/ /\ Withdrawable(r)
          /\ handler' = [handler EXCEPT ![r] =
                [@ EXCEPT !.pc = "read", !.amount = WithdrawAmount(r),
                          !.shares = SharesToBurn(r)]]
    /\ UNCHANGED <<chain, onChain, worker, faults>> /\ UnchangedDatabase

\* readVaultShareBalance and the last amount check.  (The code reads the
\* balance before it compares; the comparisons on the position come first.)
WithdrawReadBalance(r) ==
    /\ r \in Withdrawals
    /\ At(r, "read")
    /\ Goto(r, IF handler[r].shares <= onChain THEN "funded" ELSE "rejected")
    /\ UNCHANGED <<chain, onChain, worker, faults>> /\ UnchangedDatabase

WithdrawPrecheck(r) ==
    /\ r \in Withdrawals
    /\ At(r, "funded")
    /\ Goto(r, IF HasOpenWithdraw THEN "rejected" ELSE "prechecked")
    /\ UNCHANGED <<chain, onChain, worker, faults>> /\ UnchangedDatabase

\* The read at the start of prisma.$transaction; the status of the position
\* is not read again.
WithdrawAdmit(r) ==
    /\ r \in Withdrawals
    /\ At(r, "prechecked")
    /\ Goto(r, IF HasOpenWithdraw THEN "rejected" ELSE "admitted")
    /\ UNCHANGED <<chain, onChain, worker, faults>> /\ UnchangedDatabase

\* The two writes, committed together.
WithdrawCreate(r) ==
    /\ r \in Withdrawals
    /\ At(r, "admitted")
    /\ position' = MarkWithdrawing(position)
    /\ txn' = [txn EXCEPT ![r] =
                 CreateTransaction(handler[r].amount, handler[r].shares)]
    /\ Goto(r, "created")
    /\ UNCHANGED <<chain, onChain, worker, applied, faults>>

WithdrawBroadcast(r) == r \in Withdrawals /\ Broadcast(r)

WithdrawMarkSubmitted(r) == r \in Withdrawals /\ RecordHash(r)

WithdrawAwaitReceipt(r) ==
    r \in Withdrawals /\ AwaitReceipt(r, "revertTransaction")

WithdrawMarkReverted(r) ==
    /\ r \in Withdrawals
    /\ At(r, "revertTransaction")
    /\ RowFree(r)
    /\ txn' = [txn EXCEPT ![r] = MarkReverted(@)]
    /\ Goto(r, "reactivate")
    /\ UNCHANGED <<position, chain, onChain, worker, applied, faults>>

WithdrawReactivate(r) ==
    /\ r \in Withdrawals
    /\ At(r, "reactivate")
    /\ position' = MarkActive(position)
    /\ \E pc \in {"done", "catchTransaction"} : CommitAnswered(pc) /\ Goto(r, pc)
    /\ UNCHANGED <<txn, chain, onChain, worker, applied>>

\* The confirming transaction up to subtractWithdraw's read: the update of the
\* row is not committed yet, but the row is locked.
WithdrawConfirm(r) ==
    /\ r \in Withdrawals
    /\ At(r, "mined")
    /\ RowFree(r)
    /\ \/ ~Confirmable(txn[r]) /\ Goto(r, "done")
       \/ /\ Confirmable(txn[r])
          /\ handler' = [handler EXCEPT ![r] =
                [@ EXCEPT !.pc = "subtract", !.existing = position]]
    /\ UNCHANGED <<chain, onChain, worker, faults>> /\ UnchangedDatabase

\* The write of subtractWithdraw, and the commit.
WithdrawSubtract(r) ==
    /\ r \in Withdrawals
    /\ At(r, "subtract")
    /\ txn' = [txn EXCEPT ![r] = MarkConfirmed(@)]
    /\ position' =
         SubtractWithdraw(handler[r].existing, handler[r].amount, handler[r].shares)
    /\ Apply(r)
    /\ \E pc \in {"done", "catchTransaction"} :
          /\ CommitAnswered(pc)
          /\ handler' = [handler EXCEPT ![r] =
                           [@ EXCEPT !.pc = pc, !.existing = NoPosition]]
    /\ UNCHANGED <<chain, onChain, worker>>

WithdrawCatchTransaction(r) ==
    r \in Withdrawals /\ CatchTransaction(r, "catchPosition")

WithdrawCatchPosition(r) ==
    /\ r \in Withdrawals
    /\ At(r, "catchPosition")
    /\ position' = MarkActive(position)
    /\ Goto(r, "done")
    /\ UNCHANGED <<txn, chain, onChain, worker, applied, faults>>

WithdrawStep(r) ==
    \/ WithdrawReadBalance(r) \/ WithdrawPrecheck(r)
    \/ WithdrawAdmit(r) \/ WithdrawCreate(r)
    \/ WithdrawBroadcast(r) \/ WithdrawMarkSubmitted(r) \/ WithdrawAwaitReceipt(r)
    \/ WithdrawMarkReverted(r) \/ WithdrawReactivate(r)
    \/ WithdrawConfirm(r) \/ WithdrawSubtract(r)
    \/ WithdrawCatchTransaction(r) \/ WithdrawCatchPosition(r)
=============================================================================
