---------------------------- MODULE EarnApproval ----------------------------
(***************************************************************************)
(* EarnApprovalService.approveVault.  An approval row refers to no         *)
(* position.  The allowance on chain is external: either answer may come.  *)
(***************************************************************************)
EXTENDS EarnState

\* The allowance is read and the row inserted; it is enough already or not.
ApprovalCreate(r) ==
    /\ r \in Approvals
    /\ At(r, "idle")
    /\ txn' = [txn EXCEPT ![r] = CreateTransaction(Amount[r], 0)]
    /\ \E next \in {"created", "sufficient"} : Goto(r, next)
    /\ UNCHANGED <<position, chain, onChain, worker, applied, faults>>

\* Nothing is sent: the row is confirmed at block 0, without a hash.
ApprovalSkip(r) ==
    /\ r \in Approvals
    /\ At(r, "sufficient")
    /\ RowFree(r)
    /\ txn' = [txn EXCEPT ![r] = MarkConfirmed(@)]
    /\ Goto(r, "done")
    /\ UNCHANGED <<position, chain, onChain, worker, applied, faults>>

ApprovalBroadcast(r) == r \in Approvals /\ Broadcast(r)

ApprovalMarkSubmitted(r) == r \in Approvals /\ RecordHash(r)

ApprovalAwaitReceipt(r) == r \in Approvals /\ AwaitReceipt(r, "revertTransaction")

ApprovalConfirm(r) ==
    /\ r \in Approvals
    /\ At(r, "mined")
    /\ RowFree(r)
    /\ txn' = IF Confirmable(txn[r])
                THEN [txn EXCEPT ![r] = MarkConfirmed(@)] ELSE txn
    /\ Goto(r, "reread")
    /\ UNCHANGED <<position, chain, onChain, worker, applied, faults>>

ApprovalMarkReverted(r) ==
    /\ r \in Approvals
    /\ At(r, "revertTransaction")
    /\ RowFree(r)
    /\ txn' = [txn EXCEPT ![r] = MarkReverted(@)]
    /\ Goto(r, "reread")
    /\ UNCHANGED <<position, chain, onChain, worker, applied, faults>>

\* The allowance is read once more, still inside the try block.
ApprovalRespond(r) ==
    /\ r \in Approvals
    /\ At(r, "reread")
    /\ Goto(r, "done")
    /\ UNCHANGED <<chain, onChain, worker, faults>> /\ UnchangedDatabase

ApprovalCatchTransaction(r) == r \in Approvals /\ CatchTransaction(r, "done")

ApprovalStep(r) ==
    \/ ApprovalSkip(r)
    \/ ApprovalBroadcast(r) \/ ApprovalMarkSubmitted(r) \/ ApprovalAwaitReceipt(r)
    \/ ApprovalConfirm(r) \/ ApprovalMarkReverted(r)
    \/ ApprovalRespond(r) \/ ApprovalCatchTransaction(r)
=============================================================================
