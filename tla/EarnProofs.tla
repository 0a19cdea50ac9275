----------------------------- MODULE EarnProofs -----------------------------
(***************************************************************************)
(* The proofs about Earn, for every set of requests and workers, every     *)
(* amount and every bound on the faults, in seven parts:                   *)
(*                                                                         *)
(*   I    types: TypeOK is inductive;                                      *)
(*   II   rows and receipts: EarnInv is inductive, and AppliedAtMostOnce   *)
(*        and StatusIsTruthful follow;                                     *)
(*   III  amounts: AmountsInv is inductive relative to EarnInv, and gives  *)
(*        what may move the balance and what may reopen a row;             *)
(*   IV   the founding of a position: FoundingInv is inductive relative to *)
(*        both, provided no live handler outlasts the clean-up of its row; *)
(*   V    the books: each step is a step of PositionLedger;                *)
(*   VI   position and chain at rest: without withdrawals both are sums,   *)
(*        and of the same deposits when nothing has failed;                *)
(*   VII  one deposit and one withdrawal: their books are exact.           *)
(*                                                                         *)
(* A step of a handler disturbs one row, its own; a step of a worker       *)
(* disturbs one row, the one it works on.  Frame lemmas say what such a    *)
(* step owes to everybody else, so that each action is looked at only for  *)
(* its own row.                                                            *)
(***************************************************************************)
EXTENDS EarnInvariants, Sums, TLAPS

USE RequestsAssumption, AmountAssumption, BoundsAssumption

(***************************************************************************)
(* Part I     Types                                                        *)
(***************************************************************************)

-----------------------------------------------------------------------------
(* Types *)

\* Every statement on a transaction row leaves a transaction row.
LEMMA TransactionOpsType ==
    /\ NoTransaction \in Transaction
    /\ \A amount, shares \in Int : CreateTransaction(amount, shares) \in Transaction
    /\ \A t \in Transaction :
          /\ \A shares \in Int : MarkSubmitted(t, shares) \in Transaction
          /\ MarkConfirmed(t) \in Transaction
          /\ MarkFailed(t) \in Transaction
          /\ MarkReverted(t) \in Transaction
<1>. USE DEF Transaction, TransactionStatus
<1>1. NoTransaction \in Transaction
  BY DEF NoTransaction
<1>2. \A amount, shares \in Int : CreateTransaction(amount, shares) \in Transaction
  BY DEF CreateTransaction
<1>3. ASSUME NEW t \in Transaction
      PROVE  /\ \A shares \in Int : MarkSubmitted(t, shares) \in Transaction
             /\ MarkConfirmed(t) \in Transaction
             /\ MarkFailed(t) \in Transaction
             /\ MarkReverted(t) \in Transaction
  <2>1. ASSUME NEW shares \in Int
        PROVE  MarkSubmitted(t, shares) \in Transaction
    BY DEF MarkSubmitted
  <2>2. MarkConfirmed(t) \in Transaction
    BY DEF MarkConfirmed
  <2>3. MarkFailed(t) \in Transaction
    BY DEF MarkFailed
  <2>4. MarkReverted(t) \in Transaction
    BY DEF MarkReverted
  <2>. QED
    BY <2>1, <2>2, <2>3, <2>4
<1>. QED
  BY <1>1, <1>2, <1>3

\* Every statement on the position row leaves a position row.
LEMMA PositionOpsType ==
    /\ NoPosition \in Position
    /\ CreatePending \in Position
    /\ \A p \in Position :
          /\ MarkWithdrawing(p) \in Position
          /\ MarkActive(p) \in Position
          /\ MarkPositionFailed(p) \in Position
          /\ \A amount, shares \in Int :
                /\ Activate(p, amount, shares) \in Position
                /\ AddDeposit(p, amount, shares) \in Position
                /\ SubtractWithdraw(p, amount, shares) \in Position
BY DEF Position, PositionStatus, NoPosition, CreatePending, MarkWithdrawing,
       MarkActive, MarkPositionFailed, Activate, AddDeposit, SubtractWithdraw

LEMMA InitTypeOK == Init => TypeOK
<1>1. IdleHandler \in Handler
  BY PositionOpsType DEF IdleHandler, Handler, HandlerPC
<1>2. IdleWorker \in Worker
  BY PositionOpsType DEF IdleWorker, Worker, WorkerPC, HoldingPCs
<1>. QED
  BY <1>1, <1>2, TransactionOpsType, PositionOpsType DEF Init, TypeOK, ChainStatus

\* Moving a handler to another program counter keeps it a handler.
LEMMA GotoType ==
    ASSUME TypeOK, NEW r \in Requests, NEW pc \in HandlerPC, Goto(r, pc)
    PROVE  handler' \in [Requests -> Handler]
BY DEF TypeOK, Goto, Handler

\* So does replacing its record by another one.
LEMMA SetHandlerType ==
    ASSUME TypeOK, NEW r \in Requests, NEW h \in Handler,
           handler' = [handler EXCEPT ![r] = h]
    PROVE  handler' \in [Requests -> Handler]
BY DEF TypeOK

\* Replacing a row by a row keeps the table.
LEMMA SetTxnType ==
    ASSUME TypeOK, NEW r \in Requests, NEW t \in Transaction,
           txn' = [txn EXCEPT ![r] = t]
    PROVE  txn' \in [Requests -> Transaction]
BY DEF TypeOK

LEMMA ApplyType ==
    ASSUME TypeOK, NEW r \in Requests, Apply(r)
    PROVE  applied' \in [Requests -> Nat]
BY DEF TypeOK, Apply

LEMMA CommitAnsweredType ==
    ASSUME TypeOK, NEW pc, CommitAnswered(pc)
    PROVE  faults' \in Nat
BY DEF TypeOK, CommitAnswered, Fault

\* A handler that moves on, alone or with one write.
LEMMA MoveType ==
    ASSUME TypeOK, NEW r \in Requests, NEW pc \in HandlerPC, Goto(r, pc),
           UNCHANGED <<chain, onChain, worker, faults, txn, position, applied>>
    PROVE  TypeOK'
<1>1. handler' \in [Requests -> Handler]
  BY GotoType
<1>. QED
  BY <1>1 DEF TypeOK

LEMMA MovePositionType ==
    ASSUME TypeOK, NEW r \in Requests, NEW pc \in HandlerPC, Goto(r, pc),
           position' \in Position, faults' \in Nat,
           UNCHANGED <<chain, onChain, worker, txn, applied>>
    PROVE  TypeOK'
<1>1. handler' \in [Requests -> Handler]
  BY GotoType
<1>. QED
  BY <1>1 DEF TypeOK

LEMMA MoveRowType ==
    ASSUME TypeOK, NEW r \in Requests, NEW pc \in HandlerPC, Goto(r, pc),
           NEW t \in Transaction, txn' = [txn EXCEPT ![r] = t] \/ txn' = txn,
           UNCHANGED <<chain, onChain, worker, faults, position, applied>>
    PROVE  TypeOK'
<1>1. handler' \in [Requests -> Handler]
  BY GotoType
<1>2. txn' \in [Requests -> Transaction]
  BY DEF TypeOK
<1>. QED
  BY <1>1, <1>2 DEF TypeOK

LEMMA BroadcastType ==
    ASSUME TypeOK, NEW r \in Requests, Broadcast(r)
    PROVE  TypeOK'
<1>1. handler' \in [Requests -> Handler]
  BY GotoType DEF Broadcast, HandlerPC
<1>2. chain' \in [Requests -> ChainStatus]
  BY DEF Broadcast, TypeOK, ChainStatus
<1>. QED
  BY <1>1, <1>2 DEF Broadcast, UnchangedDatabase, TypeOK

LEMMA ReceiptType ==
    ASSUME TypeOK, NEW r \in Requests, NEW pc \in HandlerPC, AwaitReceipt(r, pc)
    PROVE  TypeOK'
<1>1. PICK next \in {"mined", pc} : Goto(r, next)
  BY DEF AwaitReceipt
<1>2. next \in HandlerPC
  BY DEF HandlerPC
<1>. QED
  BY <1>1, <1>2, MoveType DEF AwaitReceipt, UnchangedDatabase

LEMMA CatchType ==
    ASSUME TypeOK, NEW r \in Requests, NEW pc \in HandlerPC, CatchTransaction(r, pc)
    PROVE  TypeOK'
<1>1. MarkFailed(txn[r]) \in Transaction
  BY TransactionOpsType DEF TypeOK
<1>. QED
  BY <1>1, MoveRowType DEF CatchTransaction

LEMMA DepositTypeOK ==
    ASSUME TypeOK, NEW r \in Requests, DepositPrecheck(r) \/ DepositStep(r)
    PROVE  TypeOK'
<1>0. handler[r] \in Handler /\ txn[r] \in Transaction /\ position \in Position
  BY DEF TypeOK
<1>2. CASE DepositAdmit(r)
  <2>. DEFINE h == [handler[r] EXCEPT !.pc = "admitted",
                      !.isNew = (position.status = "NONE"),
                      !.amount = Amount[r], !.shares = Amount[r]]
  <2>0. Amount[r] \in Int
    BY AmountAssumption
  <2>1. h \in Handler
    BY <1>0, <2>0 DEF Handler, HandlerPC
  <2>2. Goto(r, "rejected") \/ handler' = [handler EXCEPT ![r] = h]
    BY <1>2 DEF DepositAdmit
  <2>. HIDE DEF h
  <2>3. handler' \in [Requests -> Handler]
    BY <2>1, <2>2, GotoType, SetHandlerType DEF HandlerPC
  <2>. QED
    BY <1>2, <2>3 DEF DepositAdmit, TypeOK, UnchangedDatabase
<1>3. CASE DepositCreate(r)
  <2>1. CreateTransaction(handler[r].amount, handler[r].shares) \in Transaction
    BY <1>0, TransactionOpsType DEF Handler
  <2>2. txn' \in [Requests -> Transaction]
    BY <1>3, <2>1, SetTxnType DEF DepositCreate, TypeOK
  <2>3. position' \in Position
    BY <1>3, <1>0, PositionOpsType DEF DepositCreate
  <2>4. handler' \in [Requests -> Handler]
    BY <1>3, GotoType DEF DepositCreate, HandlerPC
  <2>. QED
    BY <1>3, <2>2, <2>3, <2>4 DEF DepositCreate, TypeOK
<1>5. CASE DepositMarkSubmitted(r)
  <2>1. MarkSubmitted(txn[r], handler[r].shares) \in Transaction
    BY <1>0, TransactionOpsType DEF Handler
  <2>. QED
    BY <1>5, <2>1, GotoType, SetTxnType
    DEF DepositMarkSubmitted, RecordHash, TypeOK, HandlerPC
<1>10. CASE DepositConfirm(r)
  <2>1. /\ MarkConfirmed(txn[r]) \in Transaction
        /\ Activate(position, handler[r].amount, handler[r].shares) \in Position
        /\ AddDeposit(position, handler[r].amount, handler[r].shares) \in Position
    BY <1>0, TransactionOpsType, PositionOpsType DEF Handler
  <2>2. PICK pc \in {"done", "catchTransaction"} : CommitAnswered(pc) /\ Goto(r, pc)
    BY <1>10 DEF DepositConfirm
  <2>3. handler' \in [Requests -> Handler] /\ faults' \in Nat
    BY <2>2, GotoType, CommitAnsweredType DEF HandlerPC
  <2>. QED
    BY <1>10, <2>1, <2>3, SetTxnType, ApplyType
    DEF DepositConfirm, TypeOK, UnchangedDatabase
<1>1. CASE DepositPrecheck(r)
  <2>1. PICK pc \in {"rejected", "prechecked"} : Goto(r, pc)
    BY <1>1 DEF DepositPrecheck
  <2>. QED
    BY <1>1, <2>1, MoveType DEF DepositPrecheck, HandlerPC, UnchangedDatabase
<1>4. CASE DepositBroadcast(r)
  BY <1>4, BroadcastType DEF DepositBroadcast
<1>6. CASE DepositAwaitReceipt(r)
  <2>1. (IF handler[r].isNew THEN "revertPosition" ELSE "revertTransaction") \in HandlerPC
    BY DEF HandlerPC
  <2>. QED
    BY <1>6, <2>1, ReceiptType DEF DepositAwaitReceipt
<1>7. CASE DepositRevertPosition(r)
  <2>1. MarkPositionFailed(position) \in Position
    BY <1>0, PositionOpsType
  <2>2. faults' \in Nat
    BY <1>7 DEF DepositRevertPosition, TypeOK
  <2>. QED
    BY <1>7, <2>1, <2>2, MovePositionType DEF DepositRevertPosition, HandlerPC
<1>8. CASE DepositMarkReverted(r)
  <2>1. MarkReverted(txn[r]) \in Transaction
    BY <1>0, TransactionOpsType
  <2>. QED
    BY <1>8, <2>1, MoveRowType DEF DepositMarkReverted, HandlerPC
<1>9. CASE DepositRespondReverted(r)
  BY <1>9, MoveType DEF DepositRespondReverted, HandlerPC, UnchangedDatabase
<1>11. CASE DepositCatchTransaction(r)
  <2>1. (IF handler[r].isNew THEN "catchPosition" ELSE "done") \in HandlerPC
    BY DEF HandlerPC
  <2>. QED
    BY <1>11, <2>1, CatchType DEF DepositCatchTransaction
<1>12. CASE DepositCatchPosition(r)
  <2>1. MarkPositionFailed(position) \in Position
    BY <1>0, PositionOpsType
  <2>2. faults' \in Nat
    BY <1>12 DEF DepositCatchPosition, TypeOK
  <2>. QED
    BY <1>12, <2>1, <2>2, MovePositionType DEF DepositCatchPosition, HandlerPC
<1>. QED
  BY <1>1, <1>2, <1>3, <1>4, <1>5, <1>6, <1>7, <1>8, <1>9, <1>10, <1>11, <1>12
  DEF DepositStep

LEMMA WithdrawTypeOK ==
    ASSUME TypeOK, NEW r \in Requests, WithdrawRead(r) \/ WithdrawStep(r)
    PROVE  TypeOK'
<1>0. handler[r] \in Handler /\ txn[r] \in Transaction /\ position \in Position
  BY DEF TypeOK
<1>1. CASE WithdrawRead(r)
  <2>. DEFINE h == [handler[r] EXCEPT !.pc = "read",
                      !.amount = WithdrawAmount(r), !.shares = SharesToBurn(r)]
  <2>1. WithdrawAmount(r) \in Int /\ SharesToBurn(r) \in Int
    BY <1>0 DEF WithdrawAmount, SharesToBurn, Position
  <2>2. h \in Handler
    BY <1>0, <2>1 DEF Handler, HandlerPC
  <2>3. Goto(r, "rejected") \/ handler' = [handler EXCEPT ![r] = h]
    BY <1>1 DEF WithdrawRead
  <2>. HIDE DEF h
  <2>4. handler' \in [Requests -> Handler]
    BY <2>2, <2>3, GotoType, SetHandlerType DEF HandlerPC
  <2>. QED
    BY <1>1, <2>4 DEF WithdrawRead, TypeOK, UnchangedDatabase
<1>5. CASE WithdrawCreate(r)
  <2>1. CreateTransaction(handler[r].amount, handler[r].shares) \in Transaction
    BY <1>0, TransactionOpsType DEF Handler
  <2>2. MarkWithdrawing(position) \in Position
    BY <1>0, PositionOpsType
  <2>. QED
    BY <1>5, <2>1, <2>2, GotoType, SetTxnType DEF WithdrawCreate, TypeOK, HandlerPC
<1>7. CASE WithdrawMarkSubmitted(r)
  <2>1. MarkSubmitted(txn[r], handler[r].shares) \in Transaction
    BY <1>0, TransactionOpsType DEF Handler
  <2>. QED
    BY <1>7, <2>1, GotoType, SetTxnType
    DEF WithdrawMarkSubmitted, RecordHash, TypeOK, HandlerPC
<1>11. CASE WithdrawConfirm(r)
  <2>. DEFINE h == [handler[r] EXCEPT !.pc = "subtract", !.existing = position]
  <2>1. h \in Handler
    BY <1>0 DEF Handler, HandlerPC
  <2>2. Goto(r, "done") \/ handler' = [handler EXCEPT ![r] = h]
    BY <1>11 DEF WithdrawConfirm
  <2>. HIDE DEF h
  <2>3. handler' \in [Requests -> Handler]
    BY <2>1, <2>2, GotoType, SetHandlerType DEF HandlerPC
  <2>. QED
    BY <1>11, <2>3 DEF WithdrawConfirm, TypeOK, UnchangedDatabase
<1>12. CASE WithdrawSubtract(r)
  <2>0. PICK pc \in {"done", "catchTransaction"} :
          /\ CommitAnswered(pc)
          /\ handler' = [handler EXCEPT ![r] = [@ EXCEPT !.pc = pc, !.existing = NoPosition]]
    BY <1>12 DEF WithdrawSubtract
  <2>. DEFINE h == [handler[r] EXCEPT !.pc = pc, !.existing = NoPosition]
  <2>1. h \in Handler
    BY <1>0, PositionOpsType DEF Handler, HandlerPC
  <2>2. handler' = [handler EXCEPT ![r] = h]
    BY <2>0
  <2>. HIDE DEF h
  <2>3. handler' \in [Requests -> Handler] /\ faults' \in Nat
    BY <2>0, <2>1, <2>2, SetHandlerType, CommitAnsweredType
  <2>4. /\ MarkConfirmed(txn[r]) \in Transaction
        /\ SubtractWithdraw(handler[r].existing, handler[r].amount, handler[r].shares)
              \in Position
    BY <1>0, TransactionOpsType, PositionOpsType DEF Handler
  <2>. QED
    BY <1>12, <2>3, <2>4, SetTxnType, ApplyType DEF WithdrawSubtract, TypeOK
<1>2. CASE WithdrawReadBalance(r)
  <2>1. PICK pc \in {"funded", "rejected"} : Goto(r, pc)
    BY <1>2 DEF WithdrawReadBalance
  <2>. QED
    BY <1>2, <2>1, MoveType DEF WithdrawReadBalance, HandlerPC, UnchangedDatabase
<1>3. CASE WithdrawPrecheck(r)
  <2>1. PICK pc \in {"rejected", "prechecked"} : Goto(r, pc)
    BY <1>3 DEF WithdrawPrecheck
  <2>. QED
    BY <1>3, <2>1, MoveType DEF WithdrawPrecheck, HandlerPC, UnchangedDatabase
<1>4. CASE WithdrawAdmit(r)
  <2>1. PICK pc \in {"rejected", "admitted"} : Goto(r, pc)
    BY <1>4 DEF WithdrawAdmit
  <2>. QED
    BY <1>4, <2>1, MoveType DEF WithdrawAdmit, HandlerPC, UnchangedDatabase
<1>6. CASE WithdrawBroadcast(r)
  BY <1>6, BroadcastType DEF WithdrawBroadcast
<1>8. CASE WithdrawAwaitReceipt(r)
  BY <1>8, ReceiptType DEF WithdrawAwaitReceipt, HandlerPC
<1>9. CASE WithdrawMarkReverted(r)
  <2>1. MarkReverted(txn[r]) \in Transaction
    BY <1>0, TransactionOpsType
  <2>. QED
    BY <1>9, <2>1, MoveRowType DEF WithdrawMarkReverted, HandlerPC
<1>10. CASE WithdrawReactivate(r)
  <2>1. MarkActive(position) \in Position
    BY <1>0, PositionOpsType
  <2>2. PICK pc \in {"done", "catchTransaction"} : CommitAnswered(pc) /\ Goto(r, pc)
    BY <1>10 DEF WithdrawReactivate
  <2>3. faults' \in Nat
    BY <2>2, CommitAnsweredType
  <2>. QED
    BY <1>10, <2>1, <2>2, <2>3, MovePositionType DEF WithdrawReactivate, HandlerPC
<1>13. CASE WithdrawCatchTransaction(r)
  BY <1>13, CatchType DEF WithdrawCatchTransaction, HandlerPC
<1>14. CASE WithdrawCatchPosition(r)
  <2>1. MarkActive(position) \in Position
    BY <1>0, PositionOpsType
  <2>2. faults' \in Nat
    BY <1>14 DEF WithdrawCatchPosition, TypeOK
  <2>. QED
    BY <1>14, <2>1, <2>2, MovePositionType DEF WithdrawCatchPosition, HandlerPC
<1>. QED
  BY <1>1, <1>2, <1>3, <1>4, <1>5, <1>6, <1>7, <1>8, <1>9, <1>10, <1>11, <1>12,
     <1>13, <1>14
  DEF WithdrawStep

LEMMA ApprovalTypeOK ==
    ASSUME TypeOK, NEW r \in Requests, ApprovalCreate(r) \/ ApprovalStep(r)
    PROVE  TypeOK'
<1>0. handler[r] \in Handler /\ txn[r] \in Transaction
  BY DEF TypeOK
<1>1. CASE ApprovalCreate(r)
  <2>1. CreateTransaction(Amount[r], 0) \in Transaction
    BY TransactionOpsType, AmountAssumption
  <2>2. PICK next \in {"created", "sufficient"} : Goto(r, next)
    BY <1>1 DEF ApprovalCreate
  <2>3. handler' \in [Requests -> Handler]
    BY <2>2, GotoType DEF HandlerPC
  <2>. QED
    BY <1>1, <2>1, <2>3, SetTxnType DEF ApprovalCreate, TypeOK
<1>4. CASE ApprovalMarkSubmitted(r)
  <2>1. MarkSubmitted(txn[r], handler[r].shares) \in Transaction
    BY <1>0, TransactionOpsType DEF Handler
  <2>. QED
    BY <1>4, <2>1, GotoType, SetTxnType
    DEF ApprovalMarkSubmitted, RecordHash, TypeOK, HandlerPC
<1>2. CASE ApprovalSkip(r)
  <2>1. MarkConfirmed(txn[r]) \in Transaction
    BY <1>0, TransactionOpsType
  <2>. QED
    BY <1>2, <2>1, MoveRowType DEF ApprovalSkip, HandlerPC
<1>3. CASE ApprovalBroadcast(r)
  BY <1>3, BroadcastType DEF ApprovalBroadcast
<1>5. CASE ApprovalAwaitReceipt(r)
  BY <1>5, ReceiptType DEF ApprovalAwaitReceipt, HandlerPC
<1>6. CASE ApprovalConfirm(r)
  <2>1. MarkConfirmed(txn[r]) \in Transaction
    BY <1>0, TransactionOpsType
  <2>. QED
    BY <1>6, <2>1, MoveRowType DEF ApprovalConfirm, HandlerPC
<1>7. CASE ApprovalMarkReverted(r)
  <2>1. MarkReverted(txn[r]) \in Transaction
    BY <1>0, TransactionOpsType
  <2>. QED
    BY <1>7, <2>1, MoveRowType DEF ApprovalMarkReverted, HandlerPC
<1>8. CASE ApprovalRespond(r)
  BY <1>8, MoveType DEF ApprovalRespond, HandlerPC, UnchangedDatabase
<1>9. CASE ApprovalCatchTransaction(r)
  BY <1>9, CatchType DEF ApprovalCatchTransaction, HandlerPC
<1>. QED
  BY <1>1, <1>2, <1>3, <1>4, <1>5, <1>6, <1>7, <1>8, <1>9 DEF ApprovalStep

LEMMA HandlerFailsTypeOK ==
    ASSUME TypeOK, NEW r \in Requests, HandlerFails(r) \/ Mine(r)
    PROVE  TypeOK'
<1>0. handler[r] \in Handler /\ txn[r] \in Transaction
  BY DEF TypeOK
<1>1. CASE BroadcastAnswerLost(r)
  BY <1>1, GotoType
  DEF BroadcastAnswerLost, Fault, TypeOK, ChainStatus, HandlerPC, UnchangedDatabase
<1>2. CASE HandlerThrows(r)
  <2>. DEFINE h == [handler[r] EXCEPT !.pc = "catchTransaction", !.existing = NoPosition]
  <2>1. h \in Handler
    BY <1>0, PositionOpsType DEF Handler, HandlerPC
  <2>2. handler' = [handler EXCEPT ![r] = h]
    BY <1>2 DEF HandlerThrows
  <2>. HIDE DEF h
  <2>3. handler' \in [Requests -> Handler]
    BY <2>1, <2>2, SetHandlerType
  <2>. QED
    BY <1>2, <2>3 DEF HandlerThrows, Fault, TypeOK, UnchangedDatabase
<1>3. CASE HandlerCrashes(r)
  <2>. DEFINE h == [handler[r] EXCEPT !.pc = "crashed", !.existing = NoPosition]
  <2>1. h \in Handler
    BY <1>0, PositionOpsType DEF Handler, HandlerPC
  <2>2. handler' = [handler EXCEPT ![r] = h]
    BY <1>3 DEF HandlerCrashes
  <2>. HIDE DEF h
  <2>3. handler' \in [Requests -> Handler]
    BY <2>1, <2>2, SetHandlerType
  <2>. QED
    BY <1>3, <2>3 DEF HandlerCrashes, Fault, TypeOK, UnchangedDatabase
<1>4. CASE Mine(r)
  <2>1. OnChainAfter(r) \in Int
    BY <1>0, AmountAssumption DEF OnChainAfter, TypeOK, Transaction
  <2>. QED
    BY <1>4, <2>1 DEF Mine, TypeOK, ChainStatus, UnchangedDatabase
<1>. QED
  BY <1>1, <1>2, <1>3, <1>4 DEF HandlerFails

\* The records a worker's step leaves behind.
LEMMA WorkerRecords ==
    ASSUME TypeOK, NEW w \in Workers
    PROVE  /\ IdleWorker \in Worker
           /\ NextItem(w) \in Worker
           /\ \A r \in Requests :
                 DropItem(w, r) \in Worker /\ \A pc \in WorkerPC : Hold(w, r, pc) \in Worker
           /\ \A pc \in WorkerPC \ HoldingPCs : [worker[w] EXCEPT !.pc = pc] \in Worker
<1>1. worker[w] \in Worker
  BY DEF TypeOK
<1>. USE DEF Worker, HoldingPCs
<1>2. IdleWorker \in Worker
  BY PositionOpsType DEF IdleWorker, WorkerPC
<1>3. \A r \in Requests : DropItem(w, r) \in Worker
  BY <1>1 DEF DropItem
<1>4. NextItem(w) \in Worker
  BY <1>1, PositionOpsType DEF NextItem, WorkerPC
<1>5. \A r \in Requests, pc \in WorkerPC : Hold(w, r, pc) \in Worker
  BY <1>1 DEF Hold
<1>6. \A pc \in WorkerPC \ HoldingPCs : [worker[w] EXCEPT !.pc = pc] \in Worker
  BY <1>1
<1>. QED
  BY <1>2, <1>3, <1>4, <1>5, <1>6

LEMMA SetWorkerType ==
    ASSUME TypeOK, NEW w \in Workers, NEW new \in Worker, SetWorker(w, new)
    PROVE  worker' \in [Workers -> Worker]
BY DEF TypeOK, SetWorker

LEMMA StaleTypeOK ==
    ASSUME TypeOK, NEW w \in Workers,
           \/ ReconcileStart(w) \/ StaleReadPosition(w) \/ StaleFailPosition(w)
           \/ \E r \in Requests : StaleMarkFailed(w, r)
    PROVE  TypeOK'
<1>0. worker[w] \in Worker /\ \A r \in Requests : txn[r] \in Transaction
  BY DEF TypeOK
<1>1. CASE ReconcileStart(w)
  <2>. DEFINE new == [IdleWorker EXCEPT !.pc = "stale", !.stale = StaleRows]
  <2>1. new \in Worker
    BY PositionOpsType DEF IdleWorker, Worker, WorkerPC, HoldingPCs, StaleRows
  <2>2. SetWorker(w, new)
    BY <1>1 DEF ReconcileStart
  <2>. HIDE DEF new
  <2>. QED
    BY <1>1, <2>1, <2>2, SetWorkerType
    DEF ReconcileStart, TypeOK, UnchangedByWorker, UnchangedDatabase
<1>2. ASSUME NEW r \in Requests, StaleMarkFailed(w, r)
      PROVE  TypeOK'
  <2>. DEFINE new == [worker[w] EXCEPT
                        !.stale = @ \ {r},
                        !.pc = IF r \in Deposits THEN "staleRead" ELSE "stale"]
  <2>1. new \in Worker
    BY <1>0 DEF Worker, WorkerPC, HoldingPCs
  <2>2. SetWorker(w, new)
    BY <1>2 DEF StaleMarkFailed
  <2>. HIDE DEF new
  <2>3. worker' \in [Workers -> Worker]
    BY <2>1, <2>2, SetWorkerType
  <2>. QED
    BY <1>2, <1>0, <2>3, TransactionOpsType, SetTxnType
    DEF StaleMarkFailed, TypeOK, UnchangedByWorker
<1>3. CASE StaleReadPosition(w)
  <2>1. PICK pc \in {"stale", "staleFail"} : SetWorker(w, [worker[w] EXCEPT !.pc = pc])
    BY <1>3 DEF StaleReadPosition
  <2>2. worker' \in [Workers -> Worker]
    BY <2>1, WorkerRecords, SetWorkerType DEF WorkerPC, HoldingPCs
  <2>. QED
    BY <1>3, <2>2 DEF StaleReadPosition, TypeOK, UnchangedByWorker, UnchangedDatabase
<1>4. CASE StaleFailPosition(w)
  <2>1. SetWorker(w, [worker[w] EXCEPT !.pc = "stale"])
    BY <1>4 DEF StaleFailPosition
  <2>2. worker' \in [Workers -> Worker]
    BY <2>1, WorkerRecords, SetWorkerType DEF WorkerPC, HoldingPCs
  <2>. QED
    BY <1>4, <2>2, PositionOpsType DEF StaleFailPosition, TypeOK, UnchangedByWorker
<1>. QED
  BY <1>1, <1>2, <1>3, <1>4

\* A worker that lists rows, drops one or takes one in hand.
LEMMA PendingTypeOK ==
    ASSUME TypeOK, NEW w \in Workers,
           \/ ListPending(w) \/ ReconcileEnd(w)
           \/ \E r \in Requests :
                 \/ ReceiptMissing(w, r)
                 \/ ConfirmApproval(w, r) \/ ConfirmDeposit(w, r) \/ ConfirmWithdraw(w, r)
                 \/ HandleReverted(w, r)
    PROVE  TypeOK'
<1>0. /\ worker[w] \in Worker
      /\ \A r \in Requests : /\ MarkConfirmed(txn[r]) \in Transaction
                             /\ MarkReverted(txn[r]) \in Transaction
  BY TransactionOpsType DEF TypeOK
<1>. USE DEF UnchangedByWorker, UnchangedDatabase
<1>1. CASE ListPending(w)
  <2>. DEFINE new == [worker[w] EXCEPT
                        !.pc = "pending",
                        !.pending = {q \in Requests : IsPendingReconciliation(txn[q])}]
  <2>1. new \in Worker
    BY <1>0 DEF Worker, WorkerPC, HoldingPCs
  <2>2. SetWorker(w, new)
    BY <1>1 DEF ListPending
  <2>. HIDE DEF new
  <2>. QED
    BY <1>1, <2>1, <2>2, SetWorkerType DEF ListPending, TypeOK
<1>2. CASE ReconcileEnd(w)
  BY <1>2, WorkerRecords, SetWorkerType DEF ReconcileEnd, TypeOK
<1>3. ASSUME NEW r \in Requests, ReceiptMissing(w, r)
      PROVE  TypeOK'
  BY <1>3, WorkerRecords, SetWorkerType DEF ReceiptMissing, TypeOK
<1>4. ASSUME NEW r \in Requests, ConfirmApproval(w, r)
      PROVE  TypeOK'
  <2>1. worker' \in [Workers -> Worker]
    BY <1>4, WorkerRecords, SetWorkerType DEF ConfirmApproval
  <2>. QED
    BY <1>4, <2>1, <1>0, SetTxnType DEF ConfirmApproval, TypeOK
<1>5. ASSUME NEW r \in Requests, ConfirmDeposit(w, r)
      PROVE  TypeOK'
  <2>1. worker' \in [Workers -> Worker]
    BY <1>5, WorkerRecords, SetWorkerType DEF ConfirmDeposit, WorkerPC
  <2>2. txn' = txn \/ txn' = [txn EXCEPT ![r] = MarkConfirmed(@)]
    BY <1>5 DEF ConfirmDeposit
  <2>3. UNCHANGED <<position, applied, faults>>
    BY <1>5 DEF ConfirmDeposit
  <2>4. txn' \in [Requests -> Transaction]
    BY <2>2, <1>0, SetTxnType DEF TypeOK
  <2>. QED
    BY <1>5, <2>1, <2>3, <2>4 DEF ConfirmDeposit, TypeOK
<1>6. ASSUME NEW r \in Requests, ConfirmWithdraw(w, r)
      PROVE  TypeOK'
  <2>1. worker' \in [Workers -> Worker]
    BY <1>6, WorkerRecords, SetWorkerType DEF ConfirmWithdraw, WorkerPC
  <2>2. txn' = txn \/ txn' = [txn EXCEPT ![r] = MarkConfirmed(@)]
    BY <1>6 DEF ConfirmWithdraw
  <2>3. UNCHANGED <<position, applied, faults>>
    BY <1>6 DEF ConfirmWithdraw
  <2>4. txn' \in [Requests -> Transaction]
    BY <2>2, <1>0, SetTxnType DEF TypeOK
  <2>. QED
    BY <1>6, <2>1, <2>3, <2>4 DEF ConfirmWithdraw, TypeOK
<1>7. ASSUME NEW r \in Requests, HandleReverted(w, r)
      PROVE  TypeOK'
  <2>1. worker' \in [Workers -> Worker]
    BY <1>7, WorkerRecords, SetWorkerType DEF HandleReverted, WorkerPC
  <2>2. txn' \in [Requests -> Transaction]
    BY <1>7, <1>0, SetTxnType DEF HandleReverted, TypeOK
  <2>. QED
    BY <1>7, <2>1, <2>2 DEF HandleReverted, TypeOK
<1>. QED
  BY <1>1, <1>2, <1>3, <1>4, <1>5, <1>6, <1>7

\* A worker with an item in hand.
LEMMA CommitTypeOK ==
    ASSUME TypeOK, NEW w \in Workers,
           \/ ActivateAndCommit(w) \/ SubtractRead(w) \/ SubtractAndCommit(w)
           \/ RevertPositionAndCommit(w)
    PROVE  TypeOK'
<1>0. worker[w] \in Worker /\ worker[w].item \in Requests
  BY DEF TypeOK, Worker, HoldingPCs, ActivateAndCommit, SubtractRead,
         SubtractAndCommit, RevertPositionAndCommit, WorkerAt
<1>. PICK r \in Requests : r = worker[w].item
  BY <1>0
<1>1. txn[r] \in Transaction /\ worker[w].existing \in Position
  BY <1>0 DEF TypeOK, Worker
<1>. USE DEF UnchangedByWorker, UnchangedDatabase
<1>2. CASE ActivateAndCommit(w)
  <2>1. worker' \in [Workers -> Worker]
    BY <1>2, WorkerRecords, SetWorkerType DEF ActivateAndCommit
  <2>2. Activate(position, txn[r].amount, txn[r].shares) \in Position
    BY <1>1, PositionOpsType DEF TypeOK, Transaction
  <2>. QED
    BY <1>2, <1>0, <1>1, <2>1, <2>2, TransactionOpsType, SetTxnType, ApplyType
    DEF ActivateAndCommit, TypeOK
<1>3. CASE SubtractRead(w)
  <2>. DEFINE new == [worker[w] EXCEPT !.pc = "subtract", !.existing = position]
  <2>1. new \in Worker
    BY <1>0 DEF Worker, WorkerPC, HoldingPCs, TypeOK
  <2>2. SetWorker(w, new)
    BY <1>3 DEF SubtractRead
  <2>. HIDE DEF new
  <2>. QED
    BY <1>3, <2>1, <2>2, SetWorkerType DEF SubtractRead, TypeOK
<1>4. CASE SubtractAndCommit(w)
  <2>1. worker' \in [Workers -> Worker]
    BY <1>4, WorkerRecords, SetWorkerType DEF SubtractAndCommit
  <2>2. SubtractWithdraw(worker[w].existing, txn[r].amount, txn[r].shares) \in Position
    BY <1>1, PositionOpsType DEF Transaction
  <2>. QED
    BY <1>4, <1>0, <1>1, <2>1, <2>2, TransactionOpsType, SetTxnType, ApplyType
    DEF SubtractAndCommit, TypeOK
<1>5. CASE RevertPositionAndCommit(w)
  <2>1. worker' \in [Workers -> Worker]
    BY <1>5, WorkerRecords, SetWorkerType DEF RevertPositionAndCommit
  <2>2. position' \in Position
    BY <1>5, PositionOpsType DEF RevertPositionAndCommit, TypeOK
  <2>. QED
    BY <1>5, <1>0, <1>1, <2>1, <2>2, TransactionOpsType, SetTxnType
    DEF RevertPositionAndCommit, TypeOK
<1>. QED
  BY <1>2, <1>3, <1>4, <1>5

LEMMA WorkerFailsTypeOK ==
    ASSUME TypeOK, NEW w \in Workers, WorkerFails(w)
    PROVE  TypeOK'
<1>1. \E new \in Worker : SetWorker(w, new)
  BY WorkerRecords DEF WorkerFails, ItemThrows, RunAborts, TypeOK, Worker
<1>2. worker' \in [Workers -> Worker]
  BY <1>1, SetWorkerType
<1>. QED
  BY <1>2 DEF WorkerFails, ItemThrows, RunAborts, Fault, TypeOK, UnchangedByWorker,
              UnchangedDatabase

LEMMA NextTypeOK == TypeOK /\ [Next]_vars => TypeOK'
<1>. SUFFICES ASSUME TypeOK, [Next]_vars PROVE TypeOK'
  OBVIOUS
<1>1. ASSUME NEW r \in Requests,
             RequestArrives(r) \/ HandlerStep(r) \/ HandlerFails(r) \/ Mine(r)
      PROVE  TypeOK'
  BY <1>1, DepositTypeOK, WithdrawTypeOK, ApprovalTypeOK, HandlerFailsTypeOK
  DEF RequestArrives, HandlerStep
<1>2. ASSUME NEW w \in Workers, ReconcileStep(w) \/ WorkerFails(w)
      PROVE  TypeOK'
  BY <1>2, StaleTypeOK, PendingTypeOK, CommitTypeOK, WorkerFailsTypeOK
  DEF ReconcileStep
<1>3. CASE UNCHANGED vars
  BY <1>3 DEF TypeOK, vars
<1>. QED
  BY <1>1, <1>2, <1>3 DEF Next

\* Every variable keeps its type, whatever fails; in particular a worker that
\* is inside a database transaction always has a row in hand, and the history
\* variable stays a number.
THEOREM TypeCorrect == Spec => []TypeOK
<1>. QED
  BY InitTypeOK, NextTypeOK, PTL DEF Spec

(***************************************************************************)
(* Part II    Rows and receipts                                            *)
(***************************************************************************)

-----------------------------------------------------------------------------
(* Steps of a handler *)

\* Nothing but the row, the receipt, the program counter and the count of r
\* moves ...
TouchesOnly(r) ==
    /\ UNCHANGED worker
    /\ \A q \in Requests \ {r} :
          /\ txn'[q] = txn[q] /\ chain'[q] = chain[q]
          /\ handler'[q].pc = handler[q].pc /\ applied'[q] = applied[q]

\* ... and it moves in a way the workers are prepared for: hashes and receipts
\* stay, and the status of a row changes only while no worker has it locked.
RowMoves(r) ==
    /\ txn[r].hash => txn'[r].hash
    /\ txn[r].status # "NONE" => txn'[r].status # "NONE"
    /\ chain[r] \in {"success", "reverted"} => chain'[r] = chain[r]
    /\ txn'[r].status # txn[r].status =>
          RowFree(r) \/ handler[r].pc = "subtract" \/ txn[r].status = "NONE"
    /\ handler'[r].pc = "subtract" => RowFree(r) \/ handler[r].pc = "subtract"

RowStep(r) == TouchesOnly(r) /\ RowMoves(r) /\ RowInv(r)'

LEMMA HandlerFrame ==
    ASSUME EarnInv, TypeOK', NEW r \in Requests, RowStep(r)
    PROVE  EarnInv'
<1>1. ASSUME NEW q \in Requests
      PROVE  RowInv(q)'
  <2>1. CASE q = r
    BY <2>1 DEF RowStep
  <2>2. CASE q # r
    <3>1. RowInv(q)
      BY DEF EarnInv
    <3>. QED
      BY <2>2, <3>1
      DEF RowStep, TouchesOnly, RowInv, HandlerKnowsRow, RowKnowsChain, Truthful
  <2>. QED
    BY <2>1, <2>2
<1>2. ASSUME NEW w \in Workers
      PROVE  WorkerInv(w)'
  <2>1. WorkerInv(w) /\ worker[w] \in Worker
    BY DEF EarnInv, TypeOK
  <2>2. HolderKnowsRow(w)'
    <3>1. SUFFICES ASSUME worker[w].pc \in HoldingPCs
                   PROVE  HolderKnowsRow(w)'
      BY DEF HolderKnowsRow, HoldingPCs, RowStep, TouchesOnly
    <3>2. worker[w].item \in Requests
      BY <2>1, <3>1 DEF Worker
    <3>3. CASE worker[w].item # r
      BY <2>1, <3>1, <3>2, <3>3 DEF WorkerInv, HolderKnowsRow, RowStep, TouchesOnly
    <3>4. CASE worker[w].item = r
      BY <2>1, <3>1, <3>2, <3>4
      DEF WorkerInv, HolderKnowsRow, RowStep, TouchesOnly, RowMoves, RowFree, HoldingPCs
    <3>. QED
      BY <3>3, <3>4
  <2>3. ListsAreRows(w)'
    BY <2>1 DEF WorkerInv, ListsAreRows, RowStep, TouchesOnly, RowMoves, Worker
  <2>. QED
    BY <2>2, <2>3 DEF WorkerInv
<1>. QED
  BY <1>1, <1>2 DEF EarnInv

\* A handler that only looked around.
LEMMA SameRowStep ==
    ASSUME NEW r \in Requests, RowInv(r), UNCHANGED <<txn, chain, applied, worker>>,
           \A q \in Requests \ {r} : handler'[q] = handler[q],
           \/ handler[r].pc \in BeforeRow /\ handler'[r].pc \in BeforeRow
           \/ handler[r].pc \in AfterSuccess /\ handler'[r].pc = "done"
           \/ /\ handler[r].pc \in AfterSuccess /\ handler'[r].pc = "subtract"
              /\ txn[r].status = "SUBMITTED" /\ RowFree(r)
    PROVE  RowStep(r)
BY DEF RowStep, TouchesOnly, RowMoves, RowInv, HandlerKnowsRow, RowKnowsChain,
       Truthful, BeforeRow, BeforeHash, AfterSuccess, AfterRevert

LEMMA DepositRowStep ==
    ASSUME TypeOK, NEW r \in Requests, RowInv(r), DepositPrecheck(r) \/ DepositStep(r)
    PROVE  RowStep(r)
<1>0. handler[r] \in Handler /\ txn[r] \in Transaction /\ applied[r] \in Nat
  BY DEF TypeOK
<1>2. CASE DepositAdmit(r)
  <2>. DEFINE h == [handler[r] EXCEPT !.pc = "admitted",
                      !.isNew = (position.status = "NONE"),
                      !.amount = Amount[r], !.shares = Amount[r]]
  <2>1. h.pc = "admitted"
    BY <1>0 DEF Handler
  <2>2. Goto(r, "rejected") \/ handler' = [handler EXCEPT ![r] = h]
    BY <1>2 DEF DepositAdmit
  <2>. HIDE DEF h
  <2>3. /\ handler'[r].pc = "rejected" \/ handler'[r].pc = "admitted"
        /\ \A q \in Requests \ {r} : handler'[q] = handler[q]
    BY <1>0, <2>1, <2>2 DEF TypeOK, Goto, Handler
  <2>4. At(r, "prechecked") /\ UNCHANGED <<txn, chain, applied, worker>>
    BY <1>2 DEF DepositAdmit, UnchangedDatabase
  <2>. QED
    BY <2>3, <2>4, SameRowStep DEF BeforeRow, At
<1>. USE DEF RowStep, TouchesOnly, RowMoves, RowInv, HandlerKnowsRow, RowKnowsChain,
             Truthful, BeforeRow, BeforeHash, AfterSuccess, AfterRevert,
             TypeOK, Goto, At, UnchangedDatabase
<1>1. CASE DepositPrecheck(r)
  BY <1>1 DEF DepositPrecheck
<1>3. CASE DepositCreate(r)
  <2>1. CASE Goto(r, "rejected") /\ UNCHANGED txn
    BY <1>3, <2>1 DEF DepositCreate
  <2>2. CASE /\ Goto(r, "created")
             /\ txn' = [txn EXCEPT ![r] =
                          CreateTransaction(handler[r].amount, handler[r].shares)]
    BY <1>3, <2>2 DEF DepositCreate, CreateTransaction, NoTransaction
  <2>. QED
    BY <1>3, <2>1, <2>2 DEF DepositCreate
<1>4. CASE DepositBroadcast(r)
  BY <1>4 DEF DepositBroadcast, Broadcast
<1>5. CASE DepositMarkSubmitted(r)
  BY <1>5, <1>0 DEF DepositMarkSubmitted, RecordHash, MarkSubmitted, Transaction
<1>6. CASE DepositAwaitReceipt(r)
  <2>. DEFINE onRevert == IF handler[r].isNew THEN "revertPosition" ELSE "revertTransaction"
  <2>1. CASE chain[r] = "success" /\ Goto(r, "mined")
    BY <1>6, <2>1 DEF DepositAwaitReceipt, AwaitReceipt
  <2>2. CASE chain[r] = "reverted" /\ Goto(r, onRevert)
    <3>1. onRevert \in {"revertPosition", "revertTransaction"}
      OBVIOUS
    <3>. HIDE DEF onRevert
    <3>. QED
      BY <1>6, <2>2, <3>1 DEF DepositAwaitReceipt, AwaitReceipt
  <2>. QED
    BY <1>6, <2>1, <2>2 DEF DepositAwaitReceipt, AwaitReceipt
<1>7. CASE DepositRevertPosition(r)
  BY <1>7 DEF DepositRevertPosition
<1>8. CASE DepositMarkReverted(r)
  BY <1>8, <1>0 DEF DepositMarkReverted, MarkReverted, Transaction
<1>9. CASE DepositRespondReverted(r)
  BY <1>9 DEF DepositRespondReverted
<1>10. CASE DepositConfirm(r)
  BY <1>10, <1>0 DEF DepositConfirm, MarkConfirmed, Transaction, CreditsDeposit,
                     Confirmable, Apply
<1>11. CASE DepositCatchTransaction(r)
  BY <1>11, <1>0 DEF DepositCatchTransaction, CatchTransaction, MarkFailed, Transaction
<1>12. CASE DepositCatchPosition(r)
  BY <1>12 DEF DepositCatchPosition
<1>. QED
  BY <1>1, <1>2, <1>3, <1>4, <1>5, <1>6, <1>7, <1>8, <1>9, <1>10, <1>11, <1>12
  DEF DepositStep

LEMMA ApprovalRowStep ==
    ASSUME TypeOK, NEW r \in Requests, RowInv(r), ApprovalCreate(r) \/ ApprovalStep(r)
    PROVE  RowStep(r)
<1>0. handler[r] \in Handler /\ txn[r] \in Transaction /\ applied[r] \in Nat
  BY DEF TypeOK
<1>. USE DEF RowStep, TouchesOnly, RowMoves, RowInv, HandlerKnowsRow, RowKnowsChain,
             Truthful, BeforeRow, BeforeHash, AfterSuccess, AfterRevert,
             TypeOK, Goto, At, UnchangedDatabase
<1>1. CASE ApprovalCreate(r)
  BY <1>1 DEF ApprovalCreate, CreateTransaction, NoTransaction
<1>2. CASE ApprovalSkip(r)
  BY <1>2, <1>0 DEF ApprovalSkip, MarkConfirmed, Transaction
<1>3. CASE ApprovalBroadcast(r)
  BY <1>3 DEF ApprovalBroadcast, Broadcast
<1>4. CASE ApprovalMarkSubmitted(r)
  BY <1>4, <1>0 DEF ApprovalMarkSubmitted, RecordHash, MarkSubmitted, Transaction
<1>5. CASE ApprovalAwaitReceipt(r)
  <2>1. CASE chain[r] = "success" /\ Goto(r, "mined")
    BY <1>5, <2>1 DEF ApprovalAwaitReceipt, AwaitReceipt
  <2>2. CASE chain[r] = "reverted" /\ Goto(r, "revertTransaction")
    BY <1>5, <2>2 DEF ApprovalAwaitReceipt, AwaitReceipt
  <2>. QED
    BY <1>5, <2>1, <2>2 DEF ApprovalAwaitReceipt, AwaitReceipt
<1>6. CASE ApprovalConfirm(r)
  BY <1>6, <1>0 DEF ApprovalConfirm, MarkConfirmed, Transaction, Confirmable
<1>7. CASE ApprovalMarkReverted(r)
  BY <1>7, <1>0 DEF ApprovalMarkReverted, MarkReverted, Transaction
<1>8. CASE ApprovalRespond(r)
  BY <1>8 DEF ApprovalRespond
<1>9. CASE ApprovalCatchTransaction(r)
  BY <1>9, <1>0 DEF ApprovalCatchTransaction, CatchTransaction, MarkFailed, Transaction
<1>. QED
  BY <1>1, <1>2, <1>3, <1>4, <1>5, <1>6, <1>7, <1>8, <1>9 DEF ApprovalStep

LEMMA WithdrawRowStep ==
    ASSUME TypeOK, NEW r \in Requests, RowInv(r), WithdrawRead(r) \/ WithdrawStep(r)
    PROVE  RowStep(r)
<1>0. handler[r] \in Handler /\ txn[r] \in Transaction /\ applied[r] \in Nat
  BY DEF TypeOK
<1>1. CASE WithdrawRead(r)
  <2>. DEFINE h == [handler[r] EXCEPT !.pc = "read",
                      !.amount = WithdrawAmount(r), !.shares = SharesToBurn(r)]
  <2>1. h.pc = "read"
    BY <1>0 DEF Handler
  <2>2. Goto(r, "rejected") \/ handler' = [handler EXCEPT ![r] = h]
    BY <1>1 DEF WithdrawRead
  <2>. HIDE DEF h
  <2>3. /\ handler'[r].pc = "rejected" \/ handler'[r].pc = "read"
        /\ \A q \in Requests \ {r} : handler'[q] = handler[q]
    BY <1>0, <2>1, <2>2 DEF TypeOK, Goto, Handler
  <2>4. At(r, "idle") /\ UNCHANGED <<txn, chain, applied, worker>>
    BY <1>1 DEF WithdrawRead, UnchangedDatabase
  <2>. QED
    BY <2>3, <2>4, SameRowStep DEF BeforeRow, At
<1>11. CASE WithdrawConfirm(r)
  <2>. DEFINE h == [handler[r] EXCEPT !.pc = "subtract", !.existing = position]
  <2>1. h.pc = "subtract"
    BY <1>0 DEF Handler
  <2>2. /\ At(r, "mined") /\ RowFree(r)
        /\ UNCHANGED <<txn, chain, applied, worker>>
    BY <1>11 DEF WithdrawConfirm, UnchangedDatabase
  <2>3. CASE Goto(r, "done")
    <3>1. /\ handler'[r].pc = "done"
          /\ \A q \in Requests \ {r} : handler'[q] = handler[q]
      BY <1>0, <2>3 DEF TypeOK, Goto, Handler
    <3>. QED
      BY <2>2, <3>1, SameRowStep DEF AfterSuccess, At
  <2>4. CASE Confirmable(txn[r]) /\ handler' = [handler EXCEPT ![r] = h]
    <3>. HIDE DEF h
    <3>1. /\ handler'[r].pc = "subtract"
          /\ \A q \in Requests \ {r} : handler'[q] = handler[q]
      BY <1>0, <2>1, <2>4 DEF TypeOK
    <3>. QED
      BY <2>2, <2>4, <3>1, SameRowStep DEF AfterSuccess, At, Confirmable
  <2>. QED
    BY <1>11, <2>3, <2>4 DEF WithdrawConfirm
<1>. USE DEF RowStep, TouchesOnly, RowMoves, RowInv, HandlerKnowsRow, RowKnowsChain,
             Truthful, BeforeRow, BeforeHash, AfterSuccess, AfterRevert,
             TypeOK, Goto, At, UnchangedDatabase
<1>2. CASE WithdrawReadBalance(r)
  BY <1>2 DEF WithdrawReadBalance
<1>3. CASE WithdrawPrecheck(r)
  BY <1>3 DEF WithdrawPrecheck
<1>4. CASE WithdrawAdmit(r)
  BY <1>4 DEF WithdrawAdmit
<1>5. CASE WithdrawCreate(r)
  BY <1>5 DEF WithdrawCreate, CreateTransaction, NoTransaction
<1>6. CASE WithdrawBroadcast(r)
  BY <1>6 DEF WithdrawBroadcast, Broadcast
<1>7. CASE WithdrawMarkSubmitted(r)
  BY <1>7, <1>0 DEF WithdrawMarkSubmitted, RecordHash, MarkSubmitted, Transaction
<1>8. CASE WithdrawAwaitReceipt(r)
  <2>1. CASE chain[r] = "success" /\ Goto(r, "mined")
    BY <1>8, <2>1 DEF WithdrawAwaitReceipt, AwaitReceipt
  <2>2. CASE chain[r] = "reverted" /\ Goto(r, "revertTransaction")
    BY <1>8, <2>2 DEF WithdrawAwaitReceipt, AwaitReceipt
  <2>. QED
    BY <1>8, <2>1, <2>2 DEF WithdrawAwaitReceipt, AwaitReceipt
<1>9. CASE WithdrawMarkReverted(r)
  BY <1>9, <1>0 DEF WithdrawMarkReverted, MarkReverted, Transaction
<1>10. CASE WithdrawReactivate(r)
  BY <1>10 DEF WithdrawReactivate
<1>12. CASE WithdrawSubtract(r)
  BY <1>12, <1>0 DEF WithdrawSubtract, MarkConfirmed, Transaction, Apply
<1>13. CASE WithdrawCatchTransaction(r)
  BY <1>13, <1>0 DEF WithdrawCatchTransaction, CatchTransaction, MarkFailed, Transaction
<1>14. CASE WithdrawCatchPosition(r)
  BY <1>14 DEF WithdrawCatchPosition
<1>. QED
  BY <1>1, <1>2, <1>3, <1>4, <1>5, <1>6, <1>7, <1>8, <1>9, <1>10, <1>11, <1>12,
     <1>13, <1>14
  DEF WithdrawStep

LEMMA FailureRowStep ==
    ASSUME TypeOK, NEW r \in Requests, RowInv(r), HandlerFails(r) \/ Mine(r)
    PROVE  RowStep(r)
<1>. USE DEF RowStep, TouchesOnly, RowMoves, RowInv, HandlerKnowsRow, RowKnowsChain,
             Truthful, BeforeRow, BeforeHash, AfterSuccess, AfterRevert,
             TypeOK, Goto, At, UnchangedDatabase
<1>1. CASE BroadcastAnswerLost(r)
  BY <1>1 DEF BroadcastAnswerLost
<1>2. CASE HandlerThrows(r)
  BY <1>2 DEF HandlerThrows, TryPCs
<1>3. CASE HandlerCrashes(r)
  BY <1>3 DEF HandlerCrashes
<1>4. CASE Mine(r)
  BY <1>4 DEF Mine
<1>. QED
  BY <1>1, <1>2, <1>3, <1>4 DEF HandlerFails

-----------------------------------------------------------------------------
(* Steps of a worker *)

\* Neither the handler nor another worker has the row of r locked.
LockedByNoOther(w, r) ==
    /\ handler[r].pc # "subtract"
    /\ \A v \in Workers \ {w} : ~(worker[v].pc \in HoldingPCs /\ worker[v].item = r)

\* A worker that writes the row of r, or takes it in hand, has it alone.
ItemStep(w, r) ==
    /\ UNCHANGED <<chain, handler>>
    /\ \A v \in Workers \ {w} : worker'[v] = worker[v]
    /\ \A q \in Requests \ {r} : txn'[q] = txn[q] /\ applied'[q] = applied[q]
    /\ txn[r].hash => txn'[r].hash
    /\ txn[r].status # "NONE" => txn'[r].status # "NONE"
    /\ txn'[r] # txn[r] => LockedByNoOther(w, r)
    /\ worker'[w].pc \in HoldingPCs =>
          /\ worker'[w].item = r
          /\ LockedByNoOther(w, r)
          /\ IF worker'[w].pc = "revertPosition"
               THEN txn'[r].hash /\ chain[r] = "reverted"
               ELSE txn'[r].status = "SUBMITTED" /\ chain[r] = "success"
    /\ ListsAreRows(w)'
    /\ RowInv(r)'

\* A worker that writes no row and has none in hand afterwards.
ListStep(w) ==
    /\ UNCHANGED <<txn, chain, handler, applied>>
    /\ \A v \in Workers \ {w} : worker'[v] = worker[v]
    /\ worker'[w].pc \notin HoldingPCs
    /\ ListsAreRows(w)'

LEMMA ItemFrame ==
    ASSUME EarnInv, TypeOK', NEW w \in Workers, NEW r \in Requests, ItemStep(w, r)
    PROVE  EarnInv'
<1>1. ASSUME NEW q \in Requests
      PROVE  RowInv(q)'
  <2>1. CASE q = r
    BY <2>1 DEF ItemStep
  <2>2. CASE q # r
    <3>1. RowInv(q)
      BY DEF EarnInv
    <3>. QED
      BY <2>2, <3>1 DEF ItemStep, RowInv, HandlerKnowsRow, RowKnowsChain, Truthful
  <2>. QED
    BY <2>1, <2>2
<1>2. WorkerInv(w)'
  BY DEF ItemStep, WorkerInv, HolderKnowsRow, LockedByNoOther, HoldingPCs
<1>3. ASSUME NEW v \in Workers \ {w}
      PROVE  WorkerInv(v)'
  <2>1. WorkerInv(v) /\ worker[v] \in Worker /\ worker'[v] = worker[v]
    BY DEF EarnInv, TypeOK, ItemStep
  <2>2. HolderKnowsRow(v)'
    <3>1. SUFFICES ASSUME worker[v].pc \in HoldingPCs
                   PROVE  HolderKnowsRow(v)'
      BY <2>1 DEF HolderKnowsRow, HoldingPCs
    <3>2. worker[v].item \in Requests
      BY <2>1, <3>1 DEF Worker
    <3>3. txn'[worker[v].item] = txn[worker[v].item]
      BY <3>1, <3>2 DEF ItemStep, LockedByNoOther
    <3>4. ~(worker'[w].pc \in HoldingPCs /\ worker'[w].item = worker[v].item)
      BY <3>1 DEF ItemStep, LockedByNoOther
    <3>. QED
      BY <2>1, <3>1, <3>3, <3>4 DEF WorkerInv, HolderKnowsRow, ItemStep
  <2>3. ListsAreRows(v)'
    BY <2>1 DEF WorkerInv, ListsAreRows, ItemStep, Worker
  <2>. QED
    BY <2>2, <2>3 DEF WorkerInv
<1>. QED
  BY <1>1, <1>2, <1>3 DEF EarnInv

LEMMA ListFrame ==
    ASSUME EarnInv, TypeOK', NEW w \in Workers, ListStep(w)
    PROVE  EarnInv'
<1>1. ASSUME NEW q \in Requests
      PROVE  RowInv(q)'
  BY DEF EarnInv, ListStep, RowInv, HandlerKnowsRow, RowKnowsChain, Truthful
<1>2. WorkerInv(w)'
  BY DEF ListStep, WorkerInv, HolderKnowsRow, HoldingPCs
<1>3. ASSUME NEW v \in Workers \ {w}
      PROVE  WorkerInv(v)'
  <2>1. WorkerInv(v) /\ worker'[v] = worker[v]
    BY DEF EarnInv, ListStep
  <2>2. HolderKnowsRow(v)'
    BY <2>1 DEF WorkerInv, HolderKnowsRow, ListStep
  <2>3. ListsAreRows(v)'
    BY <2>1 DEF WorkerInv, ListsAreRows, ListStep
  <2>. QED
    BY <2>2, <2>3 DEF WorkerInv
<1>. QED
  BY <1>1, <1>2, <1>3 DEF EarnInv

LEMMA SetWorkerAt ==
    ASSUME TypeOK, NEW w \in Workers, NEW new, SetWorker(w, new)
    PROVE  worker'[w] = new /\ \A v \in Workers \ {w} : worker'[v] = worker[v]
BY DEF TypeOK, SetWorker

LEMMA FreeMeansUnlocked ==
    ASSUME NEW w \in Workers, NEW r \in Requests, RowFree(r)
    PROVE  LockedByNoOther(w, r)
BY DEF RowFree, LockedByNoOther

LEMMA WorkerListStep ==
    ASSUME TypeOK, NEW w \in Workers, WorkerInv(w),
           \/ ReconcileStart(w) \/ StaleReadPosition(w) \/ StaleFailPosition(w)
           \/ ListPending(w) \/ ReconcileEnd(w) \/ WorkerFails(w)
           \/ \E r \in Requests : ReceiptMissing(w, r)
    PROVE  ListStep(w)
<1>0. worker[w] \in Worker /\ ListsAreRows(w)
  BY DEF TypeOK, WorkerInv
<1>. USE DEF UnchangedByWorker, UnchangedDatabase, HoldingPCs
<1>1. CASE ReconcileStart(w)
  <2>1. /\ worker'[w] = [IdleWorker EXCEPT !.pc = "stale", !.stale = StaleRows]
        /\ \A v \in Workers \ {w} : worker'[v] = worker[v]
    BY <1>1, SetWorkerAt DEF ReconcileStart
  <2>2. /\ worker'[w].pc = "stale" /\ worker'[w].stale = StaleRows
        /\ worker'[w].pending = {}
    BY <2>1 DEF IdleWorker
  <2>3. \A r \in StaleRows : txn[r].status # "NONE"
    BY DEF StaleRows, IsUnsentCreated
  <2>. QED
    BY <1>1, <2>1, <2>2, <2>3 DEF ReconcileStart, ListStep, ListsAreRows
<1>2. CASE StaleReadPosition(w)
  <2>1. PICK pc \in {"stale", "staleFail"} : SetWorker(w, [worker[w] EXCEPT !.pc = pc])
    BY <1>2 DEF StaleReadPosition
  <2>2. /\ worker'[w] = [worker[w] EXCEPT !.pc = pc]
        /\ \A v \in Workers \ {w} : worker'[v] = worker[v]
    BY <2>1, SetWorkerAt
  <2>. QED
    BY <1>2, <1>0, <2>2 DEF StaleReadPosition, ListStep, ListsAreRows, Worker
<1>3. CASE StaleFailPosition(w)
  <2>1. /\ worker'[w] = [worker[w] EXCEPT !.pc = "stale"]
        /\ \A v \in Workers \ {w} : worker'[v] = worker[v]
    BY <1>3, SetWorkerAt DEF StaleFailPosition
  <2>. QED
    BY <1>3, <1>0, <2>1 DEF StaleFailPosition, ListStep, ListsAreRows, Worker
<1>4. CASE ListPending(w)
  <2>1. /\ worker'[w] = [worker[w] EXCEPT
                           !.pc = "pending",
                           !.pending = {q \in Requests : IsPendingReconciliation(txn[q])}]
        /\ \A v \in Workers \ {w} : worker'[v] = worker[v]
    BY <1>4, SetWorkerAt DEF ListPending
  <2>. QED
    BY <1>4, <1>0, <2>1
    DEF ListPending, ListStep, ListsAreRows, Worker, IsPendingReconciliation
<1>5. CASE ReconcileEnd(w)
  BY <1>5, SetWorkerAt DEF ReconcileEnd, IdleWorker, ListStep, ListsAreRows
<1>6. CASE \E r \in Requests : ReceiptMissing(w, r)
  <2>1. PICK r \in Requests : ReceiptMissing(w, r)
    BY <1>6
  <2>2. /\ worker'[w] = DropItem(w, r)
        /\ \A v \in Workers \ {w} : worker'[v] = worker[v]
    BY <2>1, SetWorkerAt DEF ReceiptMissing
  <2>. QED
    BY <2>1, <1>0, <2>2
    DEF ReceiptMissing, DropItem, WorkerAt, ListStep, ListsAreRows, Worker
<1>7. CASE RunAborts(w)
  BY <1>7, SetWorkerAt DEF RunAborts, IdleWorker, ListStep, ListsAreRows
<1>8. CASE ItemThrows(w)
  <2>1. \/ WorkerAt(w, "pending") /\ \E r \in Requests : SetWorker(w, DropItem(w, r))
        \/ SetWorker(w, NextItem(w))
    BY <1>8, <1>0 DEF ItemThrows, Worker
  <2>2. /\ \A v \in Workers \ {w} : worker'[v] = worker[v]
        /\ \/ WorkerAt(w, "pending") /\ \E r \in Requests : worker'[w] = DropItem(w, r)
           \/ worker'[w] = NextItem(w)
    BY <2>1, SetWorkerAt
  <2>3. ASSUME NEW new, \/ WorkerAt(w, "pending") /\ \E r \in Requests : new = DropItem(w, r)
                        \/ new = NextItem(w)
        PROVE  /\ new.pc = "pending" /\ new.stale = worker[w].stale
               /\ new.pending \subseteq worker[w].pending
    <3>1. CASE new = NextItem(w)
      BY <1>0, <3>1 DEF NextItem, Worker
    <3>2. ASSUME WorkerAt(w, "pending"), NEW r \in Requests, new = DropItem(w, r)
          PROVE  /\ new.pc = "pending" /\ new.stale = worker[w].stale
                 /\ new.pending \subseteq worker[w].pending
      BY <1>0, <3>2 DEF DropItem, WorkerAt, Worker
    <3>. QED
      BY <2>3, <3>1, <3>2
  <2>4. /\ worker'[w].pc = "pending" /\ worker'[w].stale = worker[w].stale
        /\ worker'[w].pending \subseteq worker[w].pending
    BY <2>2, <2>3
  <2>. QED
    BY <1>8, <1>0, <2>2, <2>4 DEF ItemThrows, ListStep, ListsAreRows
<1>. QED
  BY <1>1, <1>2, <1>3, <1>4, <1>5, <1>6, <1>7, <1>8 DEF WorkerFails

\* What the records of a worker that drops or takes an item hold.
LEMMA ItemRecords ==
    ASSUME TypeOK, NEW w \in Workers, NEW r \in Requests, ListsAreRows(w)
    PROVE  /\ DropItem(w, r).pc = worker[w].pc
           /\ DropItem(w, r).stale = worker[w].stale
           /\ DropItem(w, r).pending \subseteq worker[w].pending
           /\ NextItem(w).pc = "pending"
           /\ NextItem(w).stale = worker[w].stale
           /\ NextItem(w).pending \subseteq worker[w].pending
           /\ \A pc \in WorkerPC :
                 /\ Hold(w, r, pc).pc = pc /\ Hold(w, r, pc).item = r
                 /\ Hold(w, r, pc).stale = worker[w].stale
                 /\ Hold(w, r, pc).pending = worker[w].pending
<1>1. worker[w] \in Worker
  BY DEF TypeOK
<1>2. /\ DropItem(w, r).pc = worker[w].pc
      /\ DropItem(w, r).stale = worker[w].stale
      /\ DropItem(w, r).pending \subseteq worker[w].pending
  BY <1>1 DEF DropItem, Worker
<1>3. /\ NextItem(w).pc = "pending"
      /\ NextItem(w).stale = worker[w].stale
      /\ NextItem(w).pending \subseteq worker[w].pending
  BY <1>1 DEF NextItem, Worker
<1>4. ASSUME NEW pc \in WorkerPC
      PROVE  /\ Hold(w, r, pc).pc = pc /\ Hold(w, r, pc).item = r
             /\ Hold(w, r, pc).stale = worker[w].stale
             /\ Hold(w, r, pc).pending = worker[w].pending
  BY <1>1 DEF Hold, Worker
<1>. QED
  BY <1>2, <1>3, <1>4

\* The rows an item step is allowed to leave: the old one, and the old one
\* confirmed or reverted.
LEMMA StatusWrites ==
    ASSUME TypeOK, NEW r \in Requests
    PROVE  /\ MarkConfirmed(txn[r]).status = "CONFIRMED"
           /\ MarkConfirmed(txn[r]).hash = txn[r].hash
           /\ MarkReverted(txn[r]).status = "REVERTED"
           /\ MarkReverted(txn[r]).hash = txn[r].hash
           /\ MarkFailed(txn[r]).status = "FAILED"
           /\ MarkFailed(txn[r]).hash = txn[r].hash
<1>1. txn[r] \in Transaction
  BY DEF TypeOK
<1>. QED
  BY <1>1 DEF MarkConfirmed, MarkReverted, MarkFailed, Transaction

\* A row a worker may write: its handler is past inserting it.
LEMMA ListedRow ==
    ASSUME NEW r \in Requests, RowInv(r), txn[r].status # "NONE"
    PROVE  handler[r].pc \notin BeforeRow
BY DEF RowInv, HandlerKnowsRow, NoTransaction

LEMMA StaleItemStep ==
    ASSUME TypeOK, NEW w \in Workers, NEW r \in Requests, WorkerInv(w), RowInv(r),
           StaleMarkFailed(w, r)
    PROVE  ItemStep(w, r)
<1>1. worker[w] \in Worker /\ ListsAreRows(w) /\ txn[r].status # "NONE"
  BY DEF TypeOK, WorkerInv, ListsAreRows, StaleMarkFailed
<1>2. \A v \in Workers \ {w} : worker'[v] = worker[v]
  BY SetWorkerAt DEF StaleMarkFailed
<1>3. /\ worker'[w].pc \in {"stale", "staleRead"}
      /\ worker'[w].stale \subseteq worker[w].stale
      /\ worker'[w].pending = worker[w].pending
  BY <1>1 DEF TypeOK, StaleMarkFailed, SetWorker, Worker
<1>4. /\ txn'[r] = MarkFailed(txn[r])
      /\ \A q \in Requests \ {r} : txn'[q] = txn[q]
      /\ UNCHANGED <<chain, handler, applied>>
  BY DEF StaleMarkFailed, TypeOK, UnchangedByWorker
<1>5. LockedByNoOther(w, r)
  BY FreeMeansUnlocked DEF StaleMarkFailed
<1>6. handler[r].pc # "subtract"
  BY <1>5 DEF LockedByNoOther
<1>7. RowInv(r)'
  BY <1>1, <1>4, <1>6, StatusWrites, ListedRow
  DEF RowInv, HandlerKnowsRow, RowKnowsChain, Truthful
<1>8. ListsAreRows(w)'
  BY <1>1, <1>3, <1>4, StatusWrites DEF ListsAreRows, Worker
<1>. QED
  BY <1>1, <1>2, <1>3, <1>4, <1>5, <1>7, <1>8, StatusWrites
  DEF ItemStep, HoldingPCs

\* A worker that leaves the row alone, or settles it in one commit, and is done
\* with it.
LEMMA SettleStep ==
    ASSUME TypeOK, NEW w \in Workers, NEW r \in Requests, RowInv(r), ListsAreRows(w),
           UNCHANGED <<chain, handler>>,
           \A v \in Workers \ {w} : worker'[v] = worker[v],
           worker'[w].pc \notin HoldingPCs,
           worker'[w].stale \subseteq worker[w].stale,
           worker'[w].pending \subseteq worker[w].pending,
           LockedByNoOther(w, r), txn[r].hash,
           \/ UNCHANGED <<txn, applied>>
           \/ /\ chain[r] = "success" /\ UNCHANGED applied
              /\ txn' = [txn EXCEPT ![r] = MarkConfirmed(@)]
           \/ /\ chain[r] = "success" /\ Apply(r) /\ txn[r].status = "SUBMITTED"
              /\ txn' = [txn EXCEPT ![r] = MarkConfirmed(@)]
           \/ /\ chain[r] = "reverted" /\ UNCHANGED applied
              /\ txn' = [txn EXCEPT ![r] = MarkReverted(@)]
    PROVE  ItemStep(w, r)
<1>1. /\ \A q \in Requests \ {r} : txn'[q] = txn[q] /\ applied'[q] = applied[q]
      /\ txn'[r].hash = txn[r].hash
      /\ \/ txn'[r] = txn[r] /\ applied'[r] = applied[r]
         \/ /\ txn'[r].status = "CONFIRMED" /\ chain[r] = "success"
            /\ \/ applied'[r] = applied[r]
               \/ txn[r].status = "SUBMITTED" /\ applied'[r] = applied[r] + 1
         \/ /\ txn'[r].status = "REVERTED" /\ chain[r] = "reverted"
            /\ applied'[r] = applied[r]
  BY StatusWrites DEF TypeOK, Apply
<1>2. handler[r].pc # "subtract"
  BY DEF LockedByNoOther
<1>3. RowInv(r)'
  BY <1>1, <1>2 DEF RowInv, HandlerKnowsRow, RowKnowsChain, Truthful, NoTransaction
<1>4. worker[w] \in Worker
  BY DEF TypeOK
<1>5. ListsAreRows(w)'
  <2>1. \A q \in Requests : /\ txn[q].hash => txn'[q].hash
                            /\ txn[q].status # "NONE" => txn'[q].status # "NONE"
    BY <1>1
  <2>. QED
    BY <1>4, <2>1 DEF ListsAreRows, Worker
<1>. QED
  BY <1>1, <1>3, <1>5 DEF ItemStep

LEMMA PendingItemStep ==
    ASSUME TypeOK, NEW w \in Workers, NEW r \in Requests, WorkerInv(w), RowInv(r),
           \/ ConfirmApproval(w, r) \/ ConfirmDeposit(w, r) \/ ConfirmWithdraw(w, r)
           \/ HandleReverted(w, r)
    PROVE  ItemStep(w, r)
<1>1. /\ WorkerAt(w, "pending") /\ r \in worker[w].pending /\ RowFree(r)
      /\ UNCHANGED <<chain, handler, applied>>
  BY DEF ConfirmApproval, ConfirmDeposit, ConfirmWithdraw, HandleReverted,
         Reconcilable, UnchangedByWorker, UnchangedDatabase
<1>2. /\ ListsAreRows(w) /\ txn[r].hash /\ LockedByNoOther(w, r)
      /\ worker[w] \in Worker /\ worker[w].pc = "pending"
  BY <1>1, FreeMeansUnlocked DEF WorkerInv, ListsAreRows, WorkerAt, TypeOK
<1>3. CASE /\ SetWorker(w, DropItem(w, r))
           /\ \/ UNCHANGED txn
              \/ chain[r] = "success" /\ txn' = [txn EXCEPT ![r] = MarkConfirmed(@)]
              \/ chain[r] = "reverted" /\ txn' = [txn EXCEPT ![r] = MarkReverted(@)]
  <2>1. /\ worker'[w] = DropItem(w, r)
        /\ \A v \in Workers \ {w} : worker'[v] = worker[v]
    BY <1>3, SetWorkerAt
  <2>2. /\ worker'[w].pc \notin HoldingPCs
        /\ worker'[w].stale \subseteq worker[w].stale
        /\ worker'[w].pending \subseteq worker[w].pending
    BY <1>2, <2>1, ItemRecords DEF HoldingPCs
  <2>. QED
    BY <1>1, <1>2, <1>3, <2>1, <2>2, SettleStep
<1>4. CASE /\ UNCHANGED txn
           /\ \/ /\ SetWorker(w, Hold(w, r, "activate")) \/ SetWorker(w, Hold(w, r, "withdrawing"))
                 /\ txn[r].status = "SUBMITTED" /\ chain[r] = "success"
              \/ SetWorker(w, Hold(w, r, "revertPosition")) /\ chain[r] = "reverted"
  <2>1. PICK pc \in {"activate", "withdrawing", "revertPosition"} :
          /\ SetWorker(w, Hold(w, r, pc))
          /\ IF pc = "revertPosition"
               THEN chain[r] = "reverted"
               ELSE txn[r].status = "SUBMITTED" /\ chain[r] = "success"
    BY <1>4
  <2>2. /\ worker'[w] = Hold(w, r, pc)
        /\ \A v \in Workers \ {w} : worker'[v] = worker[v]
    BY <2>1, SetWorkerAt
  <2>3. /\ worker'[w].pc = pc /\ worker'[w].item = r
        /\ worker'[w].stale = worker[w].stale /\ worker'[w].pending = worker[w].pending
    BY <1>2, <2>2, ItemRecords DEF WorkerPC
  <2>4. RowInv(r)' /\ ListsAreRows(w)'
    BY <1>1, <1>2, <1>4, <2>3
    DEF RowInv, HandlerKnowsRow, RowKnowsChain, Truthful, ListsAreRows
  <2>. QED
    BY <1>1, <1>2, <1>4, <2>1, <2>2, <2>3, <2>4 DEF ItemStep
<1>5. CASE ConfirmApproval(w, r)
  BY <1>5, <1>3 DEF ConfirmApproval, Reconcilable
<1>6. CASE ConfirmDeposit(w, r)
  BY <1>6, <1>3, <1>4 DEF ConfirmDeposit, Reconcilable, Confirmable, UnchangedDatabase
<1>7. CASE ConfirmWithdraw(w, r)
  BY <1>7, <1>3, <1>4 DEF ConfirmWithdraw, Reconcilable, Confirmable, UnchangedDatabase
<1>8. CASE HandleReverted(w, r)
  BY <1>8, <1>3, <1>4 DEF HandleReverted, Reconcilable
<1>. QED
  BY <1>5, <1>6, <1>7, <1>8

LEMMA CommitItemStep ==
    ASSUME TypeOK, NEW w \in Workers, WorkerInv(w), \A r \in Requests : RowInv(r),
           \/ ActivateAndCommit(w) \/ SubtractRead(w) \/ SubtractAndCommit(w)
           \/ RevertPositionAndCommit(w)
    PROVE  \E r \in Requests : ItemStep(w, r)
<1>0. /\ worker[w] \in Worker /\ worker[w].pc \in HoldingPCs
      /\ worker[w].item \in Requests
  BY DEF TypeOK, Worker, HoldingPCs, ActivateAndCommit, SubtractRead,
         SubtractAndCommit, RevertPositionAndCommit, WorkerAt
<1>. PICK r \in Requests : r = worker[w].item
  BY <1>0
<1>1. RowInv(r) /\ ListsAreRows(w)
  BY DEF WorkerInv
<1>2. LockedByNoOther(w, r)
  BY <1>0 DEF WorkerInv, HolderKnowsRow, LockedByNoOther
<1>3. ASSUME ActivateAndCommit(w) \/ SubtractAndCommit(w) \/ RevertPositionAndCommit(w)
      PROVE  ItemStep(w, r)
  <2>1. /\ worker'[w] = NextItem(w)
        /\ \A v \in Workers \ {w} : worker'[v] = worker[v]
    BY <1>3, SetWorkerAt DEF ActivateAndCommit, SubtractAndCommit, RevertPositionAndCommit
  <2>2. /\ worker'[w].pc \notin HoldingPCs
        /\ worker'[w].stale \subseteq worker[w].stale
        /\ worker'[w].pending \subseteq worker[w].pending
    BY <1>1, <2>1, ItemRecords DEF HoldingPCs
  <2>3. UNCHANGED <<chain, handler>>
    BY <1>3 DEF ActivateAndCommit, SubtractAndCommit, RevertPositionAndCommit,
                UnchangedByWorker
  <2>4. CASE ActivateAndCommit(w) \/ SubtractAndCommit(w)
    <3>1. txn[r].status = "SUBMITTED" /\ txn[r].hash /\ chain[r] = "success"
      BY <1>1, <2>4
      DEF ActivateAndCommit, SubtractAndCommit, WorkerAt, WorkerInv, HolderKnowsRow,
          RowInv, RowKnowsChain
    <3>2. Apply(r) /\ txn' = [txn EXCEPT ![r] = MarkConfirmed(@)]
      BY <2>4 DEF ActivateAndCommit, SubtractAndCommit
    <3>. QED
      BY <1>0, <1>1, <1>2, <2>1, <2>2, <2>3, <3>1, <3>2, SettleStep
  <2>5. CASE RevertPositionAndCommit(w)
    <3>1. txn[r].hash /\ chain[r] = "reverted"
      BY <1>1, <2>5 DEF RevertPositionAndCommit, WorkerAt, WorkerInv, HolderKnowsRow
    <3>2. txn' = [txn EXCEPT ![r] = MarkReverted(@)] /\ UNCHANGED applied
      BY <2>5 DEF RevertPositionAndCommit
    <3>. QED
      BY <1>0, <1>1, <1>2, <2>1, <2>2, <2>3, <3>1, <3>2, SettleStep
  <2>. QED
    BY <1>3, <2>4, <2>5
<1>4. CASE SubtractRead(w)
  <2>1. /\ worker'[w] = [worker[w] EXCEPT !.pc = "subtract", !.existing = position]
        /\ \A v \in Workers \ {w} : worker'[v] = worker[v]
    BY <1>4, SetWorkerAt DEF SubtractRead
  <2>2. /\ worker'[w].pc = "subtract" /\ worker'[w].item = r
        /\ worker'[w].stale = worker[w].stale /\ worker'[w].pending = worker[w].pending
    BY <1>0, <2>1 DEF Worker
  <2>3. UNCHANGED <<txn, chain, handler, applied>>
    BY <1>4 DEF SubtractRead, UnchangedByWorker, UnchangedDatabase
  <2>4. txn[r].status = "SUBMITTED" /\ chain[r] = "success"
    BY <1>4 DEF SubtractRead, WorkerAt, WorkerInv, HolderKnowsRow
  <2>5. RowInv(r)' /\ ListsAreRows(w)'
    BY <1>1, <2>2, <2>3
    DEF RowInv, HandlerKnowsRow, RowKnowsChain, Truthful, ListsAreRows
  <2>. QED
    BY <1>0, <1>1, <1>2, <2>1, <2>2, <2>3, <2>4, <2>5 DEF ItemStep
<1>. QED
  BY <1>0, <1>3, <1>4

-----------------------------------------------------------------------------
(* The invariant and what follows from it *)

LEMMA InitEarnInv == Init => EarnInv
<1>. SUFFICES ASSUME Init PROVE EarnInv
  OBVIOUS
<1>1. \A r \in Requests : RowInv(r)
  BY DEF Init, RowInv, HandlerKnowsRow, RowKnowsChain, Truthful, NoTransaction,
         IdleHandler, BeforeRow, BeforeHash, AfterSuccess, AfterRevert
<1>2. \A w \in Workers : WorkerInv(w)
  BY DEF Init, WorkerInv, HolderKnowsRow, ListsAreRows, IdleWorker, HoldingPCs
<1>. QED
  BY <1>1, <1>2, InitTypeOK DEF EarnInv

LEMMA NextEarnInv == EarnInv /\ [Next]_vars => EarnInv'
<1>. SUFFICES ASSUME EarnInv, [Next]_vars PROVE EarnInv'
  OBVIOUS
<1>1. TypeOK /\ TypeOK'
  BY NextTypeOK DEF EarnInv
<1>2. ASSUME NEW r \in Requests,
             RequestArrives(r) \/ HandlerStep(r) \/ HandlerFails(r) \/ Mine(r)
      PROVE  EarnInv'
  <2>1. RowStep(r)
    BY <1>1, <1>2, DepositRowStep, WithdrawRowStep, ApprovalRowStep, FailureRowStep
    DEF EarnInv, RequestArrives, HandlerStep
  <2>. QED
    BY <1>1, <2>1, HandlerFrame
<1>3. ASSUME NEW w \in Workers, ReconcileStep(w) \/ WorkerFails(w)
      PROVE  EarnInv'
  <2>1. ListStep(w) \/ \E r \in Requests : ItemStep(w, r)
    BY <1>1, <1>3, WorkerListStep, StaleItemStep, PendingItemStep, CommitItemStep
    DEF EarnInv, ReconcileStep
  <2>. QED
    BY <1>1, <2>1, ListFrame, ItemFrame
<1>4. CASE UNCHANGED vars
  <2>1. \A r \in Requests : RowInv(r)'
    BY <1>4 DEF EarnInv, vars, RowInv, HandlerKnowsRow, RowKnowsChain, Truthful
  <2>2. \A w \in Workers : WorkerInv(w)'
    BY <1>4 DEF EarnInv, vars, WorkerInv, HolderKnowsRow, ListsAreRows
  <2>. QED
    BY <1>1, <2>1, <2>2 DEF EarnInv
<1>. QED
  BY <1>2, <1>3, <1>4 DEF Next

\* The inductive invariant: handler, row, receipt and workers agree about every
\* request, whatever interleaves and whatever fails.
THEOREM Invariance == Spec => []EarnInv
<1>. QED
  BY InitEarnInv, NextEarnInv, PTL DEF Spec

\* One on-chain transaction changes the amounts of the position at most once,
\* however often its handler and the reconciliation workers meet on its row.
THEOREM AppliedOnce == Spec => []AppliedAtMostOnce
<1>1. EarnInv => AppliedAtMostOnce
  BY DEF EarnInv, RowInv, RowKnowsChain, AppliedAtMostOnce
<1>. QED
  BY <1>1, Invariance, PTL

\* CONFIRMED and REVERTED are said only of transactions that succeeded, or
\* reverted, on chain.
THEOREM StatusTruth == Spec => []StatusIsTruthful
<1>1. EarnInv => StatusIsTruthful
  BY DEF EarnInv, RowInv, StatusIsTruthful
<1>. QED
  BY <1>1, Invariance, PTL

(***************************************************************************)
(* Part III   Amounts                                                      *)
(***************************************************************************)

-----------------------------------------------------------------------------
(* Every write to the position keeps its three amounts in step *)

LEMMA PositionOpsAgree ==
    ASSUME NEW p \in Position, Agreeing(p)
    PROVE  /\ Agreeing(NoPosition) /\ Agreeing(CreatePending)
           /\ Agreeing(MarkWithdrawing(p)) /\ Agreeing(MarkActive(p))
           /\ Agreeing(MarkPositionFailed(p))
           /\ \A n \in Nat : /\ Agreeing(Activate(p, n, n))
                             /\ Agreeing(AddDeposit(p, n, n))
                             /\ Agreeing(SubtractWithdraw(p, n, n))
BY DEF Position, Agreeing, NoPosition, CreatePending, MarkWithdrawing, MarkActive,
       MarkPositionFailed, Activate, AddDeposit, SubtractWithdraw

\* No write makes a position disappear.
LEMMA PositionOpsStay ==
    ASSUME NEW p \in Position
    PROVE  /\ CreatePending.status # "NONE"
           /\ MarkWithdrawing(p).status # "NONE" /\ MarkActive(p).status # "NONE"
           /\ MarkPositionFailed(p).status # "NONE"
           /\ \A n \in Nat : /\ Activate(p, n, n).status # "NONE"
                             /\ AddDeposit(p, n, n).status # "NONE"
                             /\ SubtractWithdraw(p, n, n).status # "NONE"
BY DEF Position, NoPosition, CreatePending, MarkWithdrawing, MarkActive,
       MarkPositionFailed, Activate, AddDeposit, SubtractWithdraw

\* The writes that leave the amounts where they are.
LEMMA PositionOpsKeepShares ==
    ASSUME NEW p \in Position
    PROVE  /\ CreatePending.shares = 0
           /\ MarkWithdrawing(p).shares = p.shares /\ MarkActive(p).shares = p.shares
           /\ MarkPositionFailed(p).shares = p.shares
BY DEF Position, NoPosition, CreatePending, MarkWithdrawing, MarkActive,
       MarkPositionFailed

\* A position after a step: it is as before, or one of the writes produced it
\* from agreeing amounts.
Booking(pos, pos2) ==
    \/ pos2 = pos
    \/ pos.status = "NONE" /\ pos2 = CreatePending
    \/ pos2 = MarkWithdrawing(pos) \/ pos2 = MarkActive(pos) \/ pos2 = MarkPositionFailed(pos)

Credit(pos, pos2) ==
    \/ \E n \in Nat : pos2 = Activate(pos, n, n) \/ pos2 = AddDeposit(pos, n, n)
    \/ \E n \in Nat, old \in Position : Agreeing(old) /\ pos2 = SubtractWithdraw(old, n, n)

LEMMA PositionStep ==
    ASSUME TypeOK, PositionAmounts,
           Booking(position, position') \/ Credit(position, position')
    PROVE  PositionAmounts'
<1>1. position \in Position /\ Agreeing(position)
  BY DEF TypeOK, PositionAmounts
<1>2. CASE position' = position
  BY <1>2 DEF PositionAmounts, Agreeing
<1>3. CASE position' # position
  <2>1. Agreeing(position')
    BY <1>1, <1>3, PositionOpsAgree DEF Booking, Credit
  <2>2. position'.status # "NONE"
    BY <1>1, <1>3, PositionOpsStay DEF Booking, Credit
  <2>. QED
    BY <2>1, <2>2 DEF PositionAmounts, Agreeing
<1>. QED
  BY <1>2, <1>3

-----------------------------------------------------------------------------
(* What each step does to the position *)

\* The step confirms the row of r, whose transaction succeeded.
Confirms(r) ==
    /\ txn[r].status = "SUBMITTED" /\ txn'[r].status = "CONFIRMED"
    /\ chain[r] = "success"

PositionMove ==
    \/ Booking(position, position')
    \/ Credit(position, position') /\ \E r \in Requests : Confirms(r)

LEMMA HandlerPositionMove ==
    ASSUME TypeOK, NEW r \in Requests, RowInv(r), RequestAmounts(r),
           RequestArrives(r) \/ HandlerStep(r) \/ HandlerFails(r) \/ Mine(r)
    PROVE  PositionMove
<1>0. /\ handler[r] \in Handler /\ txn[r] \in Transaction /\ position \in Position
      /\ handler[r].shares \in Nat /\ handler[r].amount = handler[r].shares
      /\ Agreeing(handler[r].existing) /\ handler[r].existing \in Position
  BY DEF TypeOK, Handler, RequestAmounts
<1>1. CASE DepositCreate(r)
  BY <1>1 DEF DepositCreate, PositionTaken, PositionMove, Booking
<1>2. CASE DepositRevertPosition(r) \/ DepositCatchPosition(r)
  BY <1>2 DEF DepositRevertPosition, DepositCatchPosition, PositionMove, Booking
<1>3. CASE WithdrawCreate(r)
  BY <1>3 DEF WithdrawCreate, PositionMove, Booking
<1>4. CASE WithdrawReactivate(r) \/ WithdrawCatchPosition(r)
  BY <1>4 DEF WithdrawReactivate, WithdrawCatchPosition, PositionMove, Booking
<1>5. CASE DepositConfirm(r)
  <2>1. CASE UnchangedDatabase
    BY <2>1 DEF UnchangedDatabase, PositionMove, Booking
  <2>2. CASE CreditsDeposit(r) /\ txn' = [txn EXCEPT ![r] = MarkConfirmed(@)]
    <3>1. Credit(position, position')
      BY <1>0, <1>5, <2>2 DEF DepositConfirm, UnchangedDatabase, Credit
    <3>2. Confirms(r)
      BY <1>5, <2>2, StatusWrites
      DEF DepositConfirm, At, CreditsDeposit, Confirmable, Confirms, TypeOK,
          RowInv, HandlerKnowsRow, AfterSuccess
    <3>. QED
      BY <3>1, <3>2 DEF PositionMove
  <2>. QED
    BY <1>5, <2>1, <2>2 DEF DepositConfirm
<1>6. CASE WithdrawSubtract(r)
  <2>1. Credit(position, position')
    BY <1>0, <1>6 DEF WithdrawSubtract, Credit
  <2>2. Confirms(r)
    BY <1>6, StatusWrites
    DEF WithdrawSubtract, At, Confirms, TypeOK, RowInv, HandlerKnowsRow, AfterSuccess
  <2>. QED
    BY <2>1, <2>2 DEF PositionMove
<1>7. CASE UNCHANGED position
  BY <1>7 DEF PositionMove, Booking
<1>. QED
  BY <1>1, <1>2, <1>3, <1>4, <1>5, <1>6, <1>7
  DEF RequestArrives, HandlerStep, HandlerFails, DepositStep, WithdrawStep,
      ApprovalStep, UnchangedDatabase, Mine, BroadcastAnswerLost, HandlerThrows,
      HandlerCrashes, Broadcast, RecordHash, AwaitReceipt, CatchTransaction,
      DepositPrecheck, DepositAdmit, DepositBroadcast, DepositMarkSubmitted,
      DepositAwaitReceipt, DepositMarkReverted, DepositRespondReverted,
      DepositCatchTransaction,
      WithdrawRead, WithdrawReadBalance, WithdrawPrecheck, WithdrawAdmit,
      WithdrawBroadcast, WithdrawMarkSubmitted, WithdrawAwaitReceipt,
      WithdrawMarkReverted, WithdrawConfirm, WithdrawCatchTransaction,
      ApprovalCreate, ApprovalSkip, ApprovalBroadcast, ApprovalMarkSubmitted,
      ApprovalAwaitReceipt, ApprovalConfirm, ApprovalMarkReverted, ApprovalRespond,
      ApprovalCatchTransaction

LEMMA WorkerPositionMove ==
    ASSUME TypeOK, NEW w \in Workers, WorkerInv(w), WorkerAmounts(w),
           \A r \in Requests : RowInv(r) /\ RequestAmounts(r),
           ReconcileStep(w) \/ WorkerFails(w)
    PROVE  PositionMove
<1>1. CASE StaleFailPosition(w) \/ RevertPositionAndCommit(w)
  BY <1>1 DEF StaleFailPosition, RevertPositionAndCommit, PositionMove, Booking
<1>2. CASE ActivateAndCommit(w) \/ SubtractAndCommit(w)
  <2>1. worker[w] \in Worker /\ worker[w].item \in Requests
    BY <1>2 DEF TypeOK, Worker, HoldingPCs, ActivateAndCommit, SubtractAndCommit, WorkerAt
  <2>. PICK r \in Requests : r = worker[w].item
    BY <2>1
  <2>2. r \notin Approvals /\ txn[r].status = "SUBMITTED" /\ chain[r] = "success"
    BY <1>2 DEF ActivateAndCommit, SubtractAndCommit, WorkerAt, WorkerAmounts,
                WorkerInv, HolderKnowsRow
  <2>3. /\ txn[r].amount = txn[r].shares /\ txn[r].shares \in Nat
        /\ Agreeing(worker[w].existing) /\ worker[w].existing \in Position
    BY <2>1, <2>2 DEF RequestAmounts, IsOpen, TypeOK, Handler, WorkerAmounts, Worker
  <2>4. Credit(position, position')
    BY <1>2, <2>3 DEF ActivateAndCommit, SubtractAndCommit, Credit
  <2>5. Confirms(r)
    BY <1>2, <2>2, StatusWrites DEF ActivateAndCommit, SubtractAndCommit, Confirms, TypeOK
  <2>. QED
    BY <2>4, <2>5 DEF PositionMove
<1>3. CASE UNCHANGED position
  BY <1>3 DEF PositionMove, Booking
<1>. QED
  BY <1>1, <1>2, <1>3
  DEF ReconcileStep, WorkerFails, ItemThrows, RunAborts, UnchangedDatabase,
      ReconcileStart, StaleMarkFailed, StaleReadPosition, ListPending, ReceiptMissing,
      ConfirmApproval, ConfirmDeposit, ConfirmWithdraw, SubtractRead, HandleReverted,
      ReconcileEnd

-----------------------------------------------------------------------------
(* What each step does to the amounts a request carries *)

\* Everything the amounts of other requests are made of stays.
OthersKeep(r) ==
    \A q \in Requests \ {r} : txn'[q] = txn[q] /\ handler'[q] = handler[q]

\* A row that was written by one of the four updates.
Updated(r, t) ==
    t \in {txn[r], MarkConfirmed(txn[r]), MarkFailed(txn[r]), MarkReverted(txn[r]),
           MarkSubmitted(txn[r], handler[r].shares)}

LEMMA UpdatedAmounts ==
    ASSUME TypeOK, NEW r \in Requests, RequestAmounts(r), NEW t, Updated(r, t)
    PROVE  /\ t.amount = txn[r].amount
           /\ IsOpen(t) => t.shares = handler[r].shares \/ t = txn[r]
<1>1. txn[r] \in Transaction
  BY DEF TypeOK
<1>2. CASE t = MarkSubmitted(txn[r], handler[r].shares)
  BY <1>1, <1>2 DEF MarkSubmitted, Transaction
<1>3. CASE t = MarkConfirmed(txn[r])
  BY <1>1, <1>3 DEF MarkConfirmed, Transaction, IsOpen
<1>4. CASE t = MarkFailed(txn[r]) \/ t = MarkReverted(txn[r])
  BY <1>1, <1>4 DEF MarkFailed, MarkReverted, Transaction, IsOpen
<1>. QED
  BY <1>2, <1>3, <1>4 DEF Updated

\* A handler that moves on, updating its row or not, and keeps its amounts.
Moves(r) ==
    /\ handler[r].pc \notin BeforeRow \cup {"crashed"} \/ txn' = txn
    /\ txn' = txn \/ \E t : Updated(r, t) /\ txn' = [txn EXCEPT ![r] = t]
    /\ \E pc \in HandlerPC, ex \in {handler[r].existing, NoPosition, position} :
          handler' = [handler EXCEPT ![r] = [@ EXCEPT !.pc = pc, !.existing = ex]]

LEMMA MovesAmounts ==
    ASSUME TypeOK, PositionAmounts, NEW r \in Requests, RowInv(r), RequestAmounts(r),
           Moves(r)
    PROVE  RequestAmounts(r)' /\ OthersKeep(r)
<1>1. handler[r] \in Handler /\ txn[r] \in Transaction
  BY DEF TypeOK
<1>2. PICK pc \in HandlerPC, ex \in {handler[r].existing, NoPosition, position} :
          handler' = [handler EXCEPT ![r] = [@ EXCEPT !.pc = pc, !.existing = ex]]
  BY DEF Moves
<1>3. /\ handler'[r].amount = handler[r].amount /\ handler'[r].shares = handler[r].shares
      /\ handler'[r].existing = ex
      /\ \A q \in Requests \ {r} : handler'[q] = handler[q]
  BY <1>1, <1>2 DEF TypeOK, Handler
<1>4. Agreeing(ex)
  BY DEF RequestAmounts, PositionAmounts, Agreeing, NoPosition
<1>5. PICK t : /\ Updated(r, t) /\ txn'[r] = t
               /\ \A q \in Requests \ {r} : txn'[q] = txn[q]
               /\ handler[r].pc \notin BeforeRow \cup {"crashed"} \/ t = txn[r]
  <2>1. CASE txn' = txn
    BY <2>1 DEF Updated
  <2>2. CASE handler[r].pc \notin BeforeRow \cup {"crashed"} /\ txn' # txn
    BY <2>2 DEF Moves, TypeOK
  <2>. QED
    BY <2>1, <2>2 DEF Moves
<1>6. /\ t.amount = txn[r].amount
      /\ IsOpen(t) => t.shares = handler[r].shares \/ t = txn[r]
  BY <1>5, UpdatedAmounts
<1>7. txn[r].status # "NONE" \/ t = txn[r]
  BY <1>5 DEF RowInv, HandlerKnowsRow
<1>. QED
  BY <1>3, <1>4, <1>5, <1>6, <1>7 DEF RequestAmounts, OthersKeep, Agreeing

LEMMA GotoMoves ==
    ASSUME TypeOK, NEW r \in Requests, NEW pc \in HandlerPC, Goto(r, pc),
           \/ UNCHANGED txn
           \/ /\ handler[r].pc \notin BeforeRow \cup {"crashed"}
              /\ \E t : Updated(r, t) /\ txn' = [txn EXCEPT ![r] = t]
    PROVE  Moves(r)
<1>1. handler[r] \in Handler
  BY DEF TypeOK
<1>2. handler' = [handler EXCEPT ![r] =
                    [@ EXCEPT !.pc = pc, !.existing = handler[r].existing]]
  BY <1>1 DEF Goto, Handler, TypeOK
<1>. QED
  BY <1>2 DEF Moves

\* The steps that only move on, or update the row they have inserted.
LEMMA PlainMoves ==
    ASSUME TypeOK, NEW r \in Requests,
           \/ DepositPrecheck(r) \/ DepositBroadcast(r) \/ DepositMarkSubmitted(r)
           \/ DepositAwaitReceipt(r) \/ DepositRevertPosition(r) \/ DepositMarkReverted(r)
           \/ DepositRespondReverted(r) \/ DepositConfirm(r)
           \/ DepositCatchTransaction(r) \/ DepositCatchPosition(r)
           \/ WithdrawReadBalance(r) \/ WithdrawPrecheck(r) \/ WithdrawAdmit(r)
           \/ WithdrawBroadcast(r) \/ WithdrawMarkSubmitted(r) \/ WithdrawAwaitReceipt(r)
           \/ WithdrawMarkReverted(r) \/ WithdrawReactivate(r)
           \/ WithdrawCatchTransaction(r) \/ WithdrawCatchPosition(r)
           \/ ApprovalSkip(r) \/ ApprovalBroadcast(r) \/ ApprovalMarkSubmitted(r)
           \/ ApprovalAwaitReceipt(r) \/ ApprovalConfirm(r) \/ ApprovalMarkReverted(r)
           \/ ApprovalRespond(r) \/ ApprovalCatchTransaction(r)
           \/ BroadcastAnswerLost(r)
    PROVE  Moves(r)
<1>1. \E pc \in HandlerPC : Goto(r, pc)
  BY DEF DepositPrecheck, DepositBroadcast, DepositMarkSubmitted, DepositAwaitReceipt,
         DepositRevertPosition, DepositMarkReverted, DepositRespondReverted,
         DepositConfirm, DepositCatchTransaction, DepositCatchPosition,
         WithdrawReadBalance, WithdrawPrecheck, WithdrawAdmit, WithdrawBroadcast,
         WithdrawMarkSubmitted, WithdrawAwaitReceipt, WithdrawMarkReverted,
         WithdrawReactivate, WithdrawCatchTransaction, WithdrawCatchPosition,
         ApprovalSkip, ApprovalBroadcast, ApprovalMarkSubmitted, ApprovalAwaitReceipt,
         ApprovalConfirm, ApprovalMarkReverted, ApprovalRespond,
         ApprovalCatchTransaction, BroadcastAnswerLost,
         Broadcast, RecordHash, AwaitReceipt, CatchTransaction, HandlerPC
<1>2. \/ UNCHANGED txn
      \/ /\ handler[r].pc \notin BeforeRow \cup {"crashed"}
         /\ \E t : Updated(r, t) /\ txn' = [txn EXCEPT ![r] = t]
  <2>1. CASE \/ DepositMarkSubmitted(r) \/ WithdrawMarkSubmitted(r)
             \/ ApprovalMarkSubmitted(r)
    BY <2>1 DEF DepositMarkSubmitted, WithdrawMarkSubmitted, ApprovalMarkSubmitted,
                RecordHash, At, BeforeRow, Updated
  <2>2. CASE \/ DepositMarkReverted(r) \/ WithdrawMarkReverted(r)
             \/ ApprovalMarkReverted(r)
    BY <2>2 DEF DepositMarkReverted, WithdrawMarkReverted, ApprovalMarkReverted,
                At, BeforeRow, Updated
  <2>3. CASE \/ DepositCatchTransaction(r) \/ WithdrawCatchTransaction(r)
             \/ ApprovalCatchTransaction(r)
    BY <2>3 DEF DepositCatchTransaction, WithdrawCatchTransaction,
                ApprovalCatchTransaction, CatchTransaction, At, BeforeRow, Updated
  <2>4. CASE DepositConfirm(r)
    BY <2>4 DEF DepositConfirm, At, BeforeRow, Updated, UnchangedDatabase
  <2>5. CASE ApprovalSkip(r)
    BY <2>5 DEF ApprovalSkip, At, BeforeRow, Updated
  <2>6. CASE ApprovalConfirm(r)
    <3>1. CASE Confirmable(txn[r])
      BY <2>6, <3>1 DEF ApprovalConfirm, At, BeforeRow, Updated
    <3>2. CASE ~Confirmable(txn[r])
      BY <2>6, <3>2 DEF ApprovalConfirm
    <3>. QED
      BY <3>1, <3>2
  <2>7. CASE UNCHANGED txn
    BY <2>7
  <2>. QED
    BY <2>1, <2>2, <2>3, <2>4, <2>5, <2>6, <2>7
    DEF DepositPrecheck, DepositBroadcast, DepositAwaitReceipt, DepositRevertPosition,
        DepositRespondReverted, DepositCatchPosition, WithdrawReadBalance,
        WithdrawPrecheck, WithdrawAdmit, WithdrawBroadcast, WithdrawAwaitReceipt,
        WithdrawReactivate, WithdrawCatchPosition, ApprovalBroadcast,
        ApprovalAwaitReceipt, ApprovalRespond, BroadcastAnswerLost, Broadcast,
        AwaitReceipt, UnchangedDatabase
<1>. QED
  BY <1>1, <1>2, GotoMoves

\* The steps that drop or take a copy of the position.
LEMMA CopyMoves ==
    ASSUME TypeOK, NEW r \in Requests,
           WithdrawSubtract(r) \/ HandlerThrows(r) \/ HandlerCrashes(r)
    PROVE  Moves(r)
<1>1. CASE WithdrawSubtract(r)
  BY <1>1 DEF WithdrawSubtract, Moves, At, BeforeRow, Updated, HandlerPC
<1>2. CASE HandlerThrows(r) \/ HandlerCrashes(r)
  BY <1>2 DEF HandlerThrows, HandlerCrashes, Moves, UnchangedDatabase, HandlerPC
<1>. QED
  BY <1>1, <1>2

LEMMA ConfirmMoves ==
    ASSUME TypeOK, NEW r \in Requests, WithdrawConfirm(r)
    PROVE  Moves(r)
<1>1. UNCHANGED txn
  BY DEF WithdrawConfirm, UnchangedDatabase
<1>2. CASE Goto(r, "done")
  BY <1>1, <1>2, GotoMoves DEF HandlerPC
<1>3. CASE handler' = [handler EXCEPT ![r] =
                         [@ EXCEPT !.pc = "subtract", !.existing = position]]
  BY <1>1, <1>3 DEF Moves, HandlerPC
<1>. QED
  BY <1>2, <1>3 DEF WithdrawConfirm

\* The steps that fix the amounts, before the row exists, ...
LEMMA AdmitAmounts ==
    ASSUME TypeOK, PositionAmounts, NEW r \in Requests, RowInv(r), RequestAmounts(r),
           DepositAdmit(r) \/ WithdrawRead(r)
    PROVE  RequestAmounts(r)' /\ OthersKeep(r)
<1>1. handler[r] \in Handler /\ UNCHANGED txn
  BY DEF TypeOK, DepositAdmit, WithdrawRead, UnchangedDatabase
<1>2. CASE Goto(r, "rejected")
  BY <1>1, <1>2, GotoMoves, MovesAmounts DEF HandlerPC
<1>3. ASSUME NEW h, handler' = [handler EXCEPT ![r] = h], h.amount = h.shares,
             h.shares >= 0, h.existing = handler[r].existing, handler[r].pc \in BeforeRow
      PROVE  RequestAmounts(r)' /\ OthersKeep(r)
  <2>1. handler'[r] = h /\ txn[r].status = "NONE"
    BY <1>3 DEF TypeOK, RowInv, HandlerKnowsRow, NoTransaction
  <2>. QED
    BY <1>1, <1>3, <2>1 DEF RequestAmounts, OthersKeep, TypeOK, IsOpen, Agreeing
<1>4. CASE DepositAdmit(r) /\ ~Goto(r, "rejected")
  <2>. DEFINE h == [handler[r] EXCEPT !.pc = "admitted",
                      !.isNew = (position.status = "NONE"),
                      !.amount = Amount[r], !.shares = Amount[r]]
  <2>1. handler' = [handler EXCEPT ![r] = h] /\ handler[r].pc \in BeforeRow
    BY <1>4 DEF DepositAdmit, At, BeforeRow
  <2>2. Amount[r] \in Nat
    BY AmountAssumption
  <2>3. h.amount = h.shares /\ h.shares >= 0 /\ h.existing = handler[r].existing
    BY <1>1, <2>2 DEF Handler
  <2>. HIDE DEF h
  <2>. QED
    BY <1>3, <2>1, <2>3
<1>5. CASE WithdrawRead(r) /\ ~Goto(r, "rejected")
  <2>. DEFINE h == [handler[r] EXCEPT !.pc = "read",
                      !.amount = WithdrawAmount(r), !.shares = SharesToBurn(r)]
  <2>1. handler' = [handler EXCEPT ![r] = h] /\ handler[r].pc \in BeforeRow
    BY <1>5 DEF WithdrawRead, At, BeforeRow
  <2>2. WithdrawAmount(r) = SharesToBurn(r) /\ SharesToBurn(r) >= 0
    BY AmountAssumption DEF WithdrawAmount, SharesToBurn, PositionAmounts, Agreeing
  <2>3. h.amount = h.shares /\ h.shares >= 0 /\ h.existing = handler[r].existing
    BY <1>1, <2>2 DEF Handler
  <2>. HIDE DEF h
  <2>. QED
    BY <1>3, <2>1, <2>3
<1>. QED
  BY <1>2, <1>4, <1>5

\* ... and those that insert the row with them.
LEMMA CreateAmounts ==
    ASSUME TypeOK, PositionAmounts, NEW r \in Requests, RowInv(r), RequestAmounts(r),
           DepositCreate(r) \/ WithdrawCreate(r) \/ ApprovalCreate(r)
    PROVE  RequestAmounts(r)' /\ OthersKeep(r)
<1>1. handler[r] \in Handler
  BY DEF TypeOK
<1>2. CASE Goto(r, "rejected") /\ UNCHANGED txn
  BY <1>2, GotoMoves, MovesAmounts DEF HandlerPC
<1>3. CASE /\ Goto(r, "created")
           /\ txn' = [txn EXCEPT ![r] =
                        CreateTransaction(handler[r].amount, handler[r].shares)]
  <2>1. /\ handler'[r] = [handler[r] EXCEPT !.pc = "created"]
        /\ txn'[r] = CreateTransaction(handler[r].amount, handler[r].shares)
        /\ OthersKeep(r)
    BY <1>3 DEF Goto, TypeOK, OthersKeep
  <2>. QED
    BY <1>1, <2>1 DEF RequestAmounts, Handler, CreateTransaction, Agreeing
<1>4. CASE ApprovalCreate(r)
  <2>1. PICK pc : Goto(r, pc)
    BY <1>4 DEF ApprovalCreate
  <2>2. /\ handler'[r] = [handler[r] EXCEPT !.pc = pc]
        /\ OthersKeep(r) /\ r \in Approvals
    BY <1>4, <2>1 DEF ApprovalCreate, Goto, TypeOK, OthersKeep
  <2>. QED
    BY <1>1, <2>2 DEF RequestAmounts, Handler, Agreeing
<1>. QED
  BY <1>2, <1>3, <1>4 DEF DepositCreate, WithdrawCreate

LEMMA HandlerAmounts ==
    ASSUME TypeOK, PositionAmounts, NEW r \in Requests, RowInv(r), RequestAmounts(r),
           RequestArrives(r) \/ HandlerStep(r) \/ HandlerFails(r) \/ Mine(r)
    PROVE  /\ RequestAmounts(r)' /\ OthersKeep(r) /\ UNCHANGED worker
<1>1. RequestAmounts(r)' /\ OthersKeep(r)
  <2>1. CASE Mine(r)
    BY <2>1 DEF Mine, UnchangedDatabase, RequestAmounts, OthersKeep, Agreeing
  <2>2. CASE ~Mine(r)
    BY <2>2, PlainMoves, CopyMoves, ConfirmMoves, MovesAmounts, AdmitAmounts, CreateAmounts
    DEF RequestArrives, HandlerStep, HandlerFails, DepositStep, WithdrawStep, ApprovalStep
  <2>. QED
    BY <2>1, <2>2
<1>2. UNCHANGED worker
  <2>1. RowStep(r)
    BY DepositRowStep, WithdrawRowStep, ApprovalRowStep, FailureRowStep
    DEF RequestArrives, HandlerStep
  <2>. QED
    BY <2>1 DEF RowStep, TouchesOnly
<1>. QED
  BY <1>1, <1>2

-----------------------------------------------------------------------------
(* A worker carries no amounts but a copy of the position, and settles rows *)

Settled(r, t) ==
    t \in {txn[r], MarkConfirmed(txn[r]), MarkFailed(txn[r]), MarkReverted(txn[r])}

LEMMA WorkerRowWrites ==
    ASSUME TypeOK, NEW w \in Workers, ReconcileStep(w) \/ WorkerFails(w)
    PROVE  UNCHANGED handler /\ \A r \in Requests : Settled(r, txn'[r])
<1>1. UNCHANGED handler
  BY DEF ReconcileStep, WorkerFails, ItemThrows, RunAborts, UnchangedByWorker,
         ReconcileStart, StaleMarkFailed, StaleReadPosition, StaleFailPosition,
         ListPending, ReceiptMissing, ConfirmApproval, ConfirmDeposit, ConfirmWithdraw,
         ActivateAndCommit, SubtractRead, SubtractAndCommit, HandleReverted,
         RevertPositionAndCommit, ReconcileEnd
<1>2. ASSUME NEW r \in Requests,
             \/ StaleMarkFailed(w, r) \/ ConfirmApproval(w, r) \/ ConfirmDeposit(w, r)
             \/ ConfirmWithdraw(w, r) \/ HandleReverted(w, r)
      PROVE  \A q \in Requests : Settled(q, txn'[q])
  BY <1>2
  DEF StaleMarkFailed, ConfirmApproval, ConfirmDeposit, ConfirmWithdraw, HandleReverted,
      Settled, TypeOK, UnchangedDatabase
<1>3. ASSUME \/ ActivateAndCommit(w) \/ SubtractAndCommit(w)
             \/ RevertPositionAndCommit(w)
      PROVE  \A q \in Requests : Settled(q, txn'[q])
  BY <1>3
  DEF ActivateAndCommit, SubtractAndCommit, RevertPositionAndCommit, Settled, TypeOK
<1>4. ASSUME UNCHANGED txn
      PROVE  \A q \in Requests : Settled(q, txn'[q])
  BY <1>4 DEF Settled
<1>5. \A q \in Requests : Settled(q, txn'[q])
  BY <1>2, <1>3, <1>4
  DEF ReconcileStep, WorkerFails, ItemThrows, RunAborts, UnchangedDatabase,
      ReconcileStart, StaleReadPosition, StaleFailPosition, ListPending,
      ReceiptMissing, SubtractRead, ReconcileEnd
<1>. QED
  BY <1>1, <1>5

\* No worker writes a row that was never inserted.
LEMMA WorkerWritesRows ==
    ASSUME TypeOK, NEW w \in Workers, WorkerInv(w), \A r \in Requests : RowInv(r),
           ReconcileStep(w) \/ WorkerFails(w), NEW q \in Requests, txn[q].status = "NONE"
    PROVE  txn'[q] = txn[q]
<1>1. ASSUME NEW r \in Requests, r \in worker[w].stale \/ r \in worker[w].pending
      PROVE  txn[r].status # "NONE"
  BY <1>1 DEF WorkerInv, ListsAreRows, RowInv, RowKnowsChain
<1>2. ASSUME NEW r \in Requests,
             \/ StaleMarkFailed(w, r) \/ ConfirmApproval(w, r) \/ ConfirmDeposit(w, r)
             \/ ConfirmWithdraw(w, r) \/ HandleReverted(w, r)
      PROVE  txn'[q] = txn[q]
  <2>1. r # q
    BY <1>1, <1>2
    DEF StaleMarkFailed, ConfirmApproval, ConfirmDeposit, ConfirmWithdraw,
        HandleReverted, Reconcilable
  <2>. QED
    BY <1>2, <2>1
    DEF StaleMarkFailed, ConfirmApproval, ConfirmDeposit, ConfirmWithdraw,
        HandleReverted, TypeOK, UnchangedDatabase
<1>3. ASSUME \/ ActivateAndCommit(w) \/ SubtractAndCommit(w)
             \/ RevertPositionAndCommit(w)
      PROVE  txn'[q] = txn[q]
  <2>1. worker[w].item # q
    BY <1>3
    DEF ActivateAndCommit, SubtractAndCommit, RevertPositionAndCommit, WorkerAt,
        WorkerInv, HolderKnowsRow, RowInv, RowKnowsChain
  <2>. QED
    BY <1>3, <2>1
    DEF ActivateAndCommit, SubtractAndCommit, RevertPositionAndCommit, TypeOK
<1>4. ASSUME UNCHANGED txn
      PROVE  txn'[q] = txn[q]
  BY <1>4
<1>. QED
  BY <1>2, <1>3, <1>4
  DEF ReconcileStep, WorkerFails, ItemThrows, RunAborts, UnchangedDatabase,
      ReconcileStart, StaleReadPosition, StaleFailPosition, ListPending,
      ReceiptMissing, SubtractRead, ReconcileEnd

LEMMA WorkerKeepsRequests ==
    ASSUME TypeOK, NEW w \in Workers, WorkerInv(w), \A r \in Requests : RowInv(r),
           ReconcileStep(w) \/ WorkerFails(w), NEW q \in Requests, RequestAmounts(q)
    PROVE  RequestAmounts(q)'
<1>1. handler' = handler /\ Updated(q, txn'[q])
  BY WorkerRowWrites DEF Settled, Updated
<1>2. /\ txn'[q].amount = txn[q].amount
      /\ IsOpen(txn'[q]) => txn'[q].shares = handler[q].shares \/ txn'[q] = txn[q]
  BY <1>1, UpdatedAmounts
<1>3. txn[q].status = "NONE" => txn'[q] = txn[q]
  BY WorkerWritesRows
<1>. QED
  BY <1>1, <1>2, <1>3 DEF RequestAmounts, Agreeing

LEMMA WorkerKeepsCopies ==
    ASSUME TypeOK, PositionAmounts, NEW w \in Workers, WorkerAmounts(w),
           ReconcileStep(w) \/ WorkerFails(w)
    PROVE  WorkerAmounts(w)' /\ \A v \in Workers \ {w} : worker'[v] = worker[v]
<1>0. worker[w] \in Worker
  BY DEF TypeOK
<1>. DEFINE Good(new) == /\ Agreeing(new.existing)
                         /\ new.pc \in {"activate", "withdrawing", "subtract"} =>
                               new.item \notin Approvals
<1>1. ASSUME NEW new, SetWorker(w, new), Good(new)
      PROVE  WorkerAmounts(w)' /\ \A v \in Workers \ {w} : worker'[v] = worker[v]
  BY <1>1, SetWorkerAt DEF WorkerAmounts, Agreeing
<1>2. Agreeing(NoPosition) /\ Good(IdleWorker) /\ Good(NextItem(w))
  BY <1>0 DEF Agreeing, NoPosition, IdleWorker, NextItem, Worker
<1>3. \A r \in Requests : Good(DropItem(w, r))
  BY <1>0 DEF DropItem, Worker, WorkerAmounts
<1>4. \A r \in Requests, pc \in WorkerPC :
          r \notin Approvals \/ pc = "revertPosition" => Good(Hold(w, r, pc))
  BY <1>0 DEF Hold, Worker, WorkerAmounts
<1>5. CASE \E r \in Requests : StaleMarkFailed(w, r)
  <2>. PICK r \in Requests : StaleMarkFailed(w, r)
    BY <1>5
  <2>. DEFINE new == [worker[w] EXCEPT
                        !.stale = @ \ {r},
                        !.pc = IF r \in Deposits THEN "staleRead" ELSE "stale"]
  <2>1. SetWorker(w, new)
    BY DEF StaleMarkFailed
  <2>2. new.existing = worker[w].existing /\ new.pc \in {"stale", "staleRead"}
    BY <1>0 DEF Worker
  <2>. HIDE DEF new
  <2>. QED
    BY <1>1, <2>1, <2>2 DEF WorkerAmounts
<1>6. CASE StaleReadPosition(w) \/ StaleFailPosition(w)
  <2>1. PICK pc \in {"stale", "staleFail"} : SetWorker(w, [worker[w] EXCEPT !.pc = pc])
    BY <1>6 DEF StaleReadPosition, StaleFailPosition
  <2>2. Good([worker[w] EXCEPT !.pc = pc])
    BY <1>0 DEF Worker, WorkerAmounts
  <2>. HIDE DEF Good
  <2>. QED
    BY <1>1, <2>1, <2>2
<1>7. CASE ReconcileStart(w)
  <2>1. Good([IdleWorker EXCEPT !.pc = "stale", !.stale = StaleRows])
    BY <1>2 DEF IdleWorker
  <2>. HIDE DEF Good
  <2>. QED
    BY <1>1, <1>7, <2>1 DEF ReconcileStart
<1>8. CASE ListPending(w)
  <2>. DEFINE new == [worker[w] EXCEPT
                        !.pc = "pending",
                        !.pending = {q \in Requests : IsPendingReconciliation(txn[q])}]
  <2>1. Good(new)
    BY <1>0 DEF Worker, WorkerAmounts
  <2>2. SetWorker(w, new)
    BY <1>8 DEF ListPending
  <2>. HIDE DEF Good, new
  <2>. QED
    BY <1>1, <2>1, <2>2
<1>9. CASE SubtractRead(w)
  <2>. DEFINE new == [worker[w] EXCEPT !.pc = "subtract", !.existing = position]
  <2>1. Good(new)
    BY <1>0, <1>9 DEF SubtractRead, WorkerAt, Worker, WorkerAmounts, PositionAmounts
  <2>2. SetWorker(w, new)
    BY <1>9 DEF SubtractRead
  <2>. HIDE DEF Good, new
  <2>. QED
    BY <1>1, <2>1, <2>2
<1>10. CASE \/ ActivateAndCommit(w) \/ SubtractAndCommit(w)
            \/ RevertPositionAndCommit(w) \/ ReconcileEnd(w) \/ RunAborts(w)
  <2>. HIDE DEF Good
  <2>. QED
    BY <1>1, <1>2, <1>10
    DEF ActivateAndCommit, SubtractAndCommit, RevertPositionAndCommit, ReconcileEnd,
        RunAborts
<1>11. CASE ItemThrows(w)
  <2>1. SetWorker(w, NextItem(w)) \/ \E r \in Requests : SetWorker(w, DropItem(w, r))
    BY <1>0, <1>11 DEF ItemThrows, Worker
  <2>. HIDE DEF Good
  <2>. QED
    BY <1>1, <1>2, <1>3, <2>1
<1>12. ASSUME NEW r \in Requests,
              \/ ReceiptMissing(w, r) \/ ConfirmApproval(w, r) \/ ConfirmDeposit(w, r)
              \/ ConfirmWithdraw(w, r) \/ HandleReverted(w, r)
       PROVE  WorkerAmounts(w)' /\ \A v \in Workers \ {w} : worker'[v] = worker[v]
  <2>1. \/ SetWorker(w, DropItem(w, r))
        \/ SetWorker(w, Hold(w, r, "revertPosition"))
        \/ /\ r \notin Approvals
           /\ SetWorker(w, Hold(w, r, "activate")) \/ SetWorker(w, Hold(w, r, "withdrawing"))
    BY <1>12, RequestsAssumption
    DEF ReceiptMissing, ConfirmApproval, ConfirmDeposit, ConfirmWithdraw, HandleReverted
  <2>. HIDE DEF Good
  <2>. QED
    BY <1>1, <1>3, <1>4, <2>1 DEF WorkerPC
<1>. QED
  BY <1>5, <1>6, <1>7, <1>8, <1>9, <1>10, <1>11, <1>12 DEF ReconcileStep, WorkerFails

-----------------------------------------------------------------------------
(* The invariant of the amounts and what follows from it *)

LEMMA InitAmountsInv == Init => AmountsInv
BY DEF Init, AmountsInv, PositionAmounts, RequestAmounts, WorkerAmounts, Agreeing,
       NoPosition, NoTransaction, IdleHandler, IdleWorker, IsOpen

LEMMA NextPositionMove == EarnInv /\ AmountsInv /\ Next => PositionMove
<1>. SUFFICES ASSUME EarnInv, AmountsInv, Next PROVE PositionMove
  OBVIOUS
<1>. QED
  BY HandlerPositionMove, WorkerPositionMove DEF EarnInv, AmountsInv, Next

LEMMA NextAmountsInv == EarnInv /\ AmountsInv /\ [Next]_vars => AmountsInv'
<1>. SUFFICES ASSUME EarnInv, AmountsInv, [Next]_vars PROVE AmountsInv'
  OBVIOUS
<1>0. /\ TypeOK /\ PositionAmounts
      /\ \A r \in Requests : RowInv(r) /\ RequestAmounts(r)
      /\ \A w \in Workers : WorkerInv(w) /\ WorkerAmounts(w)
  BY DEF EarnInv, AmountsInv
<1>1. ASSUME Next PROVE PositionAmounts'
  BY <1>0, <1>1, NextPositionMove, PositionStep DEF PositionMove
<1>2. ASSUME NEW r \in Requests,
             RequestArrives(r) \/ HandlerStep(r) \/ HandlerFails(r) \/ Mine(r)
      PROVE  /\ \A q \in Requests : RequestAmounts(q)'
             /\ \A w \in Workers : WorkerAmounts(w)'
  <2>1. RequestAmounts(r)' /\ OthersKeep(r) /\ UNCHANGED worker
    BY <1>0, <1>2, HandlerAmounts
  <2>2. ASSUME NEW q \in Requests \ {r} PROVE RequestAmounts(q)'
    BY <1>0, <2>1 DEF OthersKeep, RequestAmounts, Agreeing
  <2>3. ASSUME NEW w \in Workers PROVE WorkerAmounts(w)'
    BY <1>0, <2>1 DEF WorkerAmounts, Agreeing
  <2>. QED
    BY <2>1, <2>2, <2>3
<1>3. ASSUME NEW w \in Workers, ReconcileStep(w) \/ WorkerFails(w)
      PROVE  /\ \A q \in Requests : RequestAmounts(q)'
             /\ \A v \in Workers : WorkerAmounts(v)'
  <2>1. \A q \in Requests : RequestAmounts(q)'
    BY <1>0, <1>3, WorkerKeepsRequests
  <2>2. WorkerAmounts(w)' /\ \A v \in Workers \ {w} : worker'[v] = worker[v]
    BY <1>0, <1>3, WorkerKeepsCopies
  <2>3. ASSUME NEW v \in Workers \ {w} PROVE WorkerAmounts(v)'
    BY <1>0, <2>2 DEF WorkerAmounts, Agreeing
  <2>. QED
    BY <2>1, <2>2, <2>3
<1>4. CASE UNCHANGED vars
  BY <1>0, <1>4 DEF vars, AmountsInv, PositionAmounts, RequestAmounts, WorkerAmounts,
                    Agreeing
<1>. QED
  BY <1>1, <1>2, <1>3, <1>4 DEF Next, AmountsInv

\* Whatever a handler, a row or a worker has kept for a later write agrees in its
\* three amounts and is not negative, for any number of overlapping deposits and
\* withdrawals.
THEOREM AmountsInvariance == Spec => []AmountsInv
<1>. QED
  BY InitAmountsInv, NextAmountsInv, Invariance, PTL DEF Spec

\* The deposited amount, the current balance and the shares of the position
\* never drift apart and never become negative, whichever write came last.
THEOREM AmountsStayTogether == Spec => []AmountsAgree
<1>1. AmountsInv => AmountsAgree
  BY DEF AmountsInv, PositionAmounts, Agreeing, AmountsAgree
<1>. QED
  BY <1>1, AmountsInvariance, PTL

\* The balance moves only in the commit that confirms a row whose transaction
\* succeeded on chain: no crash, revert, clean-up or retry can move it.
THEOREM BalanceMovesWithRow == Spec => BalanceMovesOnConfirmation
<1>1. ASSUME EarnInv, AmountsInv, [Next]_vars
      PROVE  [position'.shares # position.shares =>
                \E r \in Requests :
                   /\ txn[r].status = "SUBMITTED" /\ txn'[r].status = "CONFIRMED"
                   /\ chain[r] = "success"]_vars
  <2>1. CASE UNCHANGED vars
    BY <2>1
  <2>2. CASE Next
    <3>1. position \in Position /\ PositionAmounts
      BY <1>1 DEF EarnInv, TypeOK, AmountsInv
    <3>2. Booking(position, position') => position'.shares = position.shares
      BY <3>1, PositionOpsKeepShares DEF Booking, PositionAmounts, NoPosition
    <3>. QED
      BY <1>1, <2>2, <3>2, NextPositionMove DEF PositionMove, Confirms
  <2>. QED
    BY <1>1, <2>1, <2>2
<1>. QED
  BY <1>1, Invariance, AmountsInvariance, PTL DEF Spec, BalanceMovesOnConfirmation

-----------------------------------------------------------------------------
(* A settled row is not reopened *)

LEMMA HandlerReopensNothing ==
    ASSUME TypeOK, NEW r \in Requests, RowInv(r),
           RequestArrives(r) \/ HandlerStep(r) \/ HandlerFails(r) \/ Mine(r),
           txn[r].status \in {"CONFIRMED", "REVERTED"}
    PROVE  ~IsOpen(txn'[r])
<1>1. handler[r].pc \notin BeforeRow
  BY ListedRow
<1>2. handler[r].pc # "broadcast"
  BY DEF RowInv, HandlerKnowsRow, BeforeHash
<1>3. ~DepositCreate(r) /\ ~WithdrawCreate(r) /\ ~ApprovalCreate(r) /\ ~RecordHash(r)
  BY <1>1, <1>2 DEF DepositCreate, WithdrawCreate, ApprovalCreate, RecordHash, At, BeforeRow
<1>4. Settled(r, txn'[r])
  <2>1. CASE UNCHANGED txn
    BY <2>1 DEF Settled
  <2>2. CASE \/ DepositMarkReverted(r) \/ WithdrawMarkReverted(r)
             \/ ApprovalMarkReverted(r)
    BY <2>2 DEF DepositMarkReverted, WithdrawMarkReverted, ApprovalMarkReverted,
                Settled, TypeOK
  <2>3. CASE CatchTransaction(r, "done") \/ CatchTransaction(r, "catchPosition")
    BY <2>3 DEF CatchTransaction, Settled, TypeOK
  <2>4. CASE ApprovalSkip(r) \/ ApprovalConfirm(r)
    BY <2>4 DEF ApprovalSkip, ApprovalConfirm, Settled, TypeOK
  <2>5. CASE DepositConfirm(r) \/ WithdrawSubtract(r)
    BY <2>5 DEF DepositConfirm, WithdrawSubtract, Settled, TypeOK, UnchangedDatabase
  <2>. QED
    BY <1>3, <2>1, <2>2, <2>3, <2>4, <2>5
    DEF RequestArrives, HandlerStep, HandlerFails, DepositStep, WithdrawStep,
        ApprovalStep, UnchangedDatabase, Mine, BroadcastAnswerLost, HandlerThrows,
        HandlerCrashes, Broadcast, AwaitReceipt,
        DepositPrecheck, DepositAdmit, DepositBroadcast, DepositMarkSubmitted,
        DepositAwaitReceipt, DepositRevertPosition, DepositRespondReverted,
        DepositCatchTransaction, DepositCatchPosition,
        WithdrawRead, WithdrawReadBalance, WithdrawPrecheck, WithdrawAdmit,
        WithdrawBroadcast, WithdrawMarkSubmitted, WithdrawAwaitReceipt,
        WithdrawReactivate, WithdrawConfirm, WithdrawCatchTransaction,
        WithdrawCatchPosition, ApprovalBroadcast, ApprovalMarkSubmitted,
        ApprovalAwaitReceipt, ApprovalRespond, ApprovalCatchTransaction
<1>. QED
  BY <1>4, StatusWrites DEF Settled, IsOpen

\* A row that was settled against its receipt is never open again, although
\* markSubmitted, markFailed and markReverted overwrite whatever they find.
THEOREM SettledRows == Spec => SettledStaysSettled
<1>1. ASSUME EarnInv, [Next]_vars
      PROVE  [\A r \in Requests :
                txn[r].status \in {"CONFIRMED", "REVERTED"} => ~IsOpen(txn'[r])]_vars
  <2>1. CASE UNCHANGED vars
    BY <2>1
  <2>2. ASSUME NEW r \in Requests, NEW q \in Requests,
               RequestArrives(r) \/ HandlerStep(r) \/ HandlerFails(r) \/ Mine(r),
               txn[q].status \in {"CONFIRMED", "REVERTED"}
        PROVE  ~IsOpen(txn'[q])
    <3>1. TypeOK /\ RowInv(r)
      BY <1>1 DEF EarnInv
    <3>2. CASE q = r
      BY <2>2, <3>1, <3>2, HandlerReopensNothing
    <3>3. CASE q # r
      <4>1. RowStep(r)
        BY <2>2, <3>1, DepositRowStep, WithdrawRowStep, ApprovalRowStep, FailureRowStep
        DEF RequestArrives, HandlerStep
      <4>2. txn'[q] = txn[q]
        BY <3>3, <4>1 DEF RowStep, TouchesOnly
      <4>. QED
        BY <2>2, <4>2 DEF IsOpen
    <3>. QED
      BY <3>2, <3>3
  <2>3. ASSUME NEW w \in Workers, ReconcileStep(w) \/ WorkerFails(w), NEW q \in Requests,
               txn[q].status \in {"CONFIRMED", "REVERTED"}
        PROVE  ~IsOpen(txn'[q])
    <3>1. TypeOK /\ Settled(q, txn'[q])
      BY <1>1, <2>3, WorkerRowWrites DEF EarnInv
    <3>. QED
      BY <2>3, <3>1, StatusWrites DEF Settled, IsOpen
  <2>. QED
    BY <1>1, <2>1, <2>2, <2>3 DEF Next
<1>. QED
  BY <1>1, Invariance, PTL DEF Spec, SettledStaysSettled

(***************************************************************************)
(* Part IV    The founding of a position                                   *)
(***************************************************************************)

-----------------------------------------------------------------------------
(* The deposit that creates the position *)

\* A step about the request r leaves the rows, handlers and receipts of all
\* others alone, ...
OthersStay(r) ==
    \A q \in Requests \ {r} :
        /\ txn'[q] = txn[q] /\ handler'[q] = handler[q]
        /\ chain'[q] = chain[q] /\ applied'[q] = applied[q]

\* ... founds no position and reopens no founding row, ...
FounderStays(r) ==
    /\ Founder(r) => Founder(r)'
    /\ Founder(r)' /\ IsOpen(txn'[r]) => Founder(r) /\ IsOpen(txn[r])
    /\ chain[r] = "reverted" => chain'[r] = "reverted"

\* ... and either keeps the position, and everyone who has yet to learn of it
\* still has, ...
FoundingOpen == \E f \in Deposits : Founder(f) /\ IsOpen(txn[f])

SamePosition(r) ==
    /\ position' = position
    /\ /\ r \in Deposits \cup Withdrawals /\ Unborn(r)
       /\ position.status \in {"NONE", "PENDING"} \/ FoundingOpen
       => Unborn(r)'
    /\ CleaningUp' => CleaningUp \/ (r \in Deposits /\ ~Unborn(r) /\ ~IsOpen(txn'[r]))

\* ... or moves a position that r has a share in, and not as long as r may yet
\* found it.
NewPosition(r) ==
    /\ r \in Deposits \cup Withdrawals /\ ~Unborn(r)
    /\ position'.status \notin {"NONE", "PENDING"}
    /\ \/ ~(Founder(r)' /\ IsOpen(txn'[r]))
       \/ chain[r] = "reverted" /\ position'.status = "FAILED"
    /\ CleaningUp' => CleaningUp

FoundingStep(r) ==
    OthersStay(r) /\ FounderStays(r) /\ (SamePosition(r) \/ NewPosition(r))

LEMMA OthersUnborn ==
    ASSUME NEW r \in Requests, OthersStay(r), NEW q \in Requests, q # r
    PROVE  /\ Unborn(q)' <=> Unborn(q)
           /\ Founder(q)' <=> Founder(q)
           /\ txn'[q] = txn[q] /\ chain'[q] = chain[q]
BY DEF OthersStay, Unborn, Founder

LEMMA KnownStep ==
    ASSUME FoundingKnown, NEW r \in Requests, FoundingStep(r)
    PROVE  FoundingKnown'
<1>1. Deposits \cup Withdrawals \subseteq Requests
  BY DEF Requests
<1>2. ASSUME NEW f \in Deposits, f # r, AloneIn(f), SamePosition(r),
             position.status \in {"NONE", "PENDING"} \/ FoundingOpen
      PROVE  AloneIn(f)'
  BY <1>1, <1>2, OthersUnborn DEF AloneIn, SamePosition, FoundingStep, Requests
<1>3. ASSUME AloneIn(r) PROVE AloneIn(r)'
  BY <1>1, <1>3, OthersUnborn DEF AloneIn, FoundingStep
<1>4. ASSUME NEW f \in Deposits, Founder(f)', IsOpen(txn'[f])
      PROVE  Founder(f) /\ IsOpen(txn[f])
  <2>1. CASE f = r
    BY <1>4, <2>1 DEF FoundingStep, FounderStays
  <2>2. CASE f # r
    BY <1>1, <1>4, <2>2, OthersUnborn DEF FoundingStep
  <2>. QED
    BY <2>1, <2>2
<1>5. CASE SamePosition(r)
  <2>1. CASE position.status = "NONE"
    <3>1. ~FoundingOpen
      BY <2>1 DEF FoundingKnown, FoundingOpen
    <3>2. \A q \in Deposits \cup Withdrawals : Unborn(q)'
      BY <1>1, <1>5, <2>1, OthersUnborn DEF FoundingKnown, SamePosition, FoundingStep
    <3>3. ~CleaningUp'
      BY <1>5, <2>1 DEF FoundingKnown, SamePosition
    <3>. QED
      BY <1>4, <1>5, <2>1, <3>1, <3>2, <3>3 DEF FoundingKnown, SamePosition, FoundingOpen
  <2>2. ASSUME position.status = "PENDING"
        PROVE  \E f \in Deposits : Founder(f)' /\ AloneIn(f)'
    <3>1. PICK f \in Deposits : Founder(f) /\ AloneIn(f)
      BY <2>2 DEF FoundingKnown
    <3>2. AloneIn(f)'
      BY <1>2, <1>3, <1>5, <2>2, <3>1
    <3>3. Founder(f)'
      BY <1>1, <3>1, OthersUnborn DEF FoundingStep, FounderStays
    <3>. QED
      BY <3>2, <3>3
  <2>3. ASSUME NEW f \in Deposits, Founder(f)', IsOpen(txn'[f])
        PROVE  /\ AloneIn(f)' /\ ~CleaningUp'
               /\ \/ position'.status = "PENDING"
                  \/ position'.status = "FAILED" /\ chain'[f] = "reverted"
    <3>1. /\ Founder(f) /\ IsOpen(txn[f]) /\ AloneIn(f) /\ ~CleaningUp
          /\ \/ position.status = "PENDING"
             \/ position.status = "FAILED" /\ chain[f] = "reverted"
      BY <1>4, <2>3 DEF FoundingKnown
    <3>2. AloneIn(f)'
      BY <1>2, <1>3, <1>5, <3>1 DEF FoundingOpen
    <3>3. ~CleaningUp'
      BY <1>5, <2>3, <3>1 DEF SamePosition, AloneIn
    <3>4. chain[f] = "reverted" => chain'[f] = "reverted"
      BY <1>1, OthersUnborn DEF FoundingStep, FounderStays
    <3>. QED
      BY <1>5, <3>1, <3>2, <3>3, <3>4 DEF SamePosition
  <2>4. CASE position.status # "NONE"
    BY <1>5, <2>2, <2>3, <2>4 DEF FoundingKnown, SamePosition
  <2>. QED
    BY <2>1, <2>4
<1>6. CASE NewPosition(r)
  <2>1. ASSUME NEW f \in Deposits, Founder(f)', IsOpen(txn'[f])
        PROVE  /\ AloneIn(f)' /\ ~CleaningUp'
               /\ position'.status = "FAILED" /\ chain'[f] = "reverted"
    <3>1. Founder(f) /\ IsOpen(txn[f]) /\ AloneIn(f) /\ ~CleaningUp
      BY <1>4, <2>1 DEF FoundingKnown
    <3>2. f = r
      BY <1>6, <3>1 DEF NewPosition, AloneIn
    <3>. QED
      BY <1>3, <1>6, <2>1, <3>1, <3>2 DEF NewPosition, FoundingStep, FounderStays
  <2>. QED
    BY <1>6, <2>1 DEF FoundingKnown, NewPosition
<1>. QED
  BY <1>5, <1>6 DEF FoundingStep
\* A worker that only looks around, or clears the position nobody may found any
\* more.
LEMMA KnownCleanup ==
    ASSUME FoundingKnown, UNCHANGED <<txn, handler, chain>>,
           CleaningUp' => CleaningUp,
           \/ UNCHANGED position
           \/ CleaningUp /\ position'.status \notin {"NONE", "PENDING"}
    PROVE  FoundingKnown'
<1>1. \A q \in Deposits \cup Withdrawals :
          (Unborn(q)' <=> Unborn(q)) /\ (Founder(q)' <=> Founder(q))
  BY DEF Unborn, Founder
<1>2. \A q \in Deposits : AloneIn(q)' <=> AloneIn(q)
  BY <1>1 DEF AloneIn
<1>3. CASE UNCHANGED position
  BY <1>1, <1>2, <1>3 DEF FoundingKnown
<1>4. CASE CleaningUp /\ position'.status \notin {"NONE", "PENDING"}
  BY <1>1, <1>2, <1>4 DEF FoundingKnown
<1>. QED
  BY <1>3, <1>4

\* The commit that inserts the position together with the row of its founder.
LEMMA KnownFounded ==
    ASSUME TypeOK, FoundingKnown, NEW r \in Deposits, DepositCreate(r),
           handler[r].isNew, position.status = "NONE"
    PROVE  FoundingKnown'
<1>1. r \in Requests /\ handler[r] \in Handler
  BY DEF TypeOK, Requests
<1>2. /\ position' = CreatePending
      /\ txn' = [txn EXCEPT ![r] = CreateTransaction(handler[r].amount, handler[r].shares)]
      /\ handler' = [handler EXCEPT ![r].pc = "created"]
      /\ UNCHANGED <<chain, worker>>
  BY DEF DepositCreate, PositionTaken, Goto
<1>3. /\ txn'[r].status = "CREATED" /\ handler'[r].isNew
      /\ \A q \in Requests \ {r} : txn'[q] = txn[q] /\ handler'[q] = handler[q]
  BY <1>1, <1>2 DEF TypeOK, CreateTransaction, Handler
<1>4. /\ \A q \in Deposits \cup Withdrawals : Unborn(q)
      /\ ~CleaningUp /\ ~CleaningUp'
  BY <1>2 DEF FoundingKnown, CleaningUp
<1>5. \A q \in (Deposits \cup Withdrawals) \ {r} : Unborn(q)' /\ ~Founder(q)'
  BY <1>3, <1>4 DEF Unborn, Founder, Requests
<1>6. AloneIn(r)' /\ Founder(r)'
  BY <1>3, <1>5 DEF AloneIn, Founder
<1>7. position'.status = "PENDING" /\ position'.shares = 0
  BY <1>2 DEF CreatePending, NoPosition
<1>. QED
  BY <1>4, <1>5, <1>6, <1>7 DEF FoundingKnown

-----------------------------------------------------------------------------
(* What each step of a handler does to it *)

\* What the handler of r keeps when it moves on.
KeepsAmounts(r) ==
    /\ handler'[r].isNew = handler[r].isNew /\ handler'[r].shares = handler[r].shares
    /\ \A q \in Requests \ {r} : handler'[q] = handler[q]

LEMMA MovesKeepAmounts ==
    ASSUME TypeOK, NEW r \in Requests, Moves(r)
    PROVE  KeepsAmounts(r)
<1>1. handler[r] \in Handler
  BY DEF TypeOK
<1>2. PICK pc \in HandlerPC, ex \in {handler[r].existing, NoPosition, position} :
          handler' = [handler EXCEPT ![r] = [@ EXCEPT !.pc = pc, !.existing = ex]]
  BY DEF Moves
<1>3. handler'[r] = [handler[r] EXCEPT !.pc = pc, !.existing = ex]
  BY <1>2 DEF TypeOK
<1>4. handler'[r].isNew = handler[r].isNew /\ handler'[r].shares = handler[r].shares
  BY <1>1, <1>3 DEF Handler
<1>. QED
  BY <1>2, <1>4 DEF KeepsAmounts, TypeOK

LEMMA GotoKeeps ==
    ASSUME TypeOK, NEW r \in Requests, NEW pc, Goto(r, pc)
    PROVE  KeepsAmounts(r) /\ handler'[r].pc = pc
<1>1. handler[r] \in Handler
  BY DEF TypeOK
<1>. QED
  BY <1>1 DEF Goto, TypeOK, Handler, KeepsAmounts

\* A step of r that leaves the position alone: its row is not inserted and not
\* reopened by it.
LEMMA QuietFounding ==
    ASSUME NEW r \in Requests, KeepsAmounts(r), UNCHANGED <<worker, position>>,
           \A q \in Requests \ {r} :
              txn'[q] = txn[q] /\ chain'[q] = chain[q] /\ applied'[q] = applied[q],
           chain[r] = "reverted" => chain'[r] = "reverted",
           txn'[r].status = "NONE" <=> txn[r].status = "NONE",
           IsOpen(txn'[r]) => IsOpen(txn[r]),
           txn[r].status = "NONE" =>
              /\ r \in Deposits /\ handler'[r].pc = "admitted" => handler[r].pc = "admitted"
              /\ handler[r].pc \in {"idle", "rejected"} =>
                    handler'[r].pc \in {"idle", "rejected"} \/ r \notin Withdrawals
    PROVE  FoundingStep(r)
<1>1. OthersStay(r)
  BY DEF OthersStay, KeepsAmounts
<1>2. FounderStays(r)
  BY DEF FounderStays, Founder, KeepsAmounts
<1>3. SamePosition(r)
  BY DEF SamePosition, Unborn, KeepsAmounts, CleaningUp
<1>. QED
  BY <1>1, <1>2, <1>3 DEF FoundingStep
\* A handler that has ended does not start again.
RequestKept(r) ==
    /\ RequestFounding(r)'
    /\ handler[r].pc \in {"done", "crashed"} => handler'[r].pc = handler[r].pc

LEMMA DepositQuiet ==
    ASSUME TypeOK, NEW r \in Requests, RowInv(r), RequestFounding(r),
           \/ DepositPrecheck(r) \/ DepositBroadcast(r) \/ DepositMarkSubmitted(r)
           \/ DepositAwaitReceipt(r) \/ DepositMarkReverted(r)
           \/ DepositRespondReverted(r) \/ DepositCatchTransaction(r)
    PROVE  FoundingStep(r) /\ RequestKept(r)
<1>0. txn[r] \in Transaction /\ r \in Deposits
  BY DEF TypeOK, DepositPrecheck, DepositBroadcast, DepositMarkSubmitted,
         DepositAwaitReceipt, DepositMarkReverted, DepositRespondReverted,
         DepositCatchTransaction
<1>. USE DEF RowInv, HandlerKnowsRow, RowKnowsChain, RequestKept, RequestFounding,
             KeepsAmounts, BeforeRow, BeforeHash, AfterRevert, AfterSuccess, IsOpen, At,
             TypeOK, UnchangedDatabase
<1>1. CASE DepositPrecheck(r)
  <2>1. PICK pc \in {"rejected", "prechecked"} : Goto(r, pc)
    BY <1>1 DEF DepositPrecheck
  <2>2. KeepsAmounts(r) /\ handler'[r].pc = pc
    BY <2>1, GotoKeeps
  <2>. QED
    BY <1>0, <1>1, <2>2, QuietFounding DEF DepositPrecheck, NoTransaction
<1>2. CASE DepositBroadcast(r)
  <2>1. KeepsAmounts(r) /\ handler'[r].pc = "broadcast"
    BY <1>2, GotoKeeps DEF DepositBroadcast, Broadcast
  <2>. QED
    BY <1>0, <1>2, <2>1, QuietFounding DEF DepositBroadcast, Broadcast
<1>3. CASE DepositMarkSubmitted(r)
  <2>1. KeepsAmounts(r) /\ handler'[r].pc = "submitted"
    BY <1>3, GotoKeeps DEF DepositMarkSubmitted, RecordHash
  <2>2. txn'[r].status = "SUBMITTED" /\ \A q \in Requests \ {r} : txn'[q] = txn[q]
    BY <1>0, <1>3 DEF DepositMarkSubmitted, RecordHash, MarkSubmitted, Transaction
  <2>. QED
    BY <1>0, <1>3, <2>1, <2>2, QuietFounding DEF DepositMarkSubmitted, RecordHash
<1>4. CASE DepositAwaitReceipt(r)
  <2>1. PICK pc \in {"mined", "revertPosition", "revertTransaction"} : Goto(r, pc)
    BY <1>4 DEF DepositAwaitReceipt, AwaitReceipt
  <2>2. KeepsAmounts(r) /\ handler'[r].pc = pc
    BY <2>1, GotoKeeps
  <2>. QED
    BY <1>0, <1>4, <2>2, QuietFounding DEF DepositAwaitReceipt, AwaitReceipt
<1>5. CASE DepositMarkReverted(r)
  <2>1. KeepsAmounts(r) /\ handler'[r].pc = "reread"
    BY <1>5, GotoKeeps DEF DepositMarkReverted
  <2>2. txn'[r].status = "REVERTED" /\ \A q \in Requests \ {r} : txn'[q] = txn[q]
    BY <1>0, <1>5, StatusWrites DEF DepositMarkReverted
  <2>. QED
    BY <1>0, <1>5, <2>1, <2>2, QuietFounding DEF DepositMarkReverted
<1>6. CASE DepositRespondReverted(r)
  <2>1. KeepsAmounts(r) /\ handler'[r].pc = "done"
    BY <1>6, GotoKeeps DEF DepositRespondReverted
  <2>. QED
    BY <1>0, <1>6, <2>1, QuietFounding DEF DepositRespondReverted
<1>7. CASE DepositCatchTransaction(r)
  <2>1. PICK pc \in {"catchPosition", "done"} : Goto(r, pc)
    BY <1>7 DEF DepositCatchTransaction, CatchTransaction
  <2>2. KeepsAmounts(r) /\ handler'[r].pc = pc
    BY <2>1, GotoKeeps
  <2>3. txn'[r].status = "FAILED" /\ \A q \in Requests \ {r} : txn'[q] = txn[q]
    BY <1>0, <1>7, StatusWrites DEF DepositCatchTransaction, CatchTransaction
  <2>. QED
    BY <1>0, <1>7, <2>2, <2>3, QuietFounding DEF DepositCatchTransaction, CatchTransaction
<1>. QED
  BY <1>1, <1>2, <1>3, <1>4, <1>5, <1>6, <1>7

LEMMA WithdrawQuiet ==
    ASSUME TypeOK, NEW r \in Requests, RowInv(r), RequestFounding(r),
           \/ WithdrawReadBalance(r) \/ WithdrawPrecheck(r) \/ WithdrawAdmit(r)
           \/ WithdrawBroadcast(r) \/ WithdrawMarkSubmitted(r) \/ WithdrawAwaitReceipt(r)
           \/ WithdrawMarkReverted(r) \/ WithdrawConfirm(r) \/ WithdrawCatchTransaction(r)
    PROVE  FoundingStep(r) /\ RequestKept(r)
<1>0. txn[r] \in Transaction /\ r \in Withdrawals /\ r \notin Deposits
  BY DEF TypeOK, WithdrawReadBalance, WithdrawPrecheck, WithdrawAdmit, WithdrawBroadcast,
         WithdrawMarkSubmitted, WithdrawAwaitReceipt, WithdrawMarkReverted,
         WithdrawConfirm, WithdrawCatchTransaction
<1>. USE DEF RowInv, HandlerKnowsRow, RowKnowsChain, RequestKept, RequestFounding,
             KeepsAmounts, BeforeRow, BeforeHash, AfterRevert, AfterSuccess, IsOpen, At,
             TypeOK, UnchangedDatabase
<1>1. CASE WithdrawReadBalance(r) \/ WithdrawPrecheck(r) \/ WithdrawAdmit(r)
  <2>1. PICK pc \in {"funded", "rejected", "prechecked", "admitted"} : Goto(r, pc)
    BY <1>1 DEF WithdrawReadBalance, WithdrawPrecheck, WithdrawAdmit
  <2>2. KeepsAmounts(r) /\ handler'[r].pc = pc
    BY <2>1, GotoKeeps
  <2>. QED
    BY <1>0, <1>1, <2>2, QuietFounding
    DEF WithdrawReadBalance, WithdrawPrecheck, WithdrawAdmit, NoTransaction
<1>2. CASE WithdrawBroadcast(r)
  <2>1. KeepsAmounts(r) /\ handler'[r].pc = "broadcast"
    BY <1>2, GotoKeeps DEF WithdrawBroadcast, Broadcast
  <2>. QED
    BY <1>0, <1>2, <2>1, QuietFounding DEF WithdrawBroadcast, Broadcast
<1>3. CASE WithdrawMarkSubmitted(r)
  <2>1. KeepsAmounts(r) /\ handler'[r].pc = "submitted"
    BY <1>3, GotoKeeps DEF WithdrawMarkSubmitted, RecordHash
  <2>2. txn'[r].status = "SUBMITTED" /\ \A q \in Requests \ {r} : txn'[q] = txn[q]
    BY <1>0, <1>3 DEF WithdrawMarkSubmitted, RecordHash, MarkSubmitted, Transaction
  <2>. QED
    BY <1>0, <1>3, <2>1, <2>2, QuietFounding DEF WithdrawMarkSubmitted, RecordHash
<1>4. CASE WithdrawAwaitReceipt(r)
  <2>1. PICK pc \in {"mined", "revertTransaction"} : Goto(r, pc)
    BY <1>4 DEF WithdrawAwaitReceipt, AwaitReceipt
  <2>2. KeepsAmounts(r) /\ handler'[r].pc = pc
    BY <2>1, GotoKeeps
  <2>. QED
    BY <1>0, <1>4, <2>2, QuietFounding DEF WithdrawAwaitReceipt, AwaitReceipt
<1>5. CASE WithdrawMarkReverted(r)
  <2>1. KeepsAmounts(r) /\ handler'[r].pc = "reactivate"
    BY <1>5, GotoKeeps DEF WithdrawMarkReverted
  <2>2. txn'[r].status = "REVERTED" /\ \A q \in Requests \ {r} : txn'[q] = txn[q]
    BY <1>0, <1>5, StatusWrites DEF WithdrawMarkReverted
  <2>. QED
    BY <1>0, <1>5, <2>1, <2>2, QuietFounding DEF WithdrawMarkReverted
<1>6. CASE WithdrawConfirm(r)
  <2>1. KeepsAmounts(r)
    BY <1>6, ConfirmMoves, MovesKeepAmounts
  <2>2. handler'[r].pc \in {"done", "subtract"}
    <3>1. handler[r] \in Handler
      OBVIOUS
    <3>2. handler'[r] \in {[handler[r] EXCEPT !.pc = "done"],
                          [handler[r] EXCEPT !.pc = "subtract", !.existing = position]}
      BY <1>6 DEF WithdrawConfirm, Goto
    <3>. QED
      BY <3>1, <3>2 DEF Handler
  <2>. QED
    BY <1>0, <1>6, <2>1, <2>2, QuietFounding DEF WithdrawConfirm
<1>7. CASE WithdrawCatchTransaction(r)
  <2>1. KeepsAmounts(r) /\ handler'[r].pc = "catchPosition"
    BY <1>7, GotoKeeps DEF WithdrawCatchTransaction, CatchTransaction
  <2>2. txn'[r].status = "FAILED" /\ \A q \in Requests \ {r} : txn'[q] = txn[q]
    BY <1>0, <1>7, StatusWrites DEF WithdrawCatchTransaction, CatchTransaction
  <2>. QED
    BY <1>0, <1>7, <2>1, <2>2, QuietFounding DEF WithdrawCatchTransaction, CatchTransaction
<1>. QED
  BY <1>1, <1>2, <1>3, <1>4, <1>5, <1>6, <1>7
LEMMA ApprovalQuiet ==
    ASSUME TypeOK, NEW r \in Requests, RowInv(r), RequestFounding(r),
           ApprovalCreate(r) \/ ApprovalStep(r)
    PROVE  FoundingStep(r) /\ RequestKept(r)
<1>0. /\ txn[r] \in Transaction /\ r \in Approvals
      /\ r \notin Deposits /\ r \notin Withdrawals
  BY DEF TypeOK, ApprovalStep, ApprovalCreate, ApprovalSkip, ApprovalBroadcast,
         ApprovalMarkSubmitted, ApprovalAwaitReceipt, ApprovalConfirm,
         ApprovalMarkReverted, ApprovalRespond, ApprovalCatchTransaction
<1>1. ASSUME NEW pc, Goto(r, pc), UNCHANGED <<worker, position>>,
             \A q \in Requests \ {r} :
                txn'[q] = txn[q] /\ chain'[q] = chain[q] /\ applied'[q] = applied[q],
             chain[r] = "reverted" => chain'[r] = "reverted",
             txn[r].status # "NONE" => txn'[r].status # "NONE",
             pc \in BeforeHash => txn'[r].status = "CREATED",
             pc # "catchPosition", handler[r].pc \notin {"done", "crashed"}
      PROVE  FoundingStep(r) /\ RequestKept(r)
  <2>1. KeepsAmounts(r) /\ handler'[r].pc = pc
    BY <1>1, GotoKeeps
  <2>2. OthersStay(r)
    BY <1>1, <2>1 DEF OthersStay, KeepsAmounts
  <2>3. FounderStays(r)
    BY <1>0, <1>1 DEF FounderStays, Founder
  <2>4. RequestKept(r)
    BY <1>0, <1>1, <2>1 DEF RequestKept, RequestFounding
  <2>5. SamePosition(r)
    BY <1>0, <1>1 DEF SamePosition, CleaningUp
  <2>. QED
    BY <2>2, <2>3, <2>4, <2>5 DEF FoundingStep
<1>. USE DEF RowInv, HandlerKnowsRow, RowKnowsChain, RequestFounding,
             BeforeRow, BeforeHash, At, TypeOK, UnchangedDatabase
<1>2. CASE ApprovalCreate(r)
  <2>1. PICK pc \in {"created", "sufficient"} : Goto(r, pc)
    BY <1>2 DEF ApprovalCreate
  <2>2. txn'[r].status = "CREATED" /\ \A q \in Requests \ {r} : txn'[q] = txn[q]
    BY <1>2 DEF ApprovalCreate, CreateTransaction
  <2>. QED
    BY <1>1, <1>2, <2>1, <2>2 DEF ApprovalCreate
<1>3. CASE ApprovalSkip(r) \/ ApprovalConfirm(r)
  <2>1. PICK pc \in {"done", "reread"} : Goto(r, pc)
    BY <1>3 DEF ApprovalSkip, ApprovalConfirm
  <2>2. /\ txn[r].status # "NONE" => txn'[r].status # "NONE"
        /\ \A q \in Requests \ {r} : txn'[q] = txn[q]
    BY <1>3, StatusWrites DEF ApprovalSkip, ApprovalConfirm
  <2>. QED
    BY <1>1, <1>3, <2>1, <2>2 DEF ApprovalSkip, ApprovalConfirm
<1>4. CASE ApprovalBroadcast(r)
  BY <1>1, <1>4 DEF ApprovalBroadcast, Broadcast
<1>5. CASE ApprovalMarkSubmitted(r)
  <2>1. txn'[r].status = "SUBMITTED" /\ \A q \in Requests \ {r} : txn'[q] = txn[q]
    BY <1>0, <1>5 DEF ApprovalMarkSubmitted, RecordHash, MarkSubmitted, Transaction
  <2>. QED
    BY <1>1, <1>5, <2>1 DEF ApprovalMarkSubmitted, RecordHash
<1>6. CASE ApprovalAwaitReceipt(r)
  <2>1. PICK pc \in {"mined", "revertTransaction"} : Goto(r, pc)
    BY <1>6 DEF ApprovalAwaitReceipt, AwaitReceipt
  <2>. QED
    BY <1>1, <1>6, <2>1 DEF ApprovalAwaitReceipt, AwaitReceipt
<1>7. CASE ApprovalMarkReverted(r)
  <2>1. txn'[r].status = "REVERTED" /\ \A q \in Requests \ {r} : txn'[q] = txn[q]
    BY <1>7, StatusWrites DEF ApprovalMarkReverted
  <2>. QED
    BY <1>1, <1>7, <2>1 DEF ApprovalMarkReverted
<1>8. CASE ApprovalRespond(r)
  BY <1>1, <1>8 DEF ApprovalRespond
<1>9. CASE ApprovalCatchTransaction(r)
  <2>1. txn'[r].status = "FAILED" /\ \A q \in Requests \ {r} : txn'[q] = txn[q]
    BY <1>9, StatusWrites DEF ApprovalCatchTransaction, CatchTransaction
  <2>. QED
    BY <1>1, <1>9, <2>1 DEF ApprovalCatchTransaction, CatchTransaction
<1>. QED
  BY <1>2, <1>3, <1>4, <1>5, <1>6, <1>7, <1>8, <1>9 DEF ApprovalStep

LEMMA FailureQuiet ==
    ASSUME TypeOK, NEW r \in Requests, RowInv(r), RequestFounding(r),
           HandlerFails(r) \/ Mine(r)
    PROVE  FoundingStep(r) /\ RequestKept(r)
<1>. USE DEF RowInv, HandlerKnowsRow, RequestKept, RequestFounding,
             KeepsAmounts, BeforeRow, BeforeHash, At, TypeOK, UnchangedDatabase
<1>1. CASE BroadcastAnswerLost(r)
  <2>1. KeepsAmounts(r) /\ handler'[r].pc = "catchTransaction"
    BY <1>1, GotoKeeps DEF BroadcastAnswerLost
  <2>. QED
    BY <1>1, <2>1, QuietFounding DEF BroadcastAnswerLost
<1>2. CASE HandlerThrows(r) \/ HandlerCrashes(r)
  <2>1. KeepsAmounts(r)
    BY <1>2, CopyMoves, MovesKeepAmounts
  <2>2. handler'[r].pc \in {"catchTransaction", "crashed"}
    <3>1. handler[r] \in Handler
      OBVIOUS
    <3>2. handler'[r] \in {[handler[r] EXCEPT !.pc = "catchTransaction", !.existing = NoPosition],
                          [handler[r] EXCEPT !.pc = "crashed", !.existing = NoPosition]}
      BY <1>2 DEF HandlerThrows, HandlerCrashes
    <3>. QED
      BY <3>1, <3>2 DEF Handler
  <2>. QED
    BY <1>2, <2>1, <2>2, QuietFounding DEF HandlerThrows, HandlerCrashes, TryPCs, Live
<1>3. CASE Mine(r)
  <2>1. KeepsAmounts(r) /\ handler' = handler
    BY <1>3 DEF Mine
  <2>. QED
    BY <1>3, <2>1, QuietFounding DEF Mine
<1>. QED
  BY <1>1, <1>2, <1>3 DEF HandlerFails

\* Whoever is admitted while a position may still be founded knows it.
LEMMA AdmitFounding ==
    ASSUME TypeOK, FoundingKnown, NEW r \in Requests, RowInv(r), RequestFounding(r),
           DepositAdmit(r) \/ WithdrawRead(r)
    PROVE  FoundingStep(r) /\ RequestKept(r)
<1>0. /\ handler[r] \in Handler /\ txn[r].status = "NONE"
      /\ UNCHANGED <<txn, position, chain, applied, worker>>
      /\ handler[r].pc \notin {"done", "crashed", "admitted"}
  BY DEF TypeOK, DepositAdmit, WithdrawRead, At, RowInv, HandlerKnowsRow, BeforeRow,
         NoTransaction, UnchangedDatabase
<1>1. CASE Goto(r, "rejected")
  <2>1. KeepsAmounts(r) /\ handler'[r].pc = "rejected"
    BY <1>1, GotoKeeps
  <2>. QED
    BY <1>0, <2>1, QuietFounding
    DEF RequestKept, RequestFounding, KeepsAmounts, BeforeHash, IsOpen
<1>2. ASSUME NEW h, handler' = [handler EXCEPT ![r] = h],
             \/ r \in Deposits /\ h.pc = "admitted" /\ h.shares = Amount[r]
             \/ r \in Withdrawals /\ h.pc = "read",
             \/ position.status \notin {"NONE", "PENDING"} /\ ~FoundingOpen
             \/ r \in Deposits /\ h.isNew
      PROVE  FoundingStep(r) /\ RequestKept(r)
  <2>1. handler'[r] = h /\ \A q \in Requests \ {r} : handler'[q] = handler[q]
    BY <1>2 DEF TypeOK
  <2>2. OthersStay(r) /\ FounderStays(r)
    BY <1>0, <2>1 DEF OthersStay, FounderStays, Founder
  <2>3. SamePosition(r)
    BY <1>0, <1>2, <2>1 DEF SamePosition, Unborn, CleaningUp
  <2>4. RequestKept(r)
    BY <1>0, <1>2, <2>1 DEF RequestKept, RequestFounding, BeforeHash
  <2>. QED
    BY <2>2, <2>3, <2>4 DEF FoundingStep
<1>3. CASE DepositAdmit(r) /\ ~Goto(r, "rejected")
  <2>. DEFINE h == [handler[r] EXCEPT !.pc = "admitted",
                      !.isNew = (position.status = "NONE"),
                      !.amount = Amount[r], !.shares = Amount[r]]
  <2>1. /\ handler' = [handler EXCEPT ![r] = h] /\ r \in Deposits
        /\ ~DuplicateDeposit
    BY <1>3 DEF DepositAdmit
  <2>2. h.pc = "admitted" /\ h.shares = Amount[r] /\ h.isNew = (position.status = "NONE")
    BY <1>0 DEF Handler
  <2>3. position.status # "PENDING" /\ ~FoundingOpen
    BY <2>1 DEF DuplicateDeposit, HasOpenDeposit, FoundingOpen
  <2>. HIDE DEF h
  <2>. QED
    BY <1>2, <2>1, <2>2, <2>3
<1>4. CASE WithdrawRead(r) /\ ~Goto(r, "rejected")
  <2>. DEFINE h == [handler[r] EXCEPT !.pc = "read",
                      !.amount = WithdrawAmount(r), !.shares = SharesToBurn(r)]
  <2>1. /\ handler' = [handler EXCEPT ![r] = h] /\ r \in Withdrawals
        /\ position.status = "ACTIVE"
    BY <1>4 DEF WithdrawRead, Withdrawable
  <2>2. h.pc = "read"
    BY <1>0 DEF Handler
  <2>3. position.status \notin {"NONE", "PENDING"} /\ ~FoundingOpen
    BY <2>1 DEF FoundingKnown, FoundingOpen
  <2>. HIDE DEF h
  <2>. QED
    BY <1>2, <2>1, <2>2, <2>3
<1>. QED
  BY <1>1, <1>3, <1>4

-----------------------------------------------------------------------------
(* The steps that write the position *)

\* Somebody with a share in the position moves it.
LEMMA MovedFounding ==
    ASSUME NEW r \in Deposits \cup Withdrawals, KeepsAmounts(r), UNCHANGED <<worker, chain>>,
           \A q \in Requests \ {r} : txn'[q] = txn[q] /\ applied'[q] = applied[q],
           ~Unborn(r), position'.status \notin {"NONE", "PENDING"},
           txn'[r].status # "NONE",
           \/ r \notin Deposits
           \/ txn[r].status # "NONE" /\ ~IsOpen(txn'[r])
           \/ chain[r] = "reverted" /\ position'.status = "FAILED" /\ txn' = txn
    PROVE  FoundingStep(r)
<1>0. r \in Requests
  BY DEF Requests
<1>1. OthersStay(r)
  BY DEF OthersStay, KeepsAmounts
<1>2. FounderStays(r)
  BY DEF FounderStays, Founder, KeepsAmounts
<1>3. NewPosition(r)
  BY DEF NewPosition, Founder, CleaningUp
<1>. QED
  BY <1>1, <1>2, <1>3 DEF FoundingStep

LEMMA PositionStatuses ==
    ASSUME NEW p \in Position
    PROVE  /\ MarkWithdrawing(p).status = "WITHDRAWING" /\ MarkActive(p).status = "ACTIVE"
           /\ MarkPositionFailed(p).status = "FAILED"
           /\ \A n, m \in Int : /\ Activate(p, n, m).status = "ACTIVE"
                                /\ AddDeposit(p, n, m).status = "ACTIVE"
                                /\ SubtractWithdraw(p, n, m).status \in {"ACTIVE", "CLOSED"}
BY DEF Position, NoPosition, MarkWithdrawing, MarkActive, MarkPositionFailed, Activate,
       AddDeposit, SubtractWithdraw

LEMMA DepositMoved ==
    ASSUME TypeOK, FoundingKnown, NEW r \in Requests, RowInv(r), RequestFounding(r),
           DepositRevertPosition(r) \/ DepositCatchPosition(r) \/ DepositConfirm(r)
    PROVE  FoundingStep(r) /\ RequestKept(r)
<1>0. /\ txn[r] \in Transaction /\ handler[r] \in Handler /\ position \in Position
      /\ r \in Deposits /\ txn[r].status # "NONE"
      /\ UNCHANGED <<worker, chain>>
  BY DEF TypeOK, DepositRevertPosition, DepositCatchPosition, DepositConfirm, At, RowInv,
         HandlerKnowsRow, BeforeRow
<1>1. ~Unborn(r)
  BY <1>0 DEF Unborn
<1>2. CASE DepositRevertPosition(r) \/ DepositCatchPosition(r)
  <2>1. PICK pc \in {"revertTransaction", "done"} : Goto(r, pc)
    BY <1>2 DEF DepositRevertPosition, DepositCatchPosition
  <2>2. KeepsAmounts(r) /\ handler'[r].pc = pc
    BY <2>1, GotoKeeps
  <2>3. position'.status = "FAILED" /\ UNCHANGED <<txn, applied>>
    BY <1>0, <1>2, PositionStatuses DEF DepositRevertPosition, DepositCatchPosition
  <2>4. ~IsOpen(txn'[r]) \/ chain[r] = "reverted"
    BY <1>2, <2>3 DEF DepositRevertPosition, DepositCatchPosition, At, RowInv,
                      HandlerKnowsRow, AfterRevert, RequestFounding
  <2>5. FoundingStep(r)
    BY <1>0, <1>1, <2>2, <2>3, <2>4, MovedFounding
  <2>6. RequestKept(r)
    BY <1>0, <1>2, <2>2, <2>3
    DEF RequestKept, RequestFounding, KeepsAmounts, BeforeHash, DepositRevertPosition,
        DepositCatchPosition, At
  <2>. QED
    BY <2>5, <2>6
<1>3. CASE DepositConfirm(r)
  <2>0. PICK pc \in {"done", "catchTransaction"} : Goto(r, pc)
    BY <1>3 DEF DepositConfirm
  <2>1. /\ KeepsAmounts(r) /\ handler'[r].pc \in {"done", "catchTransaction"}
        /\ handler[r].pc = "mined"
    BY <1>3, <2>0, GotoKeeps DEF DepositConfirm, At
  <2>2. CASE UnchangedDatabase
    <3>1. FoundingStep(r)
      BY <1>0, <2>1, <2>2, QuietFounding DEF UnchangedDatabase
    <3>. QED
      BY <1>0, <2>1, <2>2, <3>1
      DEF RequestKept, RequestFounding, KeepsAmounts, BeforeHash, UnchangedDatabase
  <2>3. CASE /\ CreditsDeposit(r) /\ txn' = [txn EXCEPT ![r] = MarkConfirmed(@)]
             /\ position' =
                  IF handler[r].isNew
                    THEN Activate(position, handler[r].amount, handler[r].shares)
                    ELSE AddDeposit(position, handler[r].amount, handler[r].shares)
             /\ Apply(r)
    <3>1. /\ txn'[r].status = "CONFIRMED" /\ applied'[r] = 1
          /\ \A q \in Requests \ {r} : txn'[q] = txn[q] /\ applied'[q] = applied[q]
      BY <2>3, StatusWrites
      DEF TypeOK, Apply, CreditsDeposit, Confirmable, RowInv, RowKnowsChain
    <3>2. position'.status = "ACTIVE"
      BY <1>0, <2>3, PositionStatuses DEF Handler
    <3>3. FoundingStep(r)
      BY <1>0, <1>1, <2>1, <3>1, <3>2, MovedFounding DEF IsOpen
    <3>. QED
      BY <1>0, <2>1, <3>1, <3>3
      DEF RequestKept, RequestFounding, KeepsAmounts, BeforeHash, IsOpen
  <2>. QED
    BY <1>3, <2>2, <2>3 DEF DepositConfirm
<1>. QED
  BY <1>2, <1>3

LEMMA WithdrawMoved ==
    ASSUME TypeOK, FoundingKnown, NEW r \in Requests, RowInv(r), RequestFounding(r),
           \/ WithdrawCreate(r) \/ WithdrawReactivate(r) \/ WithdrawCatchPosition(r)
           \/ WithdrawSubtract(r)
    PROVE  FoundingStep(r) /\ RequestKept(r)
<1>0. /\ txn[r] \in Transaction /\ handler[r] \in Handler /\ position \in Position
      /\ r \in Withdrawals /\ r \notin Deposits
      /\ UNCHANGED <<worker, chain>>
      /\ handler[r].pc \in {"admitted", "reactivate", "catchPosition", "subtract"}
  BY DEF TypeOK, WithdrawCreate, WithdrawReactivate, WithdrawCatchPosition,
         WithdrawSubtract, At
<1>1. ~Unborn(r)
  BY <1>0 DEF Unborn
<1>2. /\ KeepsAmounts(r)
      /\ handler'[r].pc \in {"created", "done", "catchTransaction"}
      /\ ~WithdrawCreate(r) => handler'[r].pc # "created"
  <2>1. CASE WithdrawSubtract(r)
    <3>1. KeepsAmounts(r)
      BY <2>1, CopyMoves, MovesKeepAmounts
    <3>2. PICK pc \in {"done", "catchTransaction"} :
            handler'[r] = [handler[r] EXCEPT !.pc = pc, !.existing = NoPosition]
      BY <2>1 DEF WithdrawSubtract, TypeOK
    <3>. QED
      BY <1>0, <3>1, <3>2 DEF Handler
  <2>2. CASE WithdrawCreate(r)
    BY <2>2, GotoKeeps DEF WithdrawCreate
  <2>3. CASE WithdrawReactivate(r) \/ WithdrawCatchPosition(r)
    <3>1. PICK pc \in {"done", "catchTransaction"} : Goto(r, pc)
      BY <2>3 DEF WithdrawReactivate, WithdrawCatchPosition
    <3>. QED
      BY <3>1, GotoKeeps
  <2>. QED
    BY <2>1, <2>2, <2>3
<1>3. position'.status \notin {"NONE", "PENDING"}
  <2>1. CASE WithdrawSubtract(r)
    <3>1. handler[r].existing \in Position /\ handler[r].amount \in Int /\ handler[r].shares \in Int
      BY <1>0 DEF Handler
    <3>. QED
      BY <2>1, <3>1, PositionStatuses DEF WithdrawSubtract
  <2>2. CASE ~WithdrawSubtract(r)
    BY <1>0, <2>2, PositionStatuses
    DEF WithdrawCreate, WithdrawReactivate, WithdrawCatchPosition
  <2>. QED
    BY <2>1, <2>2
<1>4. /\ \A q \in Requests \ {r} : txn'[q] = txn[q] /\ applied'[q] = applied[q]
      /\ txn'[r].status # "NONE"
      /\ handler'[r].pc = "created" => txn'[r].status = "CREATED"
  <2>1. CASE WithdrawCreate(r)
    BY <2>1 DEF WithdrawCreate, TypeOK, CreateTransaction
  <2>2. CASE WithdrawSubtract(r)
    <3>1. handler'[r].pc # "created"
      BY <1>0, <1>2, <2>2 DEF WithdrawCreate, WithdrawSubtract, At
    <3>. QED
      BY <2>2, <3>1, StatusWrites DEF WithdrawSubtract, TypeOK, Apply
  <2>3. CASE WithdrawReactivate(r) \/ WithdrawCatchPosition(r)
    <3>1. handler'[r].pc # "created"
      BY <1>0, <1>2, <2>3 DEF WithdrawCreate, WithdrawReactivate, WithdrawCatchPosition, At
    <3>. QED
      BY <2>3, <3>1
      DEF WithdrawReactivate, WithdrawCatchPosition, At, RowInv, HandlerKnowsRow, BeforeRow
  <2>. QED
    BY <2>1, <2>2, <2>3
<1>5. FoundingStep(r)
  BY <1>0, <1>1, <1>2, <1>3, <1>4, MovedFounding
<1>6. RequestKept(r)
  BY <1>0, <1>2, <1>4 DEF RequestKept, RequestFounding, BeforeHash
<1>. QED
  BY <1>5, <1>6

\* A deposit is inserted: together with the position, next to one that cannot be
\* founded any more, or not at all.
LEMMA CreateFounding ==
    ASSUME TypeOK, FoundingKnown, NEW r \in Requests, RowInv(r), RequestFounding(r),
           DepositCreate(r)
    PROVE  FoundingKnown' /\ OthersStay(r) /\ (Founder(r) => Founder(r)') /\ RequestKept(r)
<1>0. /\ handler[r] \in Handler /\ r \in Deposits /\ handler[r].pc = "admitted"
      /\ txn[r].status = "NONE" /\ UNCHANGED <<worker, chain, applied>>
  BY DEF TypeOK, DepositCreate, At, RowInv, HandlerKnowsRow, BeforeRow, NoTransaction
<1>1. CASE Goto(r, "rejected") /\ UNCHANGED <<txn, position>>
  <2>1. KeepsAmounts(r) /\ handler'[r].pc = "rejected"
    BY <1>1, GotoKeeps
  <2>2. FoundingStep(r)
    BY <1>0, <1>1, <2>1, QuietFounding
  <2>3. RequestKept(r)
    BY <1>0, <1>1, <2>1 DEF RequestKept, RequestFounding, BeforeHash, KeepsAmounts, IsOpen
  <2>. QED
    BY <2>2, <2>3, KnownStep DEF FoundingStep, FounderStays
<1>2. CASE /\ Goto(r, "created") /\ ~PositionTaken(r)
           /\ position' = IF handler[r].isNew THEN CreatePending ELSE position
           /\ txn' = [txn EXCEPT ![r] =
                        CreateTransaction(handler[r].amount, handler[r].shares)]
  <2>1. KeepsAmounts(r) /\ handler'[r].pc = "created"
    BY <1>2, GotoKeeps
  <2>2. /\ txn'[r].status = "CREATED"
        /\ \A q \in Requests \ {r} : txn'[q] = txn[q]
    BY <1>2 DEF TypeOK, CreateTransaction
  <2>3. OthersStay(r) /\ RequestKept(r)
    BY <1>0, <2>1, <2>2
    DEF OthersStay, KeepsAmounts, RequestKept, RequestFounding, BeforeHash, IsOpen
  <2>4. ~Founder(r)
    BY <1>0 DEF Founder
  <2>5. CASE handler[r].isNew
    BY <1>2, <2>3, <2>4, <2>5, <1>0, KnownFounded DEF PositionTaken
  <2>6. CASE ~handler[r].isNew
    <3>1. ~Unborn(r)
      BY <1>0, <2>6 DEF Unborn
    <3>2. /\ position.status \notin {"NONE", "PENDING"}
          /\ \A f \in Deposits : ~(Founder(f) /\ IsOpen(txn[f]))
      BY <1>0, <2>4, <3>1 DEF FoundingKnown, AloneIn
    <3>3. FoundingStep(r)
      <4>1. FounderStays(r)
        BY <1>0, <2>1, <2>4, <2>6 DEF FounderStays, Founder, KeepsAmounts
      <4>2. SamePosition(r)
        BY <1>0, <1>2, <2>6, <3>1 DEF SamePosition, CleaningUp
      <4>. QED
        BY <2>3, <4>1, <4>2 DEF FoundingStep
    <3>. QED
      BY <2>3, <2>4, <3>3, KnownStep
  <2>. QED
    BY <2>5, <2>6
<1>. QED
  BY <1>1, <1>2 DEF DepositCreate

\* All steps of a handler, and the chain.
LEMMA HandlerFounding ==
    ASSUME TypeOK, FoundingKnown, NEW r \in Requests, RowInv(r), RequestFounding(r),
           RequestArrives(r) \/ HandlerStep(r) \/ HandlerFails(r) \/ Mine(r)
    PROVE  FoundingKnown' /\ OthersStay(r) /\ (Founder(r) => Founder(r)') /\ RequestKept(r)
<1>1. CASE DepositCreate(r)
  BY <1>1, CreateFounding
<1>2. CASE ~DepositCreate(r)
  <2>1. FoundingStep(r) /\ RequestKept(r)
    BY <1>2, DepositQuiet, WithdrawQuiet, ApprovalQuiet, FailureQuiet, AdmitFounding,
       DepositMoved, WithdrawMoved
    DEF RequestArrives, HandlerStep, DepositStep, WithdrawStep
  <2>. QED
    BY <2>1, KnownStep DEF FoundingStep, FounderStays
<1>. QED
  BY <1>1, <1>2

-----------------------------------------------------------------------------
(* What each step of a worker does to it *)

LEMMA CleaningOf ==
    ASSUME NEW w \in Workers, \A v \in Workers \ {w} : worker'[v] = worker[v],
           \/ worker'[w].pc \notin {"staleRead", "staleFail"}
           \/ worker[w].pc \in {"staleRead", "staleFail"}
    PROVE  CleaningUp' => CleaningUp
BY DEF CleaningUp

\* The row of r is settled or left alone, and so is the position.
LEMMA SettledFounding ==
    ASSUME TypeOK, NEW r \in Requests, UNCHANGED <<handler, chain, position>>,
           txn[r].status # "NONE", Settled(r, txn'[r]),
           \A q \in Requests \ {r} : txn'[q] = txn[q] /\ applied'[q] = applied[q],
           CleaningUp' => CleaningUp \/ (r \in Deposits /\ ~IsOpen(txn'[r]))
    PROVE  FoundingStep(r)
<1>1. OthersStay(r)
  BY DEF OthersStay
<1>2. FounderStays(r)
  BY StatusWrites DEF FounderStays, Founder, Settled, IsOpen
<1>3. SamePosition(r)
  BY DEF SamePosition, Unborn
<1>. QED
  BY <1>1, <1>2, <1>3 DEF FoundingStep

\* The row of r is settled together with the position.
LEMMA CommittedFounding ==
    ASSUME TypeOK, NEW r \in Deposits \cup Withdrawals, UNCHANGED <<handler, chain>>,
           txn[r].status # "NONE", txn'[r].status \in {"CONFIRMED", "REVERTED"},
           \A q \in Requests \ {r} : txn'[q] = txn[q] /\ applied'[q] = applied[q],
           position'.status \notin {"NONE", "PENDING"}, CleaningUp' => CleaningUp
    PROVE  FoundingStep(r)
<1>0. r \in Requests
  BY DEF Requests
<1>1. OthersStay(r)
  BY DEF OthersStay
<1>2. FounderStays(r)
  BY DEF FounderStays, Founder, IsOpen
<1>3. NewPosition(r)
  BY DEF NewPosition, Unborn, IsOpen
<1>. QED
  BY <1>0, <1>1, <1>2, <1>3 DEF FoundingStep

\* What is asked of every request after a step of a worker that writes the row of
\* r, if any.
LEMMA SettledRequests ==
    ASSUME TypeOK, NEW r \in Requests, UNCHANGED <<handler>>,
           \A q \in Requests : RowInv(q) /\ RequestFounding(q),
           \A q \in Requests \ {r} : txn'[q] = txn[q] /\ applied'[q] = applied[q],
           txn[r].status # "NONE", Settled(r, txn'[r]),
           txn'[r] = txn[r] \/ handler[r].pc \notin BeforeHash,
           \/ /\ applied' = applied
              /\ txn'[r].status = "CONFIRMED" => txn[r].status = "CONFIRMED" \/ ~Founder(r)
           \/ txn[r].status = "SUBMITTED" /\ Apply(r)
    PROVE  \A q \in Requests : RequestFounding(q)'
<1>1. ASSUME NEW q \in Requests, q # r PROVE RequestFounding(q)'
  BY <1>1 DEF RequestFounding, IsOpen
<1>2. /\ RequestFounding(r) /\ txn'[r].status # "NONE"
      /\ IsOpen(txn'[r]) => IsOpen(txn[r])
  BY StatusWrites DEF Settled, IsOpen
<1>3. CASE /\ applied' = applied
           /\ txn'[r].status = "CONFIRMED" => txn[r].status = "CONFIRMED" \/ ~Founder(r)
  BY <1>2, <1>3 DEF RequestFounding, Founder
<1>4. CASE txn[r].status = "SUBMITTED" /\ Apply(r)
  <2>1. applied'[r] = 1
    BY <1>4 DEF Apply, TypeOK, RowInv, RowKnowsChain
  <2>. QED
    BY <1>2, <2>1 DEF RequestFounding
<1>5. RequestFounding(r)'
  BY <1>3, <1>4
<1>. QED
  BY <1>1, <1>5

\* What a worker owes to the requests after its step.
WorkerKept(w) ==
    /\ FoundingKnown' /\ \A q \in Requests : RequestFounding(q)'
    /\ WorkerFounding(w)' /\ \A v \in Workers \ {w} : worker'[v] = worker[v]
    /\ UNCHANGED handler
    /\ \A q \in Requests : txn[q].status # "NONE" => txn'[q].status # "NONE"

LEMMA LookFounding ==
    ASSUME TypeOK, FoundingKnown, NEW w \in Workers, WorkerFounding(w), ~SlowHandlers,
           \A q \in Requests : RowInv(q) /\ RequestFounding(q),
           \/ ReconcileStart(w) \/ StaleReadPosition(w) \/ StaleFailPosition(w)
           \/ ListPending(w) \/ ReconcileEnd(w) \/ WorkerFails(w) \/ SubtractRead(w)
           \/ \E r \in Requests : ReceiptMissing(w, r)
    PROVE  WorkerKept(w)
<1>0. worker[w] \in Worker /\ position \in Position
  BY DEF TypeOK
<1>1. UNCHANGED <<txn, chain, handler, applied>>
  BY DEF ReconcileStart, StaleReadPosition, StaleFailPosition, ListPending, ReconcileEnd,
         WorkerFails, ItemThrows, RunAborts, SubtractRead, ReceiptMissing,
         UnchangedByWorker, UnchangedDatabase
<1>2. \A q \in Requests : RequestFounding(q)'
  BY <1>1 DEF RequestFounding
<1>3. ASSUME NEW new, SetWorker(w, new),
             \A r \in new.stale : handler[r].pc \in {"done", "crashed"},
             new.pc \in HoldingPCs => new.item \notin Approvals,
             new.pc = "activate" => Founder(new.item),
             new.pc \in {"withdrawing", "subtract"} => new.item \in Withdrawals
      PROVE  /\ WorkerFounding(w)' /\ worker'[w] = new
             /\ \A v \in Workers \ {w} : worker'[v] = worker[v]
  <2>1. worker'[w] = new /\ \A v \in Workers \ {w} : worker'[v] = worker[v]
    BY <1>3, SetWorkerAt
  <2>. QED
    BY <1>1, <1>3, <2>1 DEF WorkerFounding, Founder
<1>4. CASE StaleReadPosition(w) \/ StaleFailPosition(w)
  <2>1. PICK pc \in {"stale", "staleFail"} :
           /\ SetWorker(w, [worker[w] EXCEPT !.pc = pc])
           /\ worker[w].pc \in {"staleRead", "staleFail"}
           /\ \/ UNCHANGED position
              \/ position' = MarkPositionFailed(position)
    BY <1>4 DEF StaleReadPosition, StaleFailPosition, WorkerAt, UnchangedDatabase
  <2>. DEFINE new == [worker[w] EXCEPT !.pc = pc]
  <2>2. new.pc = pc /\ new.stale = worker[w].stale
    BY <1>0 DEF Worker
  <2>. HIDE DEF new
  <2>3. /\ WorkerFounding(w)' /\ worker'[w] = new
        /\ \A v \in Workers \ {w} : worker'[v] = worker[v]
    BY <1>3, <2>1, <2>2 DEF WorkerFounding, HoldingPCs, new
  <2>4. CleaningUp /\ (CleaningUp' => CleaningUp)
    BY <2>1 DEF CleaningUp
  <2>5. FoundingKnown'
    BY <1>0, <1>1, <2>1, <2>4, KnownCleanup, PositionStatuses
  <2>. QED
    BY <1>1, <1>2, <2>3, <2>5 DEF WorkerKept
<1>5. ASSUME NEW new, SetWorker(w, new),
             \A r \in new.stale : handler[r].pc \in {"done", "crashed"},
             new.pc \in HoldingPCs => new.item \notin Approvals,
             new.pc = "activate" => Founder(new.item),
             new.pc \in {"withdrawing", "subtract"} => new.item \in Withdrawals,
             new.pc \notin {"staleRead", "staleFail"}, UNCHANGED position
      PROVE  WorkerKept(w)
  <2>1. /\ WorkerFounding(w)' /\ worker'[w] = new
        /\ \A v \in Workers \ {w} : worker'[v] = worker[v]
    BY <1>3, <1>5
  <2>2. CleaningUp' => CleaningUp
    BY <1>5, <2>1, CleaningOf
  <2>3. FoundingKnown'
    BY <1>1, <1>5, <2>2, KnownCleanup
  <2>. QED
    BY <1>1, <1>2, <2>1, <2>3 DEF WorkerKept
<1>6. CASE ReconcileStart(w)
  <2>. DEFINE new == [IdleWorker EXCEPT !.pc = "stale", !.stale = StaleRows]
  <2>1. new.pc = "stale" /\ new.stale = StaleRows
    BY DEF IdleWorker
  <2>2. \A r \in StaleRows : handler[r].pc \in {"done", "crashed"}
    BY DEF StaleRows, OldEnough, IsUnsentCreated, Live, RowInv, HandlerKnowsRow,
           NoTransaction, BeforeRow
  <2>3. SetWorker(w, new) /\ UNCHANGED position
    BY <1>6 DEF ReconcileStart, UnchangedDatabase
  <2>. HIDE DEF new
  <2>. QED
    BY <1>5, <2>1, <2>2, <2>3 DEF HoldingPCs
<1>7. CASE ListPending(w)
  <2>. DEFINE new == [worker[w] EXCEPT
                        !.pc = "pending",
                        !.pending = {q \in Requests : IsPendingReconciliation(txn[q])}]
  <2>1. new.pc = "pending" /\ new.stale = worker[w].stale
    BY <1>0 DEF Worker
  <2>2. SetWorker(w, new) /\ UNCHANGED position
    BY <1>7 DEF ListPending, UnchangedDatabase
  <2>. HIDE DEF new
  <2>. QED
    BY <1>5, <2>1, <2>2 DEF HoldingPCs, WorkerFounding
<1>8. CASE ReconcileEnd(w) \/ RunAborts(w)
  <2>1. SetWorker(w, IdleWorker) /\ UNCHANGED position
    BY <1>8 DEF ReconcileEnd, RunAborts, UnchangedDatabase
  <2>2. IdleWorker.pc = "idle" /\ IdleWorker.stale = {}
    BY DEF IdleWorker
  <2>. QED
    BY <1>5, <2>1, <2>2 DEF HoldingPCs
<1>9. CASE SubtractRead(w)
  <2>. DEFINE new == [worker[w] EXCEPT !.pc = "subtract", !.existing = position]
  <2>1. new.pc = "subtract" /\ new.stale = worker[w].stale /\ new.item = worker[w].item
    BY <1>0 DEF Worker
  <2>2. SetWorker(w, new) /\ UNCHANGED position /\ worker[w].pc = "withdrawing"
    BY <1>9 DEF SubtractRead, UnchangedDatabase, WorkerAt
  <2>. HIDE DEF new
  <2>. QED
    BY <1>5, <2>1, <2>2 DEF HoldingPCs, WorkerFounding
<1>10. ASSUME NEW r \in Requests, WorkerAt(w, "pending"), SetWorker(w, DropItem(w, r)),
              UNCHANGED position
       PROVE  WorkerKept(w)
  <2>1. DropItem(w, r).pc = "pending" /\ DropItem(w, r).stale = worker[w].stale
    BY <1>0, <1>10 DEF DropItem, Worker, WorkerAt
  <2>. QED
    BY <1>5, <1>10, <2>1 DEF HoldingPCs, WorkerFounding
<1>11. CASE \E r \in Requests : ReceiptMissing(w, r)
  BY <1>10, <1>11 DEF ReceiptMissing, UnchangedDatabase
<1>12. CASE ItemThrows(w)
  <2>1. CASE SetWorker(w, NextItem(w))
    <3>1. NextItem(w).pc = "pending" /\ NextItem(w).stale = worker[w].stale
      BY <1>0 DEF NextItem, Worker
    <3>. QED
      BY <1>5, <1>12, <2>1, <3>1 DEF HoldingPCs, WorkerFounding, ItemThrows, UnchangedDatabase
  <2>2. CASE WorkerAt(w, "pending") /\ \E r \in worker[w].pending : SetWorker(w, DropItem(w, r))
    BY <1>0, <1>10, <1>12, <2>2 DEF ItemThrows, UnchangedDatabase, Worker
  <2>. QED
    BY <1>12, <2>1, <2>2 DEF ItemThrows
<1>. QED
  BY <1>4, <1>6, <1>7, <1>8, <1>9, <1>11, <1>12 DEF WorkerFails

LEMMA StaleFounding ==
    ASSUME TypeOK, FoundingKnown, NEW w \in Workers, WorkerInv(w), WorkerFounding(w),
           \A q \in Requests : RowInv(q) /\ RequestFounding(q),
           NEW r \in Requests, StaleMarkFailed(w, r)
    PROVE  WorkerKept(w)
<1>0. worker[w] \in Worker
  BY DEF TypeOK
<1>1. /\ UNCHANGED <<handler, chain, position, applied>>
      /\ txn'[r] = MarkFailed(txn[r]) /\ \A q \in Requests \ {r} : txn'[q] = txn[q]
      /\ txn'[r].status = "FAILED" /\ txn[r].status # "NONE"
      /\ handler[r].pc \in {"done", "crashed"}
  BY StatusWrites
  DEF StaleMarkFailed, UnchangedByWorker, TypeOK, WorkerInv, ListsAreRows, WorkerFounding
<1>2. PICK pc \in {"stale", "staleRead"} :
         /\ SetWorker(w, [worker[w] EXCEPT !.stale = @ \ {r}, !.pc = pc])
         /\ pc = "staleRead" => r \in Deposits
  BY DEF StaleMarkFailed
<1>. DEFINE new == [worker[w] EXCEPT !.stale = @ \ {r}, !.pc = pc]
<1>3. new.pc = pc /\ new.stale \subseteq worker[w].stale
  BY <1>0 DEF Worker
<1>. HIDE DEF new
<1>4. worker'[w] = new /\ \A v \in Workers \ {w} : worker'[v] = worker[v]
  BY <1>2, SetWorkerAt DEF new
<1>5. CleaningUp' => CleaningUp \/ (r \in Deposits /\ ~IsOpen(txn'[r]))
  BY <1>1, <1>2, <1>3, <1>4 DEF CleaningUp, IsOpen
<1>6. FoundingKnown'
  BY <1>1, <1>5, SettledFounding, KnownStep DEF Settled
<1>7. \A q \in Requests : RequestFounding(q)'
  BY <1>1, SettledRequests DEF Settled, BeforeHash
<1>8. WorkerFounding(w)'
  BY <1>1, <1>3, <1>4 DEF WorkerFounding, HoldingPCs
<1>. QED
  BY <1>1, <1>4, <1>6, <1>7, <1>8 DEF WorkerKept

LEMMA PendingFounding ==
    ASSUME TypeOK, FoundingKnown, NEW w \in Workers, WorkerInv(w), WorkerFounding(w),
           \A q \in Requests : RowInv(q) /\ RequestFounding(q), NEW r \in Requests,
           \/ ConfirmApproval(w, r) \/ ConfirmDeposit(w, r) \/ ConfirmWithdraw(w, r)
           \/ HandleReverted(w, r)
    PROVE  WorkerKept(w)
<1>0. worker[w] \in Worker
  BY DEF TypeOK
<1>1. /\ UNCHANGED <<handler, chain, position, applied>>
      /\ WorkerAt(w, "pending") /\ r \in worker[w].pending
  BY DEF ConfirmApproval, ConfirmDeposit, ConfirmWithdraw, HandleReverted, Reconcilable,
         UnchangedByWorker, UnchangedDatabase
<1>2. /\ txn[r].hash /\ txn[r].status # "NONE"
      /\ handler[r].pc \notin BeforeHash
  BY <1>1 DEF WorkerInv, ListsAreRows, RowInv, RowKnowsChain, HandlerKnowsRow
<1>3. ASSUME NEW new, SetWorker(w, new), new.stale = worker[w].stale,
             new.pc \in {"pending", "activate", "withdrawing", "revertPosition"},
             new.pc \in HoldingPCs => r \notin Approvals /\ new.item = r,
             new.pc = "activate" => Founder(r),
             new.pc = "withdrawing" => r \in Withdrawals,
             Settled(r, txn'[r]), \A q \in Requests \ {r} : txn'[q] = txn[q],
             txn'[r].status = "CONFIRMED" => txn[r].status = "CONFIRMED" \/ ~Founder(r)
      PROVE  WorkerKept(w)
  <2>1. worker'[w] = new /\ \A v \in Workers \ {w} : worker'[v] = worker[v]
    BY <1>3, SetWorkerAt
  <2>2. CleaningUp' => CleaningUp
    BY <1>3, <2>1, CleaningOf
  <2>3. FoundingKnown'
    BY <1>1, <1>2, <1>3, <2>2, SettledFounding, KnownStep
  <2>4. \A q \in Requests : RequestFounding(q)'
    BY <1>1, <1>2, <1>3, SettledRequests
  <2>5. txn'[r].status # "NONE"
    BY <1>2, <1>3, StatusWrites DEF Settled
  <2>6. WorkerFounding(w)'
    BY <1>1, <1>3, <2>1, <2>5 DEF WorkerFounding, Founder, HoldingPCs
  <2>. QED
    BY <1>1, <1>3, <2>1, <2>3, <2>4, <2>5, <2>6 DEF WorkerKept
<1>4. ASSUME SetWorker(w, DropItem(w, r)),
             Settled(r, txn'[r]), \A q \in Requests \ {r} : txn'[q] = txn[q],
             txn'[r].status = "CONFIRMED" => txn[r].status = "CONFIRMED" \/ ~Founder(r)
      PROVE  WorkerKept(w)
  <2>1. DropItem(w, r).pc = "pending" /\ DropItem(w, r).stale = worker[w].stale
    BY <1>0, <1>1 DEF DropItem, Worker, WorkerAt
  <2>. QED
    BY <1>3, <1>4, <2>1 DEF HoldingPCs
<1>5. ASSUME NEW pc \in {"activate", "withdrawing", "revertPosition"},
             SetWorker(w, Hold(w, r, pc)), UNCHANGED txn, r \notin Approvals,
             pc = "activate" => Founder(r), pc = "withdrawing" => r \in Withdrawals
      PROVE  WorkerKept(w)
  <2>1. /\ Hold(w, r, pc).pc = pc /\ Hold(w, r, pc).stale = worker[w].stale
        /\ Hold(w, r, pc).item = r
    BY <1>0 DEF Hold, Worker
  <2>. QED
    BY <1>3, <1>5, <2>1 DEF HoldingPCs, Settled
<1>6. CASE ConfirmApproval(w, r)
  <2>1. ~Founder(r)
    BY <1>6 DEF ConfirmApproval, Founder
  <2>2. Settled(r, txn'[r]) /\ \A q \in Requests \ {r} : txn'[q] = txn[q]
    BY <1>6 DEF ConfirmApproval, Settled, TypeOK
  <2>. QED
    BY <1>4, <1>6, <2>1, <2>2 DEF ConfirmApproval
<1>7. CASE ConfirmDeposit(w, r)
  <2>1. CASE SetWorker(w, DropItem(w, r)) /\ UNCHANGED txn
    BY <1>4, <2>1 DEF Settled
  <2>2. CASE /\ Confirmable(txn[r]) /\ position.status # "PENDING"
             /\ txn' = [txn EXCEPT ![r] = MarkConfirmed(@)]
             /\ SetWorker(w, DropItem(w, r))
    <3>1. ~Founder(r)
      BY <1>7, <2>2 DEF ConfirmDeposit, Reconcilable, FoundingKnown, Confirmable, IsOpen
    <3>. QED
      BY <1>4, <2>2, <3>1 DEF Settled, TypeOK
  <2>3. CASE /\ position.status = "PENDING" /\ SetWorker(w, Hold(w, r, "activate"))
             /\ UNCHANGED txn
    <3>1. PICK f \in Deposits : Founder(f) /\ AloneIn(f)
      BY <2>3 DEF FoundingKnown
    <3>2. r = f
      BY <1>2, <1>7, <3>1 DEF AloneIn, Unborn, ConfirmDeposit
    <3>. QED
      BY <1>5, <1>7, <2>3, <3>1, <3>2 DEF ConfirmDeposit
  <2>. QED
    BY <1>7, <2>1, <2>2, <2>3 DEF ConfirmDeposit, UnchangedDatabase
<1>8. CASE ConfirmWithdraw(w, r)
  <2>1. ~Founder(r) /\ r \in Withdrawals /\ r \notin Approvals
    BY <1>8 DEF ConfirmWithdraw, Founder
  <2>2. CASE SetWorker(w, DropItem(w, r)) /\ UNCHANGED txn
    BY <1>4, <2>2 DEF Settled
  <2>3. CASE /\ txn' = [txn EXCEPT ![r] = MarkConfirmed(@)]
             /\ SetWorker(w, DropItem(w, r))
    BY <1>4, <2>1, <2>3 DEF Settled, TypeOK
  <2>4. CASE SetWorker(w, Hold(w, r, "withdrawing")) /\ UNCHANGED txn
    BY <1>5, <2>1, <2>4
  <2>. QED
    BY <1>8, <2>2, <2>3, <2>4 DEF ConfirmWithdraw, UnchangedDatabase
<1>9. CASE HandleReverted(w, r)
  <2>1. CASE /\ txn' = [txn EXCEPT ![r] = MarkReverted(@)]
             /\ SetWorker(w, DropItem(w, r))
    <3>1. txn'[r].status = "REVERTED"
      BY <2>1, StatusWrites DEF TypeOK
    <3>. QED
      BY <1>4, <2>1, <3>1 DEF Settled, TypeOK
  <2>2. CASE /\ RevertTouchesPosition(r) /\ SetWorker(w, Hold(w, r, "revertPosition"))
             /\ UNCHANGED txn
    <3>1. r \notin Approvals
      BY <2>2 DEF RevertTouchesPosition
    <3>. QED
      BY <1>5, <2>2, <3>1
  <2>. QED
    BY <1>9, <2>1, <2>2 DEF HandleReverted
<1>. QED
  BY <1>6, <1>7, <1>8, <1>9

LEMMA CommitFounding ==
    ASSUME TypeOK, FoundingKnown, NEW w \in Workers, WorkerInv(w), WorkerFounding(w),
           WorkerAmounts(w),
           \A q \in Requests : RowInv(q) /\ RequestFounding(q),
           ActivateAndCommit(w) \/ SubtractAndCommit(w) \/ RevertPositionAndCommit(w)
    PROVE  WorkerKept(w)
<1>0. /\ worker[w] \in Worker /\ worker[w].pc \in HoldingPCs
      /\ worker[w].item \in Requests /\ worker[w].item \notin Approvals
  BY DEF TypeOK, Worker, HoldingPCs, ActivateAndCommit, SubtractAndCommit,
         RevertPositionAndCommit, WorkerAt, WorkerFounding
<1>. PICK r \in Deposits \cup Withdrawals : r = worker[w].item
  BY <1>0 DEF Requests
<1>1. r \in Requests /\ UNCHANGED <<handler, chain>>
  BY DEF ActivateAndCommit, SubtractAndCommit, RevertPositionAndCommit, UnchangedByWorker,
         Requests
<1>2. /\ txn[r].hash /\ txn[r].status # "NONE"
      /\ handler[r].pc \notin BeforeHash
  BY <1>1 DEF ActivateAndCommit, SubtractAndCommit, RevertPositionAndCommit, WorkerAt,
              WorkerInv, HolderKnowsRow, RowInv, RowKnowsChain, HandlerKnowsRow
<1>3. /\ worker'[w] = NextItem(w)
      /\ \A v \in Workers \ {w} : worker'[v] = worker[v]
  BY SetWorkerAt DEF ActivateAndCommit, SubtractAndCommit, RevertPositionAndCommit
<1>4. worker'[w].pc = "pending" /\ worker'[w].stale = worker[w].stale
  BY <1>0, <1>3 DEF NextItem, Worker
<1>5. CleaningUp' => CleaningUp
  BY <1>3, <1>4, CleaningOf
<1>6. /\ txn'[r].status \in {"CONFIRMED", "REVERTED"} /\ Settled(r, txn'[r])
      /\ \A q \in Requests \ {r} : txn'[q] = txn[q] /\ applied'[q] = applied[q]
      /\ \/ applied' = applied /\ txn'[r].status = "REVERTED"
         \/ txn[r].status = "SUBMITTED" /\ Apply(r)
  BY <1>1, StatusWrites
  DEF ActivateAndCommit, SubtractAndCommit, RevertPositionAndCommit, Settled, TypeOK,
      Apply, WorkerAt, WorkerInv, HolderKnowsRow
<1>7. position'.status \notin {"NONE", "PENDING"}
  <2>1. /\ position \in Position /\ worker[w].existing \in Position
        /\ txn[r].amount \in Int /\ txn[r].shares \in Int
    BY <1>0, <1>1 DEF TypeOK, Worker, Transaction
  <2>. QED
    BY <2>1, PositionStatuses DEF ActivateAndCommit, SubtractAndCommit,
                                  RevertPositionAndCommit
<1>8. FoundingKnown'
  BY <1>1, <1>2, <1>5, <1>6, <1>7, CommittedFounding, KnownStep
<1>9. \A q \in Requests : RequestFounding(q)'
  BY <1>1, <1>2, <1>6, SettledRequests
<1>10. WorkerFounding(w)'
  BY <1>1, <1>4 DEF WorkerFounding, HoldingPCs
<1>. QED
  BY <1>1, <1>3, <1>6, <1>8, <1>9, <1>10 DEF WorkerKept

-----------------------------------------------------------------------------
(* The invariant and what follows from it *)

LEMMA InitFounding == Init => FoundingInv
BY DEF Init, FoundingInv, FoundingKnown, RequestFounding, WorkerFounding, Unborn, Founder,
       CleaningUp, IsOpen, NoPosition, NoTransaction, IdleHandler, IdleWorker, BeforeHash,
       HoldingPCs, Requests

LEMMA NextFounding ==
    ASSUME ~SlowHandlers, EarnInv, AmountsInv, FoundingInv, [Next]_vars
    PROVE  FoundingInv'
<1>0. /\ TypeOK /\ FoundingKnown
      /\ \A q \in Requests : RowInv(q) /\ RequestFounding(q)
      /\ \A w \in Workers : WorkerInv(w) /\ WorkerFounding(w) /\ WorkerAmounts(w)
  BY DEF EarnInv, AmountsInv, FoundingInv
<1>1. ASSUME NEW r \in Requests,
             RequestArrives(r) \/ HandlerStep(r) \/ HandlerFails(r) \/ Mine(r)
      PROVE  FoundingInv'
  <2>1. FoundingKnown' /\ OthersStay(r) /\ (Founder(r) => Founder(r)') /\ RequestKept(r)
    BY <1>0, <1>1, HandlerFounding
  <2>2. UNCHANGED worker
    BY <1>0, <1>1, HandlerAmounts DEF AmountsInv
  <2>3. ASSUME NEW q \in Requests PROVE RequestFounding(q)'
    BY <1>0, <2>1 DEF RequestKept, OthersStay, RequestFounding
  <2>4. ASSUME NEW w \in Workers PROVE WorkerFounding(w)'
    <3>1. worker[w] \in Worker /\ WorkerFounding(w)
      BY <1>0 DEF TypeOK
    <3>2. \A q \in worker[w].stale : handler'[q].pc \in {"done", "crashed"}
      BY <2>1, <3>1 DEF RequestKept, OthersStay, WorkerFounding, Worker
    <3>3. worker[w].pc = "activate" => Founder(worker[w].item)'
      BY <2>1, <2>2, <3>1, OthersUnborn DEF WorkerFounding, Worker, HoldingPCs
    <3>. QED
      BY <2>2, <3>1, <3>2, <3>3 DEF WorkerFounding
  <2>. QED
    BY <2>1, <2>3, <2>4 DEF FoundingInv
<1>2. ASSUME NEW w \in Workers, ReconcileStep(w) \/ WorkerFails(w)
      PROVE  FoundingInv'
  <2>1. WorkerKept(w)
    BY <1>0, <1>2, LookFounding, StaleFounding, PendingFounding, CommitFounding
    DEF ReconcileStep
  <2>2. ASSUME NEW v \in Workers \ {w} PROVE WorkerFounding(v)'
    BY <1>0, <2>1, <2>2 DEF WorkerKept, WorkerFounding, Founder, TypeOK, Worker, HoldingPCs
  <2>. QED
    BY <2>1, <2>2 DEF WorkerKept, FoundingInv
<1>3. CASE UNCHANGED vars
  <2>1. FoundingKnown'
    BY <1>0, <1>3, KnownCleanup DEF vars, CleaningUp
  <2>2. \A q \in Requests : RequestFounding(q)'
    BY <1>0, <1>3 DEF vars, RequestFounding
  <2>3. \A w \in Workers : WorkerFounding(w)'
    BY <1>0, <1>3 DEF vars, WorkerFounding, Founder
  <2>. QED
    BY <2>1, <2>2, <2>3 DEF FoundingInv
<1>. QED
  BY <1>1, <1>2, <1>3 DEF Next

\* How a position is founded: until its first deposit is settled nobody else can
\* own a row of it, and no clean-up can take it away, provided no live handler
\* outlasts the ten minutes after which its row counts as stale.
THEOREM FoundingInvariance == ~SlowHandlers => (Spec => []FoundingInv)
<1>. SUFFICES ASSUME ~SlowHandlers PROVE Spec => []FoundingInv
  OBVIOUS
<1>1. EarnInv /\ AmountsInv /\ FoundingInv /\ [Next]_vars => FoundingInv'
  BY NextFounding
<1>. QED
  BY <1>1, InitFounding, Invariance, AmountsInvariance, PTL DEF Spec

\* The deposit that created the position is never shown as CONFIRMED without its
\* amount being credited, whoever confirms it and whatever fails.
THEOREM FirstDeposit == ~SlowHandlers => (Spec => []FirstDepositCredited)
<1>. SUFFICES ASSUME ~SlowHandlers PROVE Spec => []FirstDepositCredited
  OBVIOUS
<1>1. FoundingInv => FirstDepositCredited
  BY DEF FoundingInv, RequestFounding, FirstDepositCredited, Requests
<1>. QED
  BY <1>1, FoundingInvariance, PTL

(***************************************************************************)
(* Part V     The books                                                    *)
(***************************************************************************)

-----------------------------------------------------------------------------
(* What each step does to receipts, bookings and balance *)

Sends(r) ==
    /\ UNCHANGED applied /\ position'.shares = position.shares
    /\ chain[r] = "none" /\ chain' = [chain EXCEPT ![r] = "pending"]

Settles(r) ==
    /\ UNCHANGED applied /\ position'.shares = position.shares
    /\ chain[r] = "pending"
    /\ \E outcome \in {"success", "reverted"} : chain' = [chain EXCEPT ![r] = outcome]

Books(r) ==
    /\ UNCHANGED chain
    /\ chain[r] = "success" /\ applied[r] = 0 /\ Apply(r)
    /\ \/ r \in Deposits /\ position'.shares = position.shares + Amount[r]
       \/ r \in Withdrawals

LedgerMove ==
    \/ UNCHANGED <<chain, applied>> /\ position'.shares = position.shares
    \/ \E r \in Requests : Sends(r) \/ Settles(r) \/ Books(r)

\* A deposit is credited by its exact amount: what activate overwrites is the
\* zero of a position nobody else has touched.
LEMMA ExactCredit ==
    ASSUME TypeOK, FoundingKnown, NEW r \in Deposits, RequestFounding(r),
           txn[r].status = "SUBMITTED", chain[r] = "success"
    PROVE  /\ handler[r].shares = Amount[r]
           /\ Founder(r) => position.shares = 0
<1>1. r \in Requests
  BY DEF Requests
<1>2. handler[r].shares = Amount[r]
  BY DEF RequestFounding
<1>3. ASSUME Founder(r) PROVE position.shares = 0
  <2>1. position.status = "PENDING"
    BY <1>3 DEF FoundingKnown, IsOpen
  <2>. QED
    BY <2>1 DEF FoundingKnown
<1>. QED
  BY <1>2, <1>3

LEMMA HandlerLedger ==
    ASSUME TypeOK, PositionAmounts, FoundingKnown, NEW r \in Requests, RowInv(r),
           RequestFounding(r),
           RequestArrives(r) \/ HandlerStep(r) \/ HandlerFails(r) \/ Mine(r)
    PROVE  LedgerMove
<1>0. /\ position \in Position /\ handler[r] \in Handler /\ txn[r] \in Transaction
      /\ position.status = "NONE" => position.shares = 0
  BY DEF TypeOK, PositionAmounts, NoPosition
<1>1. CASE Broadcast(r) \/ BroadcastAnswerLost(r)
  <2>1. chain[r] = "none"
    BY <1>1 DEF Broadcast, BroadcastAnswerLost, At, RowInv, HandlerKnowsRow, BeforeHash
  <2>. QED
    BY <1>1, <2>1 DEF Broadcast, BroadcastAnswerLost, UnchangedDatabase, LedgerMove, Sends
<1>2. CASE Mine(r)
  BY <1>2 DEF Mine, UnchangedDatabase, LedgerMove, Settles
<1>3. CASE DepositCreate(r)
  BY <1>0, <1>3, PositionOpsKeepShares DEF DepositCreate, PositionTaken, LedgerMove
<1>4. CASE \/ DepositRevertPosition(r) \/ DepositCatchPosition(r) \/ WithdrawCreate(r)
           \/ WithdrawReactivate(r) \/ WithdrawCatchPosition(r)
  BY <1>0, <1>4, PositionOpsKeepShares
  DEF DepositRevertPosition, DepositCatchPosition, WithdrawCreate, WithdrawReactivate,
      WithdrawCatchPosition, LedgerMove
<1>5. CASE DepositConfirm(r)
  <2>1. CASE UnchangedDatabase
    BY <1>5, <2>1 DEF DepositConfirm, UnchangedDatabase, LedgerMove
  <2>2. CASE /\ CreditsDeposit(r) /\ Apply(r)
             /\ position' =
                  IF handler[r].isNew
                    THEN Activate(position, handler[r].amount, handler[r].shares)
                    ELSE AddDeposit(position, handler[r].amount, handler[r].shares)
    <3>1. /\ r \in Deposits /\ txn[r].status = "SUBMITTED" /\ chain[r] = "success"
          /\ applied[r] = 0 /\ UNCHANGED chain
      BY <1>5, <2>2 DEF DepositConfirm, CreditsDeposit, Confirmable, At, RowInv,
                        RowKnowsChain, HandlerKnowsRow, AfterSuccess
    <3>2. /\ handler[r].shares = Amount[r]
          /\ handler[r].isNew => position.shares = 0
      BY <3>1, ExactCredit DEF Founder
    <3>3. position'.shares = position.shares + Amount[r]
      <4>1. position.shares \in Int /\ Amount[r] \in Int
        BY <1>0, <3>2 DEF Position, Handler
      <4>. QED
        BY <2>2, <3>2, <4>1 DEF Activate, AddDeposit
    <3>. QED
      BY <2>2, <3>1, <3>3 DEF LedgerMove, Books
  <2>. QED
    BY <1>5, <2>1, <2>2 DEF DepositConfirm
<1>6. CASE WithdrawSubtract(r)
  <2>1. chain[r] = "success" /\ applied[r] = 0
    BY <1>6 DEF WithdrawSubtract, At, RowInv, RowKnowsChain, HandlerKnowsRow, AfterSuccess
  <2>. QED
    BY <1>6, <2>1 DEF WithdrawSubtract, LedgerMove, Books
<1>7. CASE UNCHANGED <<chain, applied, position>>
  BY <1>7 DEF LedgerMove
<1>. QED
  BY <1>1, <1>2, <1>3, <1>4, <1>5, <1>6, <1>7
  DEF RequestArrives, HandlerStep, HandlerFails, DepositStep, WithdrawStep,
      ApprovalStep, UnchangedDatabase, HandlerThrows,
      HandlerCrashes, RecordHash, AwaitReceipt, CatchTransaction,
      DepositPrecheck, DepositAdmit, DepositBroadcast, DepositMarkSubmitted,
      DepositAwaitReceipt, DepositMarkReverted, DepositRespondReverted,
      DepositCatchTransaction,
      WithdrawRead, WithdrawReadBalance, WithdrawPrecheck, WithdrawAdmit,
      WithdrawBroadcast, WithdrawMarkSubmitted, WithdrawAwaitReceipt,
      WithdrawMarkReverted, WithdrawConfirm, WithdrawCatchTransaction,
      ApprovalCreate, ApprovalSkip, ApprovalBroadcast, ApprovalMarkSubmitted,
      ApprovalAwaitReceipt, ApprovalConfirm, ApprovalMarkReverted, ApprovalRespond,
      ApprovalCatchTransaction

LEMMA WorkerLedger ==
    ASSUME TypeOK, FoundingKnown, NEW w \in Workers, WorkerInv(w), WorkerFounding(w),
           \A r \in Requests : RowInv(r) /\ RequestFounding(r) /\ RequestAmounts(r),
           ReconcileStep(w) \/ WorkerFails(w)
    PROVE  LedgerMove
<1>0. position \in Position
  BY DEF TypeOK
<1>1. CASE StaleFailPosition(w) \/ RevertPositionAndCommit(w)
  BY <1>0, <1>1, PositionOpsKeepShares
  DEF StaleFailPosition, RevertPositionAndCommit, UnchangedByWorker, LedgerMove
<1>2. CASE ActivateAndCommit(w) \/ SubtractAndCommit(w)
  <2>1. worker[w] \in Worker /\ worker[w].item \in Requests
    BY <1>2 DEF TypeOK, Worker, HoldingPCs, ActivateAndCommit, SubtractAndCommit, WorkerAt
  <2>. PICK r \in Requests : r = worker[w].item
    BY <2>1
  <2>2. /\ txn[r].status = "SUBMITTED" /\ chain[r] = "success" /\ applied[r] = 0
        /\ UNCHANGED chain /\ Apply(r)
    BY <1>2 DEF ActivateAndCommit, SubtractAndCommit, WorkerAt, WorkerInv, HolderKnowsRow,
                RowInv, RowKnowsChain, UnchangedByWorker
  <2>3. CASE SubtractAndCommit(w)
    <3>1. r \in Withdrawals
      BY <2>3 DEF SubtractAndCommit, WorkerAt, WorkerFounding
    <3>. QED
      BY <2>2, <3>1 DEF LedgerMove, Books
  <2>4. CASE ActivateAndCommit(w)
    <3>1. Founder(r) /\ r \in Deposits
      BY <2>4 DEF ActivateAndCommit, WorkerAt, WorkerFounding, Founder
    <3>2. handler[r].shares = Amount[r] /\ position.shares = 0
      BY <2>2, <3>1, ExactCredit
    <3>3. txn[r].shares = handler[r].shares
      BY <2>2, <3>1 DEF RequestAmounts, IsOpen
    <3>4. position'.shares = Amount[r] /\ Amount[r] \in Int
      BY <2>4, <3>2, <3>3 DEF ActivateAndCommit, Activate, TypeOK, Handler
    <3>. QED
      BY <2>2, <3>1, <3>2, <3>4 DEF LedgerMove, Books
  <2>. QED
    BY <1>2, <2>3, <2>4
<1>3. CASE UNCHANGED <<chain, applied, position>>
  BY <1>3 DEF LedgerMove
<1>. QED
  BY <1>1, <1>2, <1>3
  DEF ReconcileStep, WorkerFails, ItemThrows, RunAborts, UnchangedDatabase,
      UnchangedByWorker,
      ReconcileStart, StaleMarkFailed, StaleReadPosition, ListPending, ReceiptMissing,
      ConfirmApproval, ConfirmDeposit, ConfirmWithdraw, SubtractRead, HandleReverted,
      ReconcileEnd

LEMMA NextLedgerMove ==
    ASSUME EarnInv, AmountsInv, FoundingInv, [Next]_vars
    PROVE  LedgerMove
<1>1. CASE UNCHANGED vars
  BY <1>1 DEF vars, LedgerMove
<1>. QED
  BY <1>1, HandlerLedger, WorkerLedger DEF EarnInv, AmountsInv, FoundingInv, Next

-----------------------------------------------------------------------------
(* The ledger is implemented *)

\* The requests the ledger sees as booked.
Booked == {r \in Requests : applied[r] > 0}

LEMMA BookedMoves ==
    ASSUME TypeOK, NEW r \in Requests, applied[r] = 0, Apply(r)
    PROVE  r \notin Booked /\ Booked' = Booked \cup {r}
<1>1. applied'[r] = 1 /\ \A q \in Requests \ {r} : applied'[q] = applied[q]
  BY DEF Apply, TypeOK
<1>. QED
  BY <1>1 DEF Booked

\* A booking of a withdrawal is all that is loose about the ledger.
LEMMA LedgerSteps ==
    ASSUME TypeOK, TypeOK', AmountsInv', LedgerMove
    PROVE  [Ledger!LooseLedgerNext]_(Ledger!ledgerVars)
<1>0. position'.shares \in Nat
  BY DEF AmountsInv, PositionAmounts, Agreeing, TypeOK, Position
<1>1. CASE UNCHANGED <<chain, applied>> /\ position'.shares = position.shares
  BY <1>1 DEF Ledger!ledgerVars
<1>2. ASSUME NEW r \in Requests, Sends(r) \/ Settles(r) \/ Books(r)
      PROVE  \/ Ledger!Send(r) \/ Ledger!Settle(r) \/ Ledger!Credit(r)
             \/ Ledger!LooseDebit(r)
  <2>1. CASE Sends(r)
    BY <2>1 DEF Sends, Ledger!Send
  <2>2. CASE Settles(r)
    BY <2>2 DEF Settles, Ledger!Settle
  <2>3. CASE Books(r)
    <3>1. Ledger!Book(r)
      BY <2>3, BookedMoves DEF Books, Ledger!Book, Booked
    <3>. QED
      BY <1>0, <2>3, <3>1 DEF Books, Ledger!Credit, Ledger!LooseDebit
  <2>. QED
    BY <1>2, <2>1, <2>2, <2>3
<1>. QED
  BY <1>1, <1>2 DEF LedgerMove, Ledger!LooseLedgerNext, Requests

LEMMA InitLedger == Init => Ledger!LedgerInit
BY DEF Init, Ledger!LedgerInit, Requests, NoPosition

\* Every request is sent once, settled once and booked at most once, after its
\* success; nothing but a booking moves the balance, and a deposit moves it by its
\* exact amount, whatever withdrawals, clean-ups and workers do meanwhile.
THEOREM LooseLedger == ~SlowHandlers => (Spec => ImplementsLooseLedger)
<1>. SUFFICES ASSUME ~SlowHandlers PROVE Spec => ImplementsLooseLedger
  OBVIOUS
<1>1. EarnInv /\ EarnInv' /\ AmountsInv /\ AmountsInv' /\ FoundingInv /\ [Next]_vars
         => [Ledger!LooseLedgerNext]_(Ledger!ledgerVars)
  BY NextLedgerMove, LedgerSteps DEF EarnInv
<1>. QED
  BY <1>1, InitLedger, Invariance, AmountsInvariance, FoundingInvariance, PTL
  DEF Spec, ImplementsLooseLedger, Ledger!LooseLedgerSpec

\* Without withdrawals the books are exact.
THEOREM ExactLedger == ~SlowHandlers /\ Withdrawals = {} => (Spec => ImplementsLedger)
<1>. SUFFICES ASSUME ~SlowHandlers, Withdrawals = {} PROVE Spec => ImplementsLedger
  OBVIOUS
<1>1. [Ledger!LooseLedgerNext]_(Ledger!ledgerVars) => [Ledger!LedgerNext]_(Ledger!ledgerVars)
  BY DEF Ledger!LooseLedgerNext, Ledger!LedgerNext, Ledger!LooseDebit
<1>2. EarnInv /\ EarnInv' /\ AmountsInv /\ AmountsInv' /\ FoundingInv /\ [Next]_vars
         => [Ledger!LedgerNext]_(Ledger!ledgerVars)
  BY <1>1, NextLedgerMove, LedgerSteps DEF EarnInv
<1>. QED
  BY <1>2, InitLedger, Invariance, AmountsInvariance, FoundingInvariance, PTL
  DEF Spec, ImplementsLedger, Ledger!LedgerSpec

-----------------------------------------------------------------------------
(* The balance is a sum *)

Credited == {r \in Deposits : applied[r] > 0}

BalanceInv == IsFiniteSet(Credited) /\ position.shares = Sum(Credited)

LEMMA SumIsTotal == \A S : Sum(S) = Total(Amount, S)
BY DEF Sum, Total

LEMMA InitBalance == Init => BalanceInv
<1>. SUFFICES ASSUME Init PROVE BalanceInv
  OBVIOUS
<1>1. Credited = {}
  BY DEF Init, Credited, Requests
<1>2. IsFiniteSet({})
  BY FS_EmptySet
<1>3. Total(Amount, {}) = 0
  BY <1>2, TotalUnfolds
<1>. QED
  BY <1>1, <1>2, <1>3, SumIsTotal DEF BalanceInv, Init, NoPosition

LEMMA NextBalance ==
    ASSUME Withdrawals = {}, TypeOK, BalanceInv, LedgerMove
    PROVE  BalanceInv'
<1>1. CASE UNCHANGED applied /\ position'.shares = position.shares
  <2>1. Credited' = Credited
    BY <1>1 DEF Credited
  <2>. QED
    BY <1>1, <2>1, SumIsTotal DEF BalanceInv
<1>2. ASSUME NEW r \in Deposits, applied[r] = 0, Apply(r),
             position'.shares = position.shares + Amount[r]
      PROVE  BalanceInv'
  <2>1. r \in Requests
    BY DEF Requests
  <2>2. applied'[r] = 1 /\ \A q \in Requests \ {r} : applied'[q] = applied[q]
    BY <1>2, <2>1 DEF Apply, TypeOK
  <2>3. r \notin Credited /\ Credited' = Credited \cup {r}
    BY <1>2, <2>2 DEF Credited, Requests
  <2>4. IsFiniteSet(Credited')
    BY <2>3, FS_AddElement DEF BalanceInv
  <2>5. \A q \in Credited \cup {r} : Amount[q] \in Int
    BY AmountAssumption DEF Credited, Requests
  <2>6. Total(Amount, Credited \cup {r}) = Amount[r] + Total(Amount, Credited)
    BY <2>3, <2>5, TotalAdd DEF BalanceInv
  <2>7. Total(Amount, Credited) \in Int
    BY <2>5, TotalRemove DEF BalanceInv
  <2>. QED
    BY <1>2, <2>3, <2>4, <2>5, <2>6, <2>7, SumIsTotal DEF BalanceInv
<1>. QED
  BY <1>1, <1>2 DEF LedgerMove, Sends, Settles, Books

\* Without withdrawals the balance is the sum of the deposits that were credited,
\* for any number of deposits, of workers and of failures.
THEOREM BalanceIsSum == ~SlowHandlers /\ Withdrawals = {} => (Spec => []BalanceIsSumOfDeposits)
<1>. SUFFICES ASSUME ~SlowHandlers, Withdrawals = {} PROVE Spec => []BalanceIsSumOfDeposits
  OBVIOUS
<1>1. EarnInv /\ AmountsInv /\ FoundingInv /\ BalanceInv /\ [Next]_vars => BalanceInv'
  BY NextLedgerMove, NextBalance DEF EarnInv
<1>2. BalanceInv => BalanceIsSumOfDeposits
  BY DEF BalanceInv, BalanceIsSumOfDeposits, Credited
<1>. QED
  BY <1>1, <1>2, InitBalance, Invariance, AmountsInvariance, FoundingInvariance, PTL DEF Spec

(***************************************************************************)
(* Part VI    Position and chain at rest                                   *)
(***************************************************************************)

-----------------------------------------------------------------------------
(* Nothing that was sent is forgotten *)

\* Without a fault a handler that commits has its answer.
LEMMA CommitSeen ==
    ASSUME TypeOK, faults' = 0, NEW pc, CommitAnswered(pc)
    PROVE  pc = "done"
BY DEF TypeOK, CommitAnswered, Fault

LEMMA DepositSeenThrough ==
    ASSUME TypeOK, NEW r \in Deposits, RowInv(r), SeenThrough(r), faults' = 0,
           DepositPrecheck(r) \/ DepositStep(r)
    PROVE  SeenThrough(r)'
<1>0. /\ r \in Requests /\ handler[r] \in Handler /\ txn[r] \in Transaction
      /\ handler \in [Requests -> Handler] /\ txn \in [Requests -> Transaction]
      /\ chain \in [Requests -> ChainStatus]
  BY DEF TypeOK, Requests
<1>1. CASE DepositPrecheck(r)
  <2>1. /\ handler'[r].pc \in {"rejected", "prechecked"} /\ txn' = txn /\ chain' = chain
        /\ handler[r].pc = "idle"
    BY <1>0, <1>1 DEF DepositPrecheck, Goto, At, UnchangedDatabase, Handler
  <2>. QED
    BY <2>1 DEF SeenThrough, RowInv, HandlerKnowsRow, BeforeRow, NoTransaction
<1>2. CASE DepositAdmit(r)
  <2>1. handler'[r].pc \in {"rejected", "admitted"}
    <3>1. CASE Goto(r, "rejected")
      BY <1>0, <3>1 DEF Goto, Handler
    <3>2. CASE handler' = [handler EXCEPT ![r] =
                [@ EXCEPT !.pc = "admitted", !.isNew = (position.status = "NONE"),
                          !.amount = Amount[r], !.shares = Amount[r]]]
      BY <1>0, <3>2 DEF Handler
    <3>. QED
      BY <1>2, <3>1, <3>2 DEF DepositAdmit
  <2>2. txn' = txn /\ chain' = chain /\ handler[r].pc = "prechecked"
    BY <1>2 DEF DepositAdmit, At, UnchangedDatabase
  <2>. QED
    BY <2>1, <2>2 DEF SeenThrough, RowInv, HandlerKnowsRow, BeforeRow, NoTransaction
<1>3. CASE DepositCreate(r)
  <2>1. chain' = chain /\ chain[r] = "none" /\ txn[r].status = "NONE"
    BY <1>3 DEF DepositCreate, At, RowInv, HandlerKnowsRow, BeforeRow, NoTransaction
  <2>2. \/ handler'[r].pc = "rejected" /\ txn' = txn
        \/ handler'[r].pc = "created"
    BY <1>0, <1>3 DEF DepositCreate, Goto, Handler
  <2>. QED
    BY <2>1, <2>2 DEF SeenThrough, BeforeHash
<1>4. CASE DepositBroadcast(r)
  <2>1. handler'[r].pc = "broadcast" /\ txn' = txn
    BY <1>0, <1>4 DEF DepositBroadcast, Broadcast, Goto, UnchangedDatabase, Handler
  <2>. QED
    BY <2>1 DEF SeenThrough, BeforeHash
<1>5. CASE DepositMarkSubmitted(r)
  <2>1. handler'[r].pc = "submitted" /\ txn'[r].status = "SUBMITTED"
    BY <1>0, <1>5 DEF DepositMarkSubmitted, RecordHash, Goto, MarkSubmitted, Handler, Transaction
  <2>. QED
    BY <2>1 DEF SeenThrough, BeforeHash
<1>6. CASE DepositAwaitReceipt(r) \/ DepositRespondReverted(r)
  <2>1. /\ handler'[r].pc \in {"mined", "revertPosition", "revertTransaction", "done"}
        /\ handler[r].pc \in {"submitted", "reread"} /\ txn' = txn /\ chain' = chain
    BY <1>0, <1>6 DEF DepositAwaitReceipt, AwaitReceipt, DepositRespondReverted, Goto, At,
                      UnchangedDatabase, Handler
  <2>. QED
    BY <2>1 DEF SeenThrough, BeforeHash
<1>7. CASE DepositRevertPosition(r)
  <2>1. /\ handler'[r].pc = "revertTransaction" /\ handler[r].pc = "revertPosition"
        /\ txn' = txn /\ chain' = chain
    BY <1>0, <1>7 DEF DepositRevertPosition, Goto, At, Handler
  <2>. QED
    BY <2>1 DEF SeenThrough, BeforeHash
<1>8. CASE DepositMarkReverted(r)
  <2>1. /\ handler'[r].pc = "reread" /\ txn'[r].status = "REVERTED" /\ chain' = chain
        /\ chain[r] = "reverted"
    BY <1>0, <1>8 DEF DepositMarkReverted, Goto, At, MarkReverted, Handler,
                      RowInv, HandlerKnowsRow, AfterRevert
  <2>. QED
    BY <2>1 DEF SeenThrough, BeforeHash
<1>9. CASE DepositConfirm(r)
  <2>0. Goto(r, "done")
    BY <1>9, CommitSeen DEF DepositConfirm
  <2>1. /\ handler'[r].pc = "done" /\ handler[r].pc = "mined" /\ chain' = chain
        /\ txn'[r].status \in {txn[r].status, "CONFIRMED"}
    BY <1>0, <1>9, <2>0 DEF DepositConfirm, Goto, At, MarkConfirmed, UnchangedDatabase,
                            Handler, Transaction
  <2>. QED
    BY <2>1 DEF SeenThrough, BeforeHash
<1>10. CASE DepositCatchTransaction(r) \/ DepositCatchPosition(r)
  BY <1>10 DEF DepositCatchTransaction, CatchTransaction, DepositCatchPosition, At,
               SeenThrough
<1>. QED
  BY <1>1, <1>2, <1>3, <1>4, <1>5, <1>6, <1>7, <1>8, <1>9, <1>10 DEF DepositStep

LEMMA WithdrawSeenThrough ==
    ASSUME TypeOK, NEW r \in Withdrawals, RowInv(r), SeenThrough(r), faults' = 0,
           WithdrawRead(r) \/ WithdrawStep(r)
    PROVE  SeenThrough(r)'
<1>0. /\ r \in Requests /\ handler[r] \in Handler /\ txn[r] \in Transaction
      /\ handler \in [Requests -> Handler] /\ txn \in [Requests -> Transaction]
      /\ chain \in [Requests -> ChainStatus]
  BY DEF TypeOK, Requests
<1>1. CASE \/ WithdrawRead(r) \/ WithdrawReadBalance(r) \/ WithdrawPrecheck(r)
           \/ WithdrawAdmit(r)
  <2>1. /\ handler[r].pc \in BeforeRow /\ txn' = txn /\ chain' = chain
    BY <1>1 DEF WithdrawRead, WithdrawReadBalance, WithdrawPrecheck, WithdrawAdmit, At,
                UnchangedDatabase, BeforeRow
  <2>2. handler'[r].pc \in {"rejected", "read", "funded", "prechecked", "admitted"}
    <3>1. CASE handler' = [handler EXCEPT ![r] =
                 [@ EXCEPT !.pc = "read", !.amount = WithdrawAmount(r),
                           !.shares = SharesToBurn(r)]]
      <4>1. handler'[r] = [handler[r] EXCEPT !.pc = "read", !.amount = WithdrawAmount(r),
                                             !.shares = SharesToBurn(r)]
        BY <1>0, <3>1
      <4>. QED
        BY <1>0, <4>1 DEF Handler
    <3>2. CASE \E pc \in {"rejected", "funded", "prechecked", "admitted"} : Goto(r, pc)
      BY <1>0, <3>2 DEF Goto, Handler
    <3>. QED
      BY <1>1, <3>1, <3>2 DEF WithdrawRead, WithdrawReadBalance, WithdrawPrecheck,
                              WithdrawAdmit
  <2>. QED
    BY <2>1, <2>2 DEF SeenThrough, RowInv, HandlerKnowsRow, NoTransaction
<1>2. CASE WithdrawCreate(r)
  <2>1. chain' = chain /\ chain[r] = "none" /\ handler'[r].pc = "created"
    BY <1>0, <1>2 DEF WithdrawCreate, At, Goto, RowInv, HandlerKnowsRow, BeforeRow, Handler
  <2>. QED
    BY <2>1 DEF SeenThrough, BeforeHash
<1>3. CASE WithdrawBroadcast(r)
  <2>1. handler'[r].pc = "broadcast" /\ txn' = txn
    BY <1>0, <1>3 DEF WithdrawBroadcast, Broadcast, Goto, UnchangedDatabase, Handler
  <2>. QED
    BY <2>1 DEF SeenThrough, BeforeHash
<1>4. CASE WithdrawMarkSubmitted(r)
  <2>1. handler'[r].pc = "submitted" /\ txn'[r].status = "SUBMITTED"
    BY <1>0, <1>4 DEF WithdrawMarkSubmitted, RecordHash, Goto, MarkSubmitted, Handler,
                      Transaction
  <2>. QED
    BY <2>1 DEF SeenThrough
<1>5. CASE WithdrawAwaitReceipt(r)
  <2>1. /\ handler'[r].pc \in {"mined", "revertTransaction"}
        /\ handler[r].pc = "submitted" /\ txn' = txn /\ chain' = chain
    BY <1>0, <1>5 DEF WithdrawAwaitReceipt, AwaitReceipt, Goto, At, UnchangedDatabase, Handler
  <2>. QED
    BY <2>1 DEF SeenThrough, BeforeHash
<1>6. CASE WithdrawMarkReverted(r)
  <2>1. /\ handler'[r].pc = "reactivate" /\ txn'[r].status = "REVERTED" /\ chain' = chain
        /\ chain[r] = "reverted"
    BY <1>0, <1>6 DEF WithdrawMarkReverted, Goto, At, MarkReverted, Handler,
                      RowInv, HandlerKnowsRow, AfterRevert
  <2>. QED
    BY <2>1 DEF SeenThrough
<1>7. CASE WithdrawReactivate(r)
  <2>0. Goto(r, "done")
    BY <1>7, CommitSeen DEF WithdrawReactivate
  <2>1. /\ handler'[r].pc = "done" /\ handler[r].pc = "reactivate"
        /\ txn' = txn /\ chain' = chain
    BY <1>0, <1>7, <2>0 DEF WithdrawReactivate, Goto, At, Handler
  <2>. QED
    BY <2>1 DEF SeenThrough, BeforeHash
<1>8. CASE WithdrawConfirm(r)
  <2>1. /\ handler[r].pc = "mined" /\ txn' = txn /\ chain' = chain
    BY <1>8 DEF WithdrawConfirm, At, UnchangedDatabase
  <2>2. handler'[r].pc \in {"done", "subtract"}
    <3>1. CASE handler' = [handler EXCEPT ![r] =
                 [@ EXCEPT !.pc = "subtract", !.existing = position]]
      <4>1. handler'[r] = [handler[r] EXCEPT !.pc = "subtract", !.existing = position]
        BY <1>0, <3>1
      <4>. QED
        BY <1>0, <4>1 DEF Handler
    <3>2. CASE Goto(r, "done")
      BY <1>0, <3>2 DEF Goto, Handler
    <3>. QED
      BY <1>8, <3>1, <3>2 DEF WithdrawConfirm
  <2>. QED
    BY <2>1, <2>2 DEF SeenThrough, BeforeHash
<1>9. CASE WithdrawSubtract(r)
  <2>1. handler'[r] = [handler[r] EXCEPT !.pc = "done", !.existing = NoPosition]
    BY <1>0, <1>9, CommitSeen DEF WithdrawSubtract
  <2>2. handler'[r].pc = "done" /\ txn'[r].status = "CONFIRMED"
    BY <1>0, <1>9, <2>1 DEF WithdrawSubtract, MarkConfirmed, Handler, Transaction
  <2>. QED
    BY <2>2 DEF SeenThrough
<1>10. CASE WithdrawCatchTransaction(r) \/ WithdrawCatchPosition(r)
  BY <1>10 DEF WithdrawCatchTransaction, CatchTransaction, WithdrawCatchPosition, At,
               SeenThrough
<1>. QED
  BY <1>1, <1>2, <1>3, <1>4, <1>5, <1>6, <1>7, <1>8, <1>9, <1>10 DEF WithdrawStep

LEMMA ApprovalSeenThrough ==
    ASSUME TypeOK, NEW r \in Approvals, RowInv(r), SeenThrough(r),
           ApprovalCreate(r) \/ ApprovalStep(r)
    PROVE  SeenThrough(r)'
<1>0. /\ r \in Requests /\ handler[r] \in Handler /\ txn[r] \in Transaction
      /\ handler \in [Requests -> Handler] /\ txn \in [Requests -> Transaction]
      /\ chain \in [Requests -> ChainStatus]
  BY DEF TypeOK, Requests
<1>1. CASE ApprovalCreate(r)
  <2>1. /\ chain' = chain /\ chain[r] = "none"
        /\ handler'[r].pc \in {"created", "sufficient"}
    BY <1>0, <1>1 DEF ApprovalCreate, At, Goto, RowInv, HandlerKnowsRow, BeforeRow, Handler
  <2>. QED
    BY <2>1 DEF SeenThrough, BeforeHash
<1>2. CASE ApprovalSkip(r)
  <2>1. /\ handler'[r].pc = "done" /\ txn'[r].status = "CONFIRMED"
    BY <1>0, <1>2 DEF ApprovalSkip, Goto, MarkConfirmed, Handler, Transaction
  <2>. QED
    BY <2>1 DEF SeenThrough
<1>3. CASE ApprovalBroadcast(r)
  <2>1. handler'[r].pc = "broadcast" /\ txn' = txn
    BY <1>0, <1>3 DEF ApprovalBroadcast, Broadcast, Goto, UnchangedDatabase, Handler
  <2>. QED
    BY <2>1 DEF SeenThrough, BeforeHash
<1>4. CASE ApprovalMarkSubmitted(r)
  <2>1. handler'[r].pc = "submitted" /\ txn'[r].status = "SUBMITTED"
    BY <1>0, <1>4 DEF ApprovalMarkSubmitted, RecordHash, Goto, MarkSubmitted, Handler,
                      Transaction
  <2>. QED
    BY <2>1 DEF SeenThrough
<1>5. CASE ApprovalAwaitReceipt(r) \/ ApprovalRespond(r)
  <2>1. /\ handler'[r].pc \in {"mined", "revertTransaction", "done"}
        /\ handler[r].pc \in {"submitted", "reread"} /\ txn' = txn /\ chain' = chain
    BY <1>0, <1>5 DEF ApprovalAwaitReceipt, AwaitReceipt, ApprovalRespond, Goto, At,
                      UnchangedDatabase, Handler
  <2>. QED
    BY <2>1 DEF SeenThrough, BeforeHash
<1>6. CASE ApprovalConfirm(r)
  <2>1. /\ handler'[r].pc = "reread" /\ handler[r].pc = "mined" /\ chain' = chain
        /\ txn'[r].status \in {txn[r].status, "CONFIRMED"}
    BY <1>0, <1>6 DEF ApprovalConfirm, Goto, At, MarkConfirmed, Handler, Transaction
  <2>. QED
    BY <2>1 DEF SeenThrough, BeforeHash
<1>7. CASE ApprovalMarkReverted(r)
  <2>1. /\ handler'[r].pc = "reread" /\ txn'[r].status = "REVERTED" /\ chain' = chain
        /\ chain[r] = "reverted"
    BY <1>0, <1>7 DEF ApprovalMarkReverted, Goto, At, MarkReverted, Handler,
                      RowInv, HandlerKnowsRow, AfterRevert
  <2>. QED
    BY <2>1 DEF SeenThrough
<1>8. CASE ApprovalCatchTransaction(r)
  BY <1>8 DEF ApprovalCatchTransaction, CatchTransaction, At, SeenThrough
<1>. QED
  BY <1>1, <1>2, <1>3, <1>4, <1>5, <1>6, <1>7, <1>8 DEF ApprovalStep

\* Whatever moves a request is of its kind.
LEMMA StepOfItsKind ==
    ASSUME NEW r \in Requests
    PROVE  /\ DepositPrecheck(r) \/ DepositStep(r) => r \in Deposits
           /\ WithdrawRead(r) \/ WithdrawStep(r) => r \in Withdrawals
           /\ ApprovalCreate(r) \/ ApprovalStep(r) => r \in Approvals
BY DEF DepositStep, DepositPrecheck, DepositAdmit, DepositCreate, DepositBroadcast,
       DepositMarkSubmitted, DepositAwaitReceipt, DepositRevertPosition,
       DepositMarkReverted, DepositRespondReverted, DepositConfirm,
       DepositCatchTransaction, DepositCatchPosition,
       WithdrawStep, WithdrawRead, WithdrawReadBalance, WithdrawPrecheck, WithdrawAdmit,
       WithdrawCreate, WithdrawBroadcast, WithdrawMarkSubmitted, WithdrawAwaitReceipt,
       WithdrawMarkReverted, WithdrawReactivate, WithdrawConfirm, WithdrawSubtract,
       WithdrawCatchTransaction, WithdrawCatchPosition,
       ApprovalStep, ApprovalCreate, ApprovalSkip, ApprovalBroadcast,
       ApprovalMarkSubmitted, ApprovalAwaitReceipt, ApprovalConfirm,
       ApprovalMarkReverted, ApprovalRespond, ApprovalCatchTransaction

\* A step that leaves no fault behind is none.
LEMMA NoFault ==
    ASSUME TypeOK, NEW r \in Requests, faults' = 0,
           RequestArrives(r) \/ HandlerStep(r) \/ HandlerFails(r) \/ Mine(r)
    PROVE  faults = 0 /\ ~HandlerFails(r)
<1>1. faults \in Nat
  BY DEF TypeOK
<1>2. ~Fault
  BY <1>1 DEF Fault
<1>3. ~HandlerFails(r)
  BY <1>2 DEF HandlerFails, BroadcastAnswerLost, HandlerThrows, HandlerCrashes
<1>4. CASE Mine(r)
  BY <1>3, <1>4 DEF Mine
<1>5. CASE RequestArrives(r) \/ HandlerStep(r)
  BY <1>2, <1>3, <1>5
  DEF RequestArrives, HandlerStep, DepositStep, WithdrawStep, ApprovalStep,
      CommitAnswered, Broadcast, RecordHash, AwaitReceipt, CatchTransaction,
      DepositPrecheck, DepositAdmit, DepositCreate, DepositBroadcast, DepositMarkSubmitted,
      DepositAwaitReceipt, DepositRevertPosition, DepositMarkReverted,
      DepositRespondReverted, DepositConfirm, DepositCatchTransaction,
      DepositCatchPosition,
      WithdrawRead, WithdrawReadBalance, WithdrawPrecheck, WithdrawAdmit, WithdrawCreate,
      WithdrawBroadcast, WithdrawMarkSubmitted, WithdrawAwaitReceipt,
      WithdrawMarkReverted, WithdrawReactivate, WithdrawConfirm, WithdrawSubtract,
      WithdrawCatchTransaction, WithdrawCatchPosition,
      ApprovalCreate, ApprovalSkip, ApprovalBroadcast, ApprovalMarkSubmitted,
      ApprovalAwaitReceipt, ApprovalConfirm, ApprovalMarkReverted, ApprovalRespond,
      ApprovalCatchTransaction
<1>. QED
  BY <1>3, <1>4, <1>5

LEMMA HandlerUndisturbed ==
    ASSUME EarnInv, FoundingInv, Undisturbed, NEW r \in Requests, faults' = 0,
           RequestArrives(r) \/ HandlerStep(r) \/ HandlerFails(r) \/ Mine(r)
    PROVE  Undisturbed'
<1>0. TypeOK /\ RowInv(r) /\ FoundingKnown /\ RequestFounding(r)
  BY DEF EarnInv, FoundingInv
<1>1. OthersStay(r)
  BY <1>0, HandlerFounding
<1>2. RowStep(r)
  BY <1>0, DepositRowStep, WithdrawRowStep, ApprovalRowStep, FailureRowStep
  DEF RequestArrives, HandlerStep
<1>3. faults = 0 /\ ~HandlerFails(r)
  BY <1>0, NoFault
<1>4. SeenThrough(r)'
  <2>1. SeenThrough(r)
    BY <1>3 DEF Undisturbed
  <2>2. CASE Mine(r)
    <3>1. chain[r] = "pending" /\ txn' = txn /\ handler' = handler
      BY <2>2 DEF Mine, UnchangedDatabase
    <3>. QED
      BY <2>1, <3>1 DEF SeenThrough
  <2>3. CASE RequestArrives(r) \/ HandlerStep(r)
    BY <1>0, <2>1, <2>3, DepositSeenThrough, WithdrawSeenThrough, ApprovalSeenThrough,
       StepOfItsKind DEF RequestArrives, HandlerStep
  <2>. QED
    BY <1>3, <2>2, <2>3
<1>5. ASSUME NEW q \in Requests, q # r PROVE SeenThrough(q)'
  BY <1>1, <1>3, <1>5 DEF OthersStay, Undisturbed, SeenThrough
<1>6. UNCHANGED worker
  BY <1>2 DEF RowStep, TouchesOnly
<1>. QED
  BY <1>3, <1>4, <1>5, <1>6 DEF Undisturbed, NothingStale

\* A run finds nothing to give up.
LEMMA WorkerUndisturbed ==
    ASSUME EarnInv, FoundingInv, Undisturbed, ~SlowHandlers, NEW w \in Workers, faults' = 0,
           ReconcileStep(w) \/ WorkerFails(w)
    PROVE  Undisturbed'
<1>0. TypeOK /\ WorkerInv(w) /\ worker \in [Workers -> Worker] /\ worker[w] \in Worker
  BY DEF EarnInv, TypeOK
<1>1. faults = 0 /\ ~WorkerFails(w) /\ UNCHANGED <<handler, chain>>
  <2>1. faults \in Nat
    BY <1>0 DEF TypeOK
  <2>2. ~Fault
    BY <2>1 DEF Fault
  <2>3. ~WorkerFails(w)
    BY <2>2 DEF WorkerFails, ItemThrows, RunAborts
  <2>. QED
    BY <2>3
    DEF ReconcileStep, UnchangedByWorker,
        ReconcileStart, StaleMarkFailed, StaleReadPosition, StaleFailPosition,
        ListPending, ReceiptMissing, ConfirmApproval, ConfirmDeposit, ConfirmWithdraw,
        ActivateAndCommit, SubtractRead, SubtractAndCommit, HandleReverted,
        RevertPositionAndCommit, ReconcileEnd
<1>2. (\A q \in Requests : SeenThrough(q)) /\ (\A v \in Workers : NothingStale(v))
  BY <1>1 DEF Undisturbed
<1>3. ASSUME NEW q \in Requests
      PROVE  \/ txn'[q].status \in {txn[q].status, "CONFIRMED"}
             \/ txn'[q].status = "REVERTED" /\ chain[q] = "reverted"
  <2>0. txn \in [Requests -> Transaction] /\ txn[q] \in Transaction
    BY <1>0 DEF TypeOK
  <2>1. \A r \in Requests : ~StaleMarkFailed(w, r)
    BY <1>2 DEF StaleMarkFailed, NothingStale
  <2>2. ASSUME NEW r \in Requests,
               ConfirmApproval(w, r) \/ ConfirmDeposit(w, r) \/ ConfirmWithdraw(w, r)
        PROVE  txn'[q].status \in {txn[q].status, "CONFIRMED"}
    BY <2>0, <2>2 DEF ConfirmApproval, ConfirmDeposit, ConfirmWithdraw, MarkConfirmed,
                      UnchangedDatabase, Transaction
  <2>3. ASSUME NEW r \in Requests, HandleReverted(w, r)
        PROVE  \/ txn'[q].status = txn[q].status
               \/ txn'[q].status = "REVERTED" /\ chain[q] = "reverted"
    BY <2>0, <2>3 DEF HandleReverted, Reconcilable, MarkReverted
  <2>4. CASE ActivateAndCommit(w) \/ SubtractAndCommit(w)
    BY <2>0, <2>4 DEF ActivateAndCommit, SubtractAndCommit, MarkConfirmed, Transaction
  <2>5. CASE RevertPositionAndCommit(w)
    BY <1>0, <2>0, <2>5 DEF RevertPositionAndCommit, WorkerAt, WorkerInv, HolderKnowsRow,
                            MarkReverted
  <2>6. CASE UNCHANGED txn
    BY <2>6
  <2>. QED
    BY <1>1, <2>1, <2>2, <2>3, <2>4, <2>5, <2>6
    DEF ReconcileStep, UnchangedDatabase,
        ReconcileStart, StaleReadPosition, StaleFailPosition, ListPending,
        ReceiptMissing, SubtractRead, ReconcileEnd
<1>4. \A q \in Requests : SeenThrough(q)'
  BY <1>1, <1>2, <1>3 DEF SeenThrough
<1>5. ASSUME NEW new, SetWorker(w, new), new.stale = {},
             new.pc \notin {"staleRead", "staleFail"}
      PROVE  \A v \in Workers : NothingStale(v)'
  <2>1. worker'[w] = new /\ \A v \in Workers \ {w} : worker'[v] = worker[v]
    BY <1>0, <1>5, SetWorkerAt
  <2>. QED
    BY <1>2, <1>5, <2>1 DEF NothingStale
<1>6. worker[w] \in [pc : WorkerPC, stale : SUBSET Requests, pending : SUBSET Requests,
                    item : Requests \cup {NoRequest}, existing : Position]
  BY <1>0 DEF Worker
<1>7. worker[w].stale = {} /\ worker[w].pc \notin {"staleRead", "staleFail"}
  BY <1>2 DEF NothingStale
<1>8. \A v \in Workers : NothingStale(v)'
  <2>1. CASE ReconcileStart(w)
    <3>1. ASSUME NEW q \in StaleRows PROVE FALSE
      <4>1. q \in Requests /\ txn[q].status = "CREATED" /\ ~Live(q)
        BY <3>1 DEF StaleRows, IsUnsentCreated, OldEnough
      <4>2. handler[q].pc \in BeforeHash
        BY <1>2, <4>1 DEF SeenThrough
      <4>. QED
        BY <4>1, <4>2 DEF Live, BeforeHash
    <3>2. StaleRows = {}
      BY <3>1
    <3>3. [IdleWorker EXCEPT !.pc = "stale", !.stale = StaleRows].stale = {}
      BY <3>2 DEF IdleWorker
    <3>4. [IdleWorker EXCEPT !.pc = "stale", !.stale = StaleRows].pc = "stale"
      BY DEF IdleWorker
    <3>. QED
      BY <1>5, <2>1, <3>3, <3>4 DEF ReconcileStart
  <2>2. CASE ReconcileEnd(w)
    BY <1>5, <2>2 DEF ReconcileEnd, IdleWorker
  <2>3. CASE ListPending(w)
    BY <1>5, <1>6, <1>7, <2>3 DEF ListPending
  <2>4. ASSUME NEW r \in Requests, ReceiptMissing(w, r) \/ ConfirmApproval(w, r)
                                   \/ ConfirmDeposit(w, r) \/ ConfirmWithdraw(w, r)
                                   \/ HandleReverted(w, r)
        PROVE  \A v \in Workers : NothingStale(v)'
    <3>1. /\ DropItem(w, r).stale = {} /\ DropItem(w, r).pc = worker[w].pc
          /\ \A pc \in HoldingPCs : Hold(w, r, pc).stale = {} /\ Hold(w, r, pc).pc = pc
      BY <1>6, <1>7 DEF DropItem, Hold
    <3>2. \/ SetWorker(w, DropItem(w, r))
          \/ \E pc \in {"activate", "withdrawing", "revertPosition"} : SetWorker(w, Hold(w, r, pc))
      BY <2>4 DEF ReceiptMissing, ConfirmApproval, ConfirmDeposit, ConfirmWithdraw,
                  HandleReverted
    <3>. QED
      BY <1>5, <1>7, <3>1, <3>2 DEF HoldingPCs
  <2>5. CASE ActivateAndCommit(w) \/ SubtractAndCommit(w) \/ RevertPositionAndCommit(w)
    <3>1. NextItem(w).stale = {} /\ NextItem(w).pc = "pending"
      BY <1>6, <1>7 DEF NextItem
    <3>. QED
      BY <1>5, <2>5, <3>1
      DEF ActivateAndCommit, SubtractAndCommit, RevertPositionAndCommit
  <2>6. CASE SubtractRead(w)
    BY <1>5, <1>6, <1>7, <2>6 DEF SubtractRead
  <2>. QED
    BY <1>1, <1>7, <2>1, <2>2, <2>3, <2>4, <2>5, <2>6
    DEF ReconcileStep, StaleMarkFailed, StaleReadPosition, StaleFailPosition, WorkerAt
<1>. QED
  BY <1>4, <1>8 DEF Undisturbed

LEMMA InitUndisturbed == Init => Undisturbed
BY DEF Init, Undisturbed, SeenThrough, NothingStale, IdleHandler, IdleWorker, NoTransaction

LEMMA NextUndisturbed ==
    ASSUME EarnInv, FoundingInv, Undisturbed, ~SlowHandlers, [Next]_vars
    PROVE  Undisturbed'
<1>1. CASE UNCHANGED vars
  BY <1>1 DEF vars, Undisturbed, SeenThrough, NothingStale
<1>2. CASE Next
  <2>1. CASE faults' # 0
    BY <2>1 DEF Undisturbed
  <2>2. CASE faults' = 0
    BY <1>2, <2>2, HandlerUndisturbed, WorkerUndisturbed DEF Next
  <2>. QED
    BY <2>1, <2>2
<1>. QED
  BY <1>1, <1>2

-----------------------------------------------------------------------------
(* What the wallet holds is a sum, too *)

Mined == {r \in Deposits : chain[r] = "success"}

MinedInv == IsFiniteSet(Mined) /\ onChain = Sum(Mined)

Sent(r) ==
    /\ txn[r].status # "NONE" /\ chain[r] = "none" /\ chain' = [chain EXCEPT ![r] = "pending"]
    /\ UNCHANGED onChain

\* Only being mined changes what the wallet holds.
LEMMA HandlerOnChain ==
    ASSUME NEW r \in Requests, RowInv(r),
           RequestArrives(r) \/ HandlerStep(r) \/ HandlerFails(r) \/ Mine(r)
    PROVE  UNCHANGED <<chain, onChain>> \/ Sent(r) \/ Mine(r)
<1>1. CASE Broadcast(r) \/ BroadcastAnswerLost(r)
  <2>1. chain[r] = "none" /\ txn[r].status # "NONE"
    BY <1>1 DEF Broadcast, BroadcastAnswerLost, At, RowInv, HandlerKnowsRow, BeforeRow,
                BeforeHash
  <2>. QED
    BY <1>1, <2>1 DEF Broadcast, BroadcastAnswerLost, Sent
<1>2. CASE DepositPrecheck(r) \/ DepositStep(r)
  BY <1>1, <1>2
  DEF DepositStep, RecordHash, AwaitReceipt, CatchTransaction,
      DepositPrecheck, DepositAdmit, DepositCreate, DepositBroadcast, DepositMarkSubmitted,
      DepositAwaitReceipt, DepositRevertPosition, DepositMarkReverted,
      DepositRespondReverted, DepositConfirm, DepositCatchTransaction, DepositCatchPosition
<1>3. CASE WithdrawRead(r) \/ WithdrawStep(r)
  BY <1>1, <1>3
  DEF WithdrawStep, RecordHash, AwaitReceipt, CatchTransaction,
      WithdrawRead, WithdrawReadBalance, WithdrawPrecheck, WithdrawAdmit, WithdrawCreate,
      WithdrawBroadcast, WithdrawMarkSubmitted, WithdrawAwaitReceipt,
      WithdrawMarkReverted, WithdrawReactivate, WithdrawConfirm, WithdrawSubtract,
      WithdrawCatchTransaction, WithdrawCatchPosition
<1>4. CASE ApprovalCreate(r) \/ ApprovalStep(r)
  BY <1>1, <1>4
  DEF ApprovalStep, RecordHash, AwaitReceipt, CatchTransaction,
      ApprovalCreate, ApprovalSkip, ApprovalBroadcast, ApprovalMarkSubmitted,
      ApprovalAwaitReceipt, ApprovalConfirm, ApprovalMarkReverted, ApprovalRespond,
      ApprovalCatchTransaction
<1>5. CASE HandlerThrows(r) \/ HandlerCrashes(r)
  BY <1>5 DEF HandlerThrows, HandlerCrashes
<1>. QED
  BY <1>1, <1>2, <1>3, <1>4, <1>5 DEF RequestArrives, HandlerStep, HandlerFails

LEMMA WorkerOnChain ==
    ASSUME NEW w \in Workers, ReconcileStep(w) \/ WorkerFails(w)
    PROVE  UNCHANGED <<chain, onChain>>
BY DEF ReconcileStep, WorkerFails, ItemThrows, RunAborts, UnchangedByWorker,
       ReconcileStart, StaleMarkFailed, StaleReadPosition, StaleFailPosition,
       ListPending, ReceiptMissing, ConfirmApproval, ConfirmDeposit, ConfirmWithdraw,
       ActivateAndCommit, SubtractRead, SubtractAndCommit, HandleReverted,
       RevertPositionAndCommit, ReconcileEnd

LEMMA InitMined == Init => MinedInv
<1>. SUFFICES ASSUME Init PROVE MinedInv
  OBVIOUS
<1>1. Mined = {}
  BY DEF Init, Mined, Requests
<1>2. IsFiniteSet({})
  BY FS_EmptySet
<1>3. Total(Amount, {}) = 0
  BY <1>2, TotalUnfolds
<1>. QED
  BY <1>1, <1>2, <1>3, SumIsTotal DEF MinedInv, Init

LEMMA MineAdds ==
    ASSUME Withdrawals = {}, TypeOK, MinedInv, NEW r \in Requests, Mine(r)
    PROVE  MinedInv'
<1>1. chain[r] = "pending" /\ r \notin Mined /\ FullWithdrawals = {}
  BY RequestsAssumption DEF Mine, Mined
<1>2. CASE r \in Deposits /\ chain'[r] = "success"
  <2>1. chain' = [chain EXCEPT ![r] = "success"] /\ onChain' = onChain + Amount[r]
    BY <1>2 DEF Mine, OnChainAfter, TypeOK
  <2>2. Mined' = Mined \cup {r}
    BY <1>2, <2>1 DEF Mined, TypeOK, Requests
  <2>3. IsFiniteSet(Mined')
    BY <2>2, FS_AddElement DEF MinedInv
  <2>4. \A q \in Mined \cup {r} : Amount[q] \in Int
    BY AmountAssumption DEF Mined, Requests
  <2>5. Total(Amount, Mined \cup {r}) = Amount[r] + Total(Amount, Mined)
    BY <1>1, <2>4, TotalAdd DEF MinedInv
  <2>6. Total(Amount, Mined) \in Int /\ Amount[r] \in Int
    BY <2>4, TotalRemove DEF MinedInv
  <2>. QED
    BY <2>1, <2>2, <2>3, <2>5, <2>6, SumIsTotal DEF MinedInv
<1>3. CASE ~(r \in Deposits /\ chain'[r] = "success")
  <2>1. onChain' = onChain
    BY <1>1, <1>3 DEF Mine, OnChainAfter, TypeOK
  <2>2. Mined' = Mined
    BY <1>1, <1>3 DEF Mine, Mined, TypeOK, Requests
  <2>. QED
    BY <2>1, <2>2, SumIsTotal DEF MinedInv
<1>. QED
  BY <1>2, <1>3

LEMMA NextMined ==
    ASSUME Withdrawals = {}, EarnInv, MinedInv, [Next]_vars
    PROVE  MinedInv'
<1>0. TypeOK /\ \A r \in Requests : RowInv(r)
  BY DEF EarnInv
<1>1. CASE UNCHANGED <<chain, onChain>>
  <2>1. Mined' = Mined
    BY <1>1 DEF Mined
  <2>. QED
    BY <1>1, <2>1, SumIsTotal DEF MinedInv
<1>2. ASSUME NEW r \in Requests, Sent(r) PROVE MinedInv'
  <2>1. Mined' = Mined
    BY <1>0, <1>2 DEF Mined, Sent, TypeOK, Requests
  <2>. QED
    BY <1>2, <2>1, SumIsTotal DEF MinedInv, Sent
<1>3. CASE UNCHANGED vars
  BY <1>1, <1>3 DEF vars
<1>4. CASE Next
  BY <1>0, <1>1, <1>2, <1>4, HandlerOnChain, WorkerOnChain, MineAdds DEF Next
<1>. QED
  BY <1>3, <1>4

-----------------------------------------------------------------------------
(* The two sums have the same summands *)

\* In a quiet state nothing that succeeded is unconfirmed, ...
LEMMA QuietIsConfirmed ==
    ASSUME TypeOK, Undisturbed, Quiet, faults = 0, NEW r \in Requests, chain[r] = "success"
    PROVE  txn[r].status = "CONFIRMED"
BY DEF Undisturbed, SeenThrough, Quiet, Live, IsOpen

\* ... so the position shows what the wallet holds if what is confirmed is credited.
LEMMA QuietMatches ==
    ASSUME EarnInv, Undisturbed, BalanceInv, MinedInv, ConfirmedDepositsApplied
    PROVE  QuietPositionMatchesChain
<1>. SUFFICES ASSUME Quiet, faults = 0 PROVE position.shares = onChain
  BY DEF QuietPositionMatchesChain
<1>1. ASSUME NEW r \in Deposits PROVE (applied[r] > 0) <=> (chain[r] = "success")
  <2>1. r \in Requests /\ RowKnowsChain(r)
    BY DEF EarnInv, RowInv, Requests
  <2>2. applied[r] > 0 => chain[r] = "success"
    BY <2>1 DEF RowKnowsChain
  <2>3. ASSUME chain[r] = "success" PROVE applied[r] > 0
    <3>1. txn[r].status = "CONFIRMED"
      BY <2>1, <2>3, QuietIsConfirmed DEF EarnInv
    <3>. QED
      BY <3>1 DEF ConfirmedDepositsApplied
  <2>. QED
    BY <2>2, <2>3
<1>2. Credited = Mined
  BY <1>1 DEF Credited, Mined
<1>. QED
  BY <1>2 DEF BalanceInv, MinedInv

\* Without withdrawals, the position of a pair at rest shows what the wallet holds
\* unless the job has confirmed a deposit without crediting it: nothing else, no
\* overlap of handlers and workers, makes position and chain differ.
THEOREM QuietPosition ==
    ~SlowHandlers /\ Withdrawals = {}
      => (Spec => [](ConfirmedDepositsApplied => QuietPositionMatchesChain))
<1>. SUFFICES ASSUME ~SlowHandlers, Withdrawals = {}
              PROVE  Spec => [](ConfirmedDepositsApplied => QuietPositionMatchesChain)
  OBVIOUS
<1>1. EarnInv /\ AmountsInv /\ FoundingInv /\ BalanceInv /\ [Next]_vars => BalanceInv'
  BY NextLedgerMove, NextBalance DEF EarnInv
<1>2. EarnInv /\ FoundingInv /\ Undisturbed /\ [Next]_vars => Undisturbed'
  BY NextUndisturbed
<1>3. EarnInv /\ MinedInv /\ [Next]_vars => MinedInv'
  BY NextMined
<1>4. EarnInv /\ Undisturbed /\ BalanceInv /\ MinedInv
         => (ConfirmedDepositsApplied => QuietPositionMatchesChain)
  BY QuietMatches
<1>. QED
  BY <1>1, <1>2, <1>3, <1>4, InitBalance, InitUndisturbed, InitMined, Invariance,
     AmountsInvariance, FoundingInvariance, PTL DEF Spec

-----------------------------------------------------------------------------
(* With one deposit there is nothing the job could fail to credit *)

\* Nobody but a deposit with a row of its own writes a position that was not there.
LEMMA HandlerOpens ==
    ASSUME TypeOK, FoundingKnown, NEW r \in Requests, RowInv(r), position.status = "NONE",
           RequestArrives(r) \/ HandlerStep(r) \/ HandlerFails(r) \/ Mine(r)
    PROVE  position' = position \/ (r \in Deposits /\ txn'[r].status # "NONE")
<1>0. /\ handler[r] \in Handler /\ txn \in [Requests -> Transaction]
      /\ r \in Deposits => txn[r].status = "NONE"
      /\ r \in Withdrawals => handler[r].pc \in {"idle", "rejected"}
  BY DEF TypeOK, FoundingKnown, Unborn
<1>1. CASE DepositCreate(r)
  BY <1>0, <1>1 DEF DepositCreate, CreateTransaction
<1>2. CASE DepositStep(r) /\ ~DepositCreate(r)
  <2>1. r \in Deposits /\ handler[r].pc \in BeforeRow \cup {"crashed"}
    BY <1>0, <1>2
    DEF RowInv, HandlerKnowsRow, DepositStep, DepositAdmit, DepositBroadcast,
        DepositMarkSubmitted, DepositAwaitReceipt, DepositRevertPosition,
        DepositMarkReverted, DepositRespondReverted, DepositConfirm,
        DepositCatchTransaction, DepositCatchPosition
  <2>2. ~\/ DepositRevertPosition(r) \/ DepositConfirm(r) \/ DepositCatchPosition(r)
    BY <2>1 DEF DepositRevertPosition, DepositConfirm, DepositCatchPosition, At, BeforeRow
  <2>. QED
    BY <1>2, <2>2
    DEF DepositStep, DepositAdmit, DepositBroadcast, Broadcast, RecordHash,
        DepositMarkSubmitted, DepositAwaitReceipt, AwaitReceipt, DepositMarkReverted,
        DepositRespondReverted, DepositCatchTransaction, CatchTransaction, UnchangedDatabase
<1>3. CASE WithdrawStep(r)
  BY <1>0, <1>3
  DEF WithdrawStep, RecordHash, Broadcast, AwaitReceipt, CatchTransaction, At,
      WithdrawReadBalance, WithdrawPrecheck, WithdrawAdmit, WithdrawCreate,
      WithdrawBroadcast, WithdrawMarkSubmitted, WithdrawAwaitReceipt,
      WithdrawMarkReverted, WithdrawReactivate, WithdrawConfirm, WithdrawSubtract,
      WithdrawCatchTransaction, WithdrawCatchPosition
<1>4. CASE RequestArrives(r) \/ ApprovalStep(r) \/ HandlerFails(r) \/ Mine(r)
  BY <1>4
  DEF RequestArrives, DepositPrecheck, WithdrawRead, ApprovalCreate, ApprovalStep,
      Broadcast, RecordHash, AwaitReceipt, CatchTransaction, UnchangedDatabase,
      ApprovalSkip, ApprovalBroadcast, ApprovalMarkSubmitted,
      ApprovalAwaitReceipt, ApprovalConfirm, ApprovalMarkReverted, ApprovalRespond,
      ApprovalCatchTransaction, HandlerFails, BroadcastAnswerLost, HandlerThrows,
      HandlerCrashes, Mine
<1>. QED
  BY <1>1, <1>2, <1>3, <1>4 DEF HandlerStep

LEMMA WorkerOpens ==
    ASSUME TypeOK, FoundingKnown, NEW w \in Workers, WorkerInv(w), WorkerFounding(w),
           \A q \in Requests : RowInv(q), position.status = "NONE",
           ReconcileStep(w) \/ WorkerFails(w)
    PROVE  position' = position
<1>1. ~StaleFailPosition(w)
  BY DEF StaleFailPosition, WorkerAt, FoundingKnown, CleaningUp
<1>2. ~(ActivateAndCommit(w) \/ SubtractAndCommit(w) \/ RevertPositionAndCommit(w))
  <2>1. SUFFICES ASSUME worker[w].pc \in {"activate", "subtract", "revertPosition"}
                 PROVE  FALSE
    BY DEF ActivateAndCommit, SubtractAndCommit, RevertPositionAndCommit, WorkerAt
  <2>2. worker[w] \in Worker /\ worker[w].item \in Requests /\ worker[w].item \notin Approvals
    BY <2>1 DEF TypeOK, Worker, HoldingPCs, WorkerFounding
  <2>. PICK r \in Deposits \cup Withdrawals : r = worker[w].item
    BY <2>2 DEF Requests
  <2>3. txn[r].status # "NONE"
    BY <2>1, <2>2 DEF WorkerInv, HolderKnowsRow, RowInv, RowKnowsChain
  <2>. QED
    BY <2>3 DEF FoundingKnown, Unborn
<1>. QED
  BY <1>1, <1>2
  DEF ReconcileStep, WorkerFails, ItemThrows, RunAborts, UnchangedDatabase,
      ReconcileStart, StaleMarkFailed, StaleReadPosition,
      ListPending, ReceiptMissing, ConfirmApproval, ConfirmDeposit, ConfirmWithdraw,
      SubtractRead, HandleReverted, ReconcileEnd

LEMMA HandlerLone ==
    ASSUME EarnInv, AmountsInv, FoundingInv, LoneInv, \A r, s \in Deposits : r = s,
           NEW r \in Requests,
           RequestArrives(r) \/ HandlerStep(r) \/ HandlerFails(r) \/ Mine(r)
    PROVE  LoneInv'
<1>0. /\ TypeOK /\ PositionAmounts /\ FoundingKnown
      /\ RowInv(r) /\ RequestAmounts(r) /\ RequestFounding(r)
  BY DEF EarnInv, AmountsInv, FoundingInv
<1>1. OthersStay(r)
  BY <1>0, HandlerFounding
<1>2. RowMoves(r)
  <2>1. RowStep(r)
    BY <1>0, DepositRowStep, WithdrawRowStep, ApprovalRowStep, FailureRowStep
    DEF RequestArrives, HandlerStep
  <2>. QED
    BY <2>1 DEF RowStep
<1>3. SomeDeposit'
  <2>1. \A q \in Deposits : txn[q].status # "NONE" => txn'[q].status # "NONE"
    BY <1>1, <1>2 DEF OthersStay, RowMoves, Requests
  <2>2. CASE position.status # "NONE"
    BY <2>1, <2>2 DEF LoneInv, SomeDeposit
  <2>3. CASE position.status = "NONE"
    BY <1>0, <2>3, HandlerOpens DEF SomeDeposit
  <2>. QED
    BY <2>2, <2>3
<1>4. ASSUME NEW q \in Deposits PROVE FoundsAlone(q)'
  <2>1. FoundsAlone(q) /\ q \in Requests
    BY DEF LoneInv, Requests
  <2>2. CASE q # r
    BY <1>1, <2>1, <2>2 DEF OthersStay, FoundsAlone
  <2>3. CASE q = r /\ DepositAdmit(r)
    <3>1. txn' = txn /\ txn[r].status = "NONE" /\ handler[r] \in Handler
      BY <1>0, <2>3 DEF DepositAdmit, At, UnchangedDatabase, TypeOK, RowInv,
                        HandlerKnowsRow, BeforeRow, NoTransaction
    <3>2. position.status = "NONE"
      BY <2>3, <3>1 DEF LoneInv, SomeDeposit
    <3>3. CASE Goto(r, "rejected")
      <4>1. handler'[r].pc = "rejected"
        BY <1>0, <3>3, GotoKeeps
      <4>. QED
        BY <2>3, <3>1, <4>1 DEF FoundsAlone
    <3>4. CASE handler' = [handler EXCEPT ![r] =
                [@ EXCEPT !.pc = "admitted", !.isNew = (position.status = "NONE"),
                          !.amount = Amount[r], !.shares = Amount[r]]]
      <4>1. handler'[r].isNew
        BY <1>0, <3>1, <3>2, <3>4 DEF TypeOK, Handler
      <4>. QED
        BY <2>3, <4>1 DEF FoundsAlone
    <3>. QED
      BY <2>3, <3>3, <3>4 DEF DepositAdmit
  <2>4. CASE q = r /\ DepositCreate(r)
    <3>1. \E pc \in {"rejected", "created"} : Goto(r, pc)
      BY <2>4 DEF DepositCreate
    <3>2. handler'[r].isNew = handler[r].isNew
      BY <1>0, <3>1, GotoKeeps DEF KeepsAmounts
    <3>. QED
      BY <2>1, <2>4, <3>2 DEF FoundsAlone, DepositCreate, At
  <2>5. CASE q = r /\ ~DepositAdmit(r) /\ ~DepositCreate(r)
    <3>1. CASE Mine(r)
      BY <2>1, <2>5, <3>1 DEF Mine, UnchangedDatabase, FoundsAlone
    <3>2. CASE ~Mine(r)
      <4>1. \/ DepositPrecheck(r) \/ DepositStep(r) \/ HandlerFails(r)
        BY <2>5, <3>2, RequestsAssumption
        DEF RequestArrives, HandlerStep, WithdrawStep, ApprovalStep,
            WithdrawRead, WithdrawReadBalance, WithdrawPrecheck, WithdrawAdmit,
            WithdrawCreate, WithdrawBroadcast, WithdrawMarkSubmitted, WithdrawAwaitReceipt,
            WithdrawMarkReverted, WithdrawReactivate, WithdrawConfirm, WithdrawSubtract,
            WithdrawCatchTransaction, WithdrawCatchPosition,
            ApprovalCreate, ApprovalSkip, ApprovalBroadcast, ApprovalMarkSubmitted,
            ApprovalAwaitReceipt, ApprovalConfirm, ApprovalMarkReverted, ApprovalRespond,
            ApprovalCatchTransaction
      <4>2. Moves(r)
        BY <1>0, <2>5, <4>1, PlainMoves, CopyMoves DEF DepositStep, HandlerFails
      <4>3. KeepsAmounts(r)
        BY <1>0, <4>2, MovesKeepAmounts
      <4>4. txn'[r].status # "NONE" => txn[r].status # "NONE"
        BY <1>0, <4>2 DEF Moves, RowInv, HandlerKnowsRow
      <4>5. handler'[r].pc # "admitted"
        <5>1. \/ \E pc \in HandlerPC \ {"admitted"} : Goto(r, pc)
              \/ HandlerThrows(r) \/ HandlerCrashes(r)
          BY <2>5, <4>1
          DEF HandlerPC, DepositPrecheck, DepositStep, DepositBroadcast, Broadcast,
              DepositMarkSubmitted, RecordHash, DepositAwaitReceipt, AwaitReceipt,
              DepositRevertPosition, DepositMarkReverted, DepositRespondReverted,
              DepositConfirm, DepositCatchTransaction, CatchTransaction,
              DepositCatchPosition, HandlerFails, BroadcastAnswerLost
        <5>2. \A pc \in HandlerPC \ {"admitted"} : Goto(r, pc) => handler'[r].pc = pc
          BY <1>0, GotoKeeps
        <5>3. handler[r] \in Handler
          BY <1>0 DEF TypeOK
        <5>4. CASE HandlerThrows(r) \/ HandlerCrashes(r)
          <6>1. PICK pc \in {"catchTransaction", "crashed"} :
                  handler' = [handler EXCEPT ![r] =
                                [@ EXCEPT !.pc = pc, !.existing = NoPosition]]
            BY <5>4 DEF HandlerThrows, HandlerCrashes
          <6>2. handler'[r] = [handler[r] EXCEPT !.pc = pc, !.existing = NoPosition]
            BY <1>0, <6>1 DEF TypeOK
          <6>. QED
            BY <5>3, <6>2 DEF Handler
        <5>. QED
          BY <5>1, <5>2, <5>4
      <4>. QED
        BY <2>1, <2>5, <4>3, <4>4, <4>5 DEF FoundsAlone, KeepsAmounts
    <3>. QED
      BY <3>1, <3>2
  <2>. QED
    BY <2>2, <2>3, <2>4, <2>5
<1>. QED
  BY <1>3, <1>4 DEF LoneInv

LEMMA NextLone ==
    ASSUME ~SlowHandlers, EarnInv, AmountsInv, FoundingInv, LoneInv,
           \A r, s \in Deposits : r = s, [Next]_vars
    PROVE  LoneInv'
<1>0. /\ TypeOK /\ FoundingKnown
      /\ \A q \in Requests : RowInv(q) /\ RequestFounding(q)
      /\ \A w \in Workers : WorkerInv(w) /\ WorkerFounding(w) /\ WorkerAmounts(w)
  BY DEF EarnInv, AmountsInv, FoundingInv
<1>1. ASSUME NEW w \in Workers, ReconcileStep(w) \/ WorkerFails(w) PROVE LoneInv'
  <2>1. UNCHANGED handler /\ \A q \in Requests : Settled(q, txn'[q])
    BY <1>0, <1>1, WorkerRowWrites
  <2>2. \A q \in Requests : txn[q].status # "NONE" => txn'[q].status # "NONE"
    BY <1>0, <2>1, StatusWrites DEF Settled
  <2>3. SomeDeposit'
    <3>1. position'.status # "NONE" => position.status # "NONE"
      BY <1>0, <1>1, WorkerOpens
    <3>. QED
      BY <2>2, <3>1 DEF LoneInv, SomeDeposit, Requests
  <2>4. ASSUME NEW q \in Deposits PROVE FoundsAlone(q)'
    <3>1. txn'[q].status # "NONE" => txn[q].status # "NONE"
      BY <1>0, <1>1, WorkerWritesRows DEF Requests
    <3>. QED
      BY <2>1, <3>1 DEF LoneInv, FoundsAlone
  <2>. QED
    BY <2>3, <2>4 DEF LoneInv
<1>2. CASE UNCHANGED vars
  BY <1>2 DEF vars, LoneInv, SomeDeposit, FoundsAlone
<1>. QED
  BY <1>1, <1>2, HandlerLone DEF Next

LEMMA InitLone == Init => LoneInv
BY DEF Init, LoneInv, SomeDeposit, FoundsAlone, Requests, NoPosition, NoTransaction, IdleHandler

\* A deposit without rivals, next to any number of approvals and workers: at rest, and
\* when nothing has failed, the position shows what the wallet holds on chain.
THEOREM LonePosition ==
    ~SlowHandlers /\ Withdrawals = {} /\ (\A r, s \in Deposits : r = s)
      => (Spec => []QuietPositionMatchesChain)
<1>. SUFFICES ASSUME ~SlowHandlers, Withdrawals = {}, \A r, s \in Deposits : r = s
              PROVE  Spec => []QuietPositionMatchesChain
  OBVIOUS
<1>1. EarnInv /\ AmountsInv /\ FoundingInv /\ LoneInv /\ [Next]_vars => LoneInv'
  BY NextLone
<1>2. FirstDepositCredited /\ LoneInv => ConfirmedDepositsApplied
  BY DEF FirstDepositCredited, LoneInv, FoundsAlone, ConfirmedDepositsApplied
<1>. QED
  BY <1>1, <1>2, InitLone, QuietPosition, FirstDeposit, Invariance,
     AmountsInvariance, FoundingInvariance, PTL DEF Spec

(***************************************************************************)
(* Part VII   One deposit and one withdrawal                               *)
(***************************************************************************)

-----------------------------------------------------------------------------
(* What is known before a step *)

\* The hypotheses of all lemmas about the pair d and w.
Pair(d, w) ==
    /\ Deposits = {d} /\ Withdrawals = {w}
    /\ EarnInv /\ AmountsInv /\ FoundingInv
    /\ Undisturbed /\ LoneInv
    /\ PairBooks(d, w) /\ PairConfirms(w)

LEMMA PairFacts ==
    ASSUME NEW d, NEW w, Pair(d, w)
    PROVE  /\ d \in Deposits /\ w \in Withdrawals /\ d \in Requests /\ w \in Requests
           /\ d # w /\ d \notin Approvals /\ w \notin Approvals
           /\ Amount[d] \in Nat \ {0} /\ Amount[w] \in Nat \ {0} /\ Taken(d, w) \in Nat
           /\ RowInv(d) /\ RowInv(w) /\ TypeOK
           /\ RequestFounding(d) /\ RequestFounding(w)
           /\ applied[d] \in {0, 1} /\ applied[w] \in {0, 1}
           /\ applied[w] = 1 => chain[w] = "success"
           /\ chain[w] # "none" => Underway(w) /\ txn[w].status # "NONE"
           /\ txn[w].status # "NONE" => Underway(w)
           /\ Underway(w) => applied[d] = 1 /\ chain[d] = "success"
           /\ applied[d] = 0 =>
                 /\ ~Underway(w) /\ txn[w].status = "NONE" /\ chain[w] = "none"
                 /\ applied[w] = 0 /\ position.shares = 0
<1>1. /\ d \in Deposits /\ w \in Withdrawals /\ d \in Requests /\ w \in Requests
      /\ d # w /\ d \notin Approvals /\ w \notin Approvals
  BY DEF Pair, Requests
<1>2. Amount[d] \in Nat \ {0} /\ Amount[w] \in Nat \ {0} /\ Taken(d, w) \in Nat
  BY <1>1 DEF Taken
<1>3. RowInv(d) /\ RowInv(w) /\ TypeOK /\ RequestFounding(d) /\ RequestFounding(w)
  BY <1>1 DEF Pair, EarnInv, FoundingInv
<1>4. /\ applied[d] \in {0, 1} /\ applied[w] \in {0, 1}
      /\ applied[w] = 1 => chain[w] = "success"
      /\ applied[d] = 1 => chain[d] = "success"
  BY <1>3 DEF RowInv, RowKnowsChain
<1>. QED
  BY <1>1, <1>2, <1>3, <1>4 DEF Pair, PairBooks

\* What the ledger's view of a step says of the bookings of the pair.
LEMMA PairMoves ==
    ASSUME NEW d, NEW w, Pair(d, w), LedgerMove
    PROVE  /\ applied'[d] = applied[d] \/ (applied'[d] = 1 /\ applied[d] = 0)
           /\ applied'[w] = applied[w] \/ (applied'[w] = 1 /\ applied[w] = 0)
           /\ applied'[w] = applied[w] =>
                 position'.shares = IF applied'[d] = applied[d] THEN position.shares
                                                                ELSE Amount[d]
           /\ applied'[w] # applied[w] => applied'[d] = applied[d] /\ chain[w] = "success"
<1>0. /\ TypeOK /\ d \in Requests /\ w \in Requests /\ d # w /\ d \in Deposits
      /\ Deposits = {d} /\ Withdrawals = {w} /\ w \in Withdrawals
      /\ applied[d] = 0 => position.shares = 0
      /\ Amount[d] \in Nat
  BY PairFacts DEF Pair
<1>1. CASE applied' = applied /\ position'.shares = position.shares
  <2>1. applied'[d] = applied[d] /\ applied'[w] = applied[w]
    BY <1>1
  <2>. QED
    BY <1>1, <2>1
<1>2. ASSUME NEW r \in Requests, Books(r)
      PROVE  /\ applied[r] = 0 /\ applied'[r] = 1 /\ chain[r] = "success"
             /\ \A q \in Requests \ {r} : applied'[q] = applied[q]
             /\ \/ r = d /\ position'.shares = position.shares + Amount[d]
                \/ r = w
  BY <1>0, <1>2 DEF Books, Apply, TypeOK
<1>3. ASSUME NEW r \in Requests, Books(r)
      PROVE  \/ /\ applied'[w] = applied[w] /\ applied[d] = 0 /\ applied'[d] = 1
                /\ position'.shares = Amount[d]
             \/ /\ applied'[d] = applied[d] /\ applied[w] = 0 /\ applied'[w] = 1
                /\ chain[w] = "success"
  <2>1. CASE r = d /\ position'.shares = position.shares + Amount[d]
    BY <1>0, <1>2, <1>3, <2>1
  <2>2. CASE r = w
    BY <1>0, <1>2, <1>3, <2>2
  <2>. QED
    BY <1>2, <1>3, <2>1, <2>2
<1>4. CASE \E r \in Requests : Books(r)
  BY <1>3, <1>4
<1>. QED
  BY <1>1, <1>4 DEF LedgerMove, Sends, Settles

-----------------------------------------------------------------------------
(* The steps of the deposit *)

\* What a deposit can do to the position.
PositionByDeposit(r) ==
    \/ position' = position
    \/ position'.status = "PENDING" /\ applied[r] = 0
    \/ position'.status = "FAILED" /\ (chain[r] = "reverted" \/ handler[r].pc = "catchPosition")
    \/ applied[r] = 0 /\ applied'[r] = 1

LEMMA DepositPosition ==
    ASSUME TypeOK, NEW r \in Deposits, RowInv(r),
           RequestArrives(r) \/ HandlerStep(r) \/ HandlerFails(r) \/ Mine(r)
    PROVE  PositionByDeposit(r)
<1>0. r \in Requests /\ position \in Position /\ r \notin Withdrawals /\ r \notin Approvals
  BY DEF TypeOK, Requests
<1>1. CASE DepositCreate(r)
  <2>1. applied[r] = 0
    BY <1>1 DEF DepositCreate, At, RowInv, HandlerKnowsRow, BeforeRow
  <2>. QED
    BY <1>1, <2>1 DEF DepositCreate, CreatePending, NoPosition, PositionByDeposit
<1>2. CASE DepositRevertPosition(r) \/ DepositCatchPosition(r)
  BY <1>0, <1>2, PositionStatuses
  DEF DepositRevertPosition, DepositCatchPosition, At, RowInv, HandlerKnowsRow,
      AfterRevert, PositionByDeposit
<1>3. CASE DepositConfirm(r)
  BY <1>0, <1>3 DEF DepositConfirm, CreditsDeposit, Confirmable, UnchangedDatabase, Apply,
                    TypeOK, RowInv, RowKnowsChain, PositionByDeposit
<1>4. CASE position' = position
  BY <1>4 DEF PositionByDeposit
<1>. QED
  BY <1>0, <1>1, <1>2, <1>3, <1>4, StepOfItsKind
  DEF RequestArrives, HandlerStep, HandlerFails, DepositStep, UnchangedDatabase,
      HandlerThrows, HandlerCrashes, BroadcastAnswerLost, Mine,
      RecordHash, Broadcast, AwaitReceipt, CatchTransaction,
      DepositPrecheck, DepositAdmit, DepositBroadcast, DepositMarkSubmitted,
      DepositAwaitReceipt, DepositMarkReverted, DepositRespondReverted,
      DepositCatchTransaction

LEMMA PairDepositStep ==
    ASSUME NEW d, NEW w, Pair(d, w), LedgerMove,
           RequestArrives(d) \/ HandlerStep(d) \/ HandlerFails(d) \/ Mine(d)
    PROVE  PairBooks(d, w)' /\ PairConfirms(w)'
<1>0. /\ TypeOK /\ d \in Requests /\ w \in Requests /\ d # w /\ d \in Deposits
      /\ RowInv(d) /\ FoundingKnown /\ RequestFounding(d) /\ RowMoves(d) /\ RowInv(d)'
      /\ PositionAmounts /\ RequestAmounts(d)
      /\ FullWithdrawals \subseteq Withdrawals /\ d \notin Withdrawals
      /\ Amount[d] \in Nat \ {0}
  <2>1. RowStep(d)
    BY PairFacts, DepositRowStep, WithdrawRowStep, ApprovalRowStep, FailureRowStep
    DEF RequestArrives, HandlerStep
  <2>. QED
    BY <2>1, PairFacts DEF Pair, EarnInv, AmountsInv, FoundingInv, RowStep
<1>1. /\ txn'[w] = txn[w] /\ handler'[w] = handler[w] /\ chain'[w] = chain[w]
      /\ applied'[w] = applied[w] /\ UNCHANGED worker
  BY <1>0, HandlerFounding, HandlerAmounts DEF OthersStay
<1>2. PositionByDeposit(d)
  BY <1>0, DepositPosition
<1>3. applied'[d] = applied[d] \/ (applied'[d] = 1 /\ applied[d] = 0)
  BY PairMoves
<1>4. position'.shares = IF applied'[d] = applied[d] THEN position.shares ELSE Amount[d]
  BY <1>1, PairMoves
<1>5. Underway(w)' <=> Underway(w)
  BY <1>1 DEF Underway
<1>6. onChain' = IF chain'[w] = "success" THEN Amount[d] - Taken(d, w)
                 ELSE IF chain'[d] = "success" THEN Amount[d] ELSE 0
  <2>1. CASE UNCHANGED <<chain, onChain>>
    BY <2>1 DEF Pair, PairBooks
  <2>2. CASE Sent(d)
    <3>1. chain'[d] = "pending" /\ chain[d] = "none" /\ onChain' = onChain
      BY <1>0, <2>2 DEF Sent, TypeOK
    <3>. QED
      BY <1>1, <3>1 DEF Pair, PairBooks
  <2>3. CASE Mine(d)
    <3>1. chain[d] = "pending" /\ chain[w] = "none" /\ onChain = 0
      <4>1. chain[d] = "pending"
        BY <2>3 DEF Mine
      <4>2. chain[w] = "none"
        BY <4>1, PairFacts
      <4>. QED
        BY <4>1, <4>2 DEF Pair, PairBooks
    <3>2. \/ chain'[d] = "success" /\ onChain' = onChain + Amount[d]
          \/ chain'[d] = "reverted" /\ onChain' = onChain
      BY <1>0, <2>3 DEF Mine, OnChainAfter, TypeOK
    <3>. QED
      BY <1>0, <1>1, <3>1, <3>2
  <2>. QED
    BY <1>0, <2>1, <2>2, <2>3, HandlerOnChain
<1>7. PairBooks(d, w)'
  <2>1. Underway(w) \/ position'.status \in {"ACTIVE", "WITHDRAWING", "CLOSED"}
           => applied'[d] = 1
    BY <1>2, <1>3 DEF PositionByDeposit, Pair, PairBooks
  <2>2. position'.shares = IF applied'[w] = 1 THEN Amount[d] - Taken(d, w)
                           ELSE IF applied'[d] = 1 THEN Amount[d] ELSE 0
    <3>1. CASE applied'[d] = applied[d]
      BY <1>1, <1>4, <3>1 DEF Pair, PairBooks
    <3>2. CASE applied'[d] = 1 /\ applied[d] = 0
      BY <1>1, <1>4, <3>2, PairFacts
    <3>. QED
      BY <1>3, <3>1, <3>2
  <2>. QED
    BY <1>1, <1>5, <1>6, <2>1, <2>2 DEF Pair, PairBooks, Taken
<1>8. PairConfirms(w)'
  <2>. SUFFICES ASSUME faults' = 0
                PROVE  /\ txn[w].status # "NONE" /\ applied[w] = 0 /\ chain[w] # "reverted" =>
                             position'.status = "WITHDRAWING"
                       /\ txn[w].status = "CONFIRMED" => applied[w] = 1
    BY <1>1 DEF PairConfirms
  <2>1. faults = 0
    BY <1>0, NoFault
  <2>2. handler[d].pc # "catchPosition"
    BY <1>0, <2>1 DEF Pair, Undisturbed, SeenThrough
  <2>3. txn[w].status # "NONE" => applied[d] = 1 /\ chain[d] = "success"
    BY PairFacts
  <2>4. txn[w].status # "NONE" => position' = position
    BY <1>2, <2>2, <2>3 DEF PositionByDeposit
  <2>. QED
    BY <2>1, <2>4 DEF Pair, PairConfirms
<1>. QED
  BY <1>7, <1>8

-----------------------------------------------------------------------------
(* The steps of the withdrawal *)

\* What a withdrawal can do to the position, to its row and to the bookings.
PositionByWithdraw(r) ==
    \/ /\ position' = position /\ applied' = applied
       /\ txn[r].status = "NONE" <=> txn'[r].status = "NONE"
       /\ txn'[r].status = "CONFIRMED" => txn[r].status = "CONFIRMED"
    \/ /\ position' = MarkWithdrawing(position) /\ applied' = applied
       /\ txn'[r].status = "CREATED"
    \/ /\ position' = MarkActive(position) /\ txn' = txn /\ applied' = applied
       /\ chain[r] = "reverted" \/ handler[r].pc = "catchPosition"
    \/ WithdrawSubtract(r)

LEMMA WithdrawPosition ==
    ASSUME TypeOK, NEW r \in Withdrawals, RowInv(r),
           RequestArrives(r) \/ HandlerStep(r) \/ HandlerFails(r) \/ Mine(r)
    PROVE  PositionByWithdraw(r)
<1>0. /\ r \in Requests /\ position \in Position /\ txn[r] \in Transaction
      /\ txn \in [Requests -> Transaction]
      /\ r \notin Deposits /\ r \notin Approvals
  BY DEF TypeOK, Requests
<1>1. CASE WithdrawCreate(r)
  <2>1. txn'[r].status = "CREATED"
    BY <1>0, <1>1 DEF WithdrawCreate, CreateTransaction
  <2>. QED
    BY <1>1, <2>1 DEF WithdrawCreate, PositionByWithdraw
<1>2. CASE WithdrawReactivate(r) \/ WithdrawCatchPosition(r)
  BY <1>2 DEF WithdrawReactivate, WithdrawCatchPosition, At, RowInv, HandlerKnowsRow,
              AfterRevert, PositionByWithdraw
<1>3. CASE WithdrawMarkSubmitted(r) \/ WithdrawMarkReverted(r) \/ WithdrawCatchTransaction(r)
  <2>1. position' = position /\ applied' = applied /\ txn[r].status # "NONE"
    BY <1>3 DEF WithdrawMarkSubmitted, RecordHash, WithdrawMarkReverted,
                WithdrawCatchTransaction, CatchTransaction, At, RowInv, HandlerKnowsRow,
                BeforeRow
  <2>2. txn'[r].status \in {"SUBMITTED", "REVERTED", "FAILED"}
    <3>1. CASE WithdrawMarkSubmitted(r)
      BY <1>0, <3>1 DEF WithdrawMarkSubmitted, RecordHash, MarkSubmitted, Transaction
    <3>2. CASE WithdrawMarkReverted(r)
      BY <1>0, <3>2 DEF WithdrawMarkReverted, MarkReverted
    <3>3. CASE WithdrawCatchTransaction(r)
      BY <1>0, <3>3 DEF WithdrawCatchTransaction, CatchTransaction, MarkFailed
    <3>. QED
      BY <1>3, <3>1, <3>2, <3>3
  <2>. QED
    BY <2>1, <2>2 DEF PositionByWithdraw
<1>4. CASE UnchangedDatabase
  BY <1>4 DEF UnchangedDatabase, PositionByWithdraw
<1>5. CASE WithdrawSubtract(r)
  BY <1>5 DEF PositionByWithdraw
<1>. QED
  BY <1>0, <1>1, <1>2, <1>3, <1>4, <1>5, StepOfItsKind
  DEF RequestArrives, HandlerStep, HandlerFails, WithdrawStep,
      HandlerThrows, HandlerCrashes, BroadcastAnswerLost, Mine,
      Broadcast, AwaitReceipt, WithdrawRead, WithdrawReadBalance, WithdrawPrecheck,
      WithdrawAdmit, WithdrawBroadcast, WithdrawAwaitReceipt, WithdrawConfirm

\* A withdrawal reads the position twice: what it takes is decided before it is
\* under way, what it takes it from when it confirms.
ReadsByWithdraw(r) ==
    /\ \/ KeepsAmounts(r) /\ (Underway(r)' => Underway(r))
       \/ /\ WithdrawRead(r) /\ Withdrawable(r) /\ ~Underway(r)
          /\ handler'[r].shares = SharesToBurn(r)
    /\ handler'[r].pc = "subtract" =>
          \/ handler'[r] = handler[r]
          \/ handler'[r].existing = position /\ txn[r].status = "SUBMITTED"

LEMMA WithdrawReads ==
    ASSUME TypeOK, NEW r \in Withdrawals, RowInv(r),
           RequestArrives(r) \/ HandlerStep(r) \/ HandlerFails(r) \/ Mine(r)
    PROVE  ReadsByWithdraw(r)
<1>0. /\ r \in Requests /\ handler[r] \in Handler /\ handler \in [Requests -> Handler]
      /\ r \notin Deposits /\ r \notin Approvals
  BY DEF TypeOK, Requests
<1>1. ASSUME NEW pc, Goto(r, pc), pc # "subtract",
             handler[r].pc \notin {"idle", "rejected"} \/ pc = "rejected"
      PROVE  ReadsByWithdraw(r)
  BY <1>0, <1>1, GotoKeeps DEF ReadsByWithdraw, Underway
<1>2. CASE WithdrawRead(r)
  <2>1. CASE Goto(r, "rejected")
    BY <1>1, <2>1
  <2>2. CASE /\ Withdrawable(r)
             /\ handler' = [handler EXCEPT ![r] =
                   [@ EXCEPT !.pc = "read", !.amount = WithdrawAmount(r),
                             !.shares = SharesToBurn(r)]]
    <3>1. handler'[r] = [handler[r] EXCEPT !.pc = "read", !.amount = WithdrawAmount(r),
                                           !.shares = SharesToBurn(r)]
      BY <1>0, <2>2
    <3>2. handler'[r].pc = "read" /\ handler'[r].shares = SharesToBurn(r)
      BY <1>0, <3>1 DEF Handler
    <3>3. ~Underway(r)
      BY <1>2 DEF WithdrawRead, At, Underway
    <3>. QED
      BY <1>2, <2>2, <3>2, <3>3 DEF ReadsByWithdraw
  <2>. QED
    BY <1>2, <2>1, <2>2 DEF WithdrawRead
<1>3. CASE WithdrawConfirm(r)
  <2>1. CASE Goto(r, "done")
    BY <1>1, <1>3, <2>1 DEF WithdrawConfirm, At
  <2>2. CASE /\ Confirmable(txn[r])
             /\ handler' = [handler EXCEPT ![r] =
                   [@ EXCEPT !.pc = "subtract", !.existing = position]]
    <3>1. handler'[r] = [handler[r] EXCEPT !.pc = "subtract", !.existing = position]
      BY <1>0, <2>2
    <3>2. handler'[r].existing = position
      BY <1>0, <3>1 DEF Handler
    <3>3. KeepsAmounts(r) /\ Underway(r)
      BY <1>0, <1>3, ConfirmMoves, MovesKeepAmounts DEF WithdrawConfirm, At, Underway
    <3>. QED
      BY <2>2, <3>2, <3>3 DEF ReadsByWithdraw, Confirmable
  <2>. QED
    BY <1>3, <2>1, <2>2 DEF WithdrawConfirm
<1>4. CASE WithdrawSubtract(r) \/ HandlerThrows(r) \/ HandlerCrashes(r)
  <2>1. KeepsAmounts(r)
    BY <1>0, <1>4, CopyMoves, MovesKeepAmounts
  <2>2. Underway(r)
    BY <1>4 DEF WithdrawSubtract, HandlerThrows, HandlerCrashes, At, Underway, TryPCs, Live
  <2>3. PICK pc \in {"done", "catchTransaction", "crashed"} :
           handler'[r] = [handler[r] EXCEPT !.pc = pc, !.existing = NoPosition]
    BY <1>0, <1>4 DEF WithdrawSubtract, HandlerThrows, HandlerCrashes
  <2>4. handler'[r].pc # "subtract"
    BY <1>0, <2>3 DEF Handler
  <2>. QED
    BY <2>1, <2>2, <2>4 DEF ReadsByWithdraw
<1>5. CASE Mine(r)
  BY <1>5 DEF Mine, ReadsByWithdraw, KeepsAmounts, Underway
<1>6. CASE WithdrawReadBalance(r) \/ WithdrawPrecheck(r) \/ WithdrawAdmit(r)
           \/ WithdrawCreate(r) \/ WithdrawBroadcast(r) \/ BroadcastAnswerLost(r)
  BY <1>1, <1>6 DEF WithdrawReadBalance, WithdrawPrecheck, WithdrawAdmit, WithdrawCreate,
                    WithdrawBroadcast, Broadcast, BroadcastAnswerLost, At
<1>7. CASE WithdrawMarkSubmitted(r) \/ WithdrawAwaitReceipt(r) \/ WithdrawMarkReverted(r)
           \/ WithdrawReactivate(r) \/ WithdrawCatchTransaction(r) \/ WithdrawCatchPosition(r)
  BY <1>1, <1>7 DEF WithdrawMarkSubmitted, RecordHash, WithdrawAwaitReceipt, AwaitReceipt,
                    WithdrawMarkReverted, WithdrawReactivate, WithdrawCatchTransaction,
                    CatchTransaction, WithdrawCatchPosition, At
<1>. QED
  BY <1>0, <1>2, <1>3, <1>4, <1>5, <1>6, <1>7, StepOfItsKind
  DEF RequestArrives, HandlerStep, HandlerFails, WithdrawStep

LEMMA PairWithdrawStep ==
    ASSUME NEW d, NEW w, Pair(d, w),
           RequestArrives(w) \/ HandlerStep(w) \/ HandlerFails(w) \/ Mine(w)
    PROVE  PairBooks(d, w)' /\ PairConfirms(w)'
<1>0. /\ TypeOK /\ d \in Requests /\ w \in Requests /\ d # w /\ w \in Withdrawals
      /\ w \notin Deposits /\ RowInv(w) /\ FoundingKnown /\ RequestFounding(w)
      /\ RowMoves(w) /\ RowInv(w)' /\ PositionAmounts /\ RequestAmounts(w)
      /\ Amount[d] \in Nat \ {0} /\ Amount[w] \in Nat \ {0} /\ Taken(d, w) \in Nat
      /\ position \in Position
  <2>1. RowStep(w)
    BY PairFacts, DepositRowStep, WithdrawRowStep, ApprovalRowStep, FailureRowStep
    DEF RequestArrives, HandlerStep
  <2>. QED
    BY <2>1, PairFacts DEF Pair, EarnInv, AmountsInv, FoundingInv, RowStep, TypeOK
<1>1. /\ txn'[d] = txn[d] /\ handler'[d] = handler[d] /\ chain'[d] = chain[d]
      /\ applied'[d] = applied[d] /\ UNCHANGED worker
  BY <1>0, HandlerFounding, HandlerAmounts DEF OthersStay
<1>2. PositionByWithdraw(w)
  BY <1>0, WithdrawPosition
<1>3. ReadsByWithdraw(w)
  BY <1>0, WithdrawReads
<1>4. ASSUME Underway(w)'
      PROVE  /\ handler'[w].shares = Taken(d, w) /\ Taken(d, w) <= Amount[d]
             /\ applied'[d] = 1
  <2>1. CASE KeepsAmounts(w) /\ Underway(w)
    BY <1>1, <2>1 DEF KeepsAmounts, Pair, PairBooks
  <2>2. CASE /\ WithdrawRead(w) /\ Withdrawable(w)
             /\ handler'[w].shares = SharesToBurn(w)
    <3>1. applied[w] = 0
      BY <1>0, <2>2 DEF WithdrawRead, At, RowInv, HandlerKnowsRow, BeforeRow
    <3>2. applied[d] = 1 /\ position.shares = Amount[d]
      BY <2>2, <3>1 DEF Withdrawable, Pair, PairBooks
    <3>3. SharesToBurn(w) = Taken(d, w) /\ SharesToBurn(w) <= Amount[d]
      BY <2>2, <3>2 DEF Withdrawable, SharesToBurn, Taken
    <3>. QED
      BY <1>1, <2>2, <3>2, <3>3
  <2>. QED
    BY <1>3, <1>4, <2>1, <2>2 DEF ReadsByWithdraw
<1>5. txn'[w].status # "NONE" \/ chain'[w] # "none" =>
          Underway(w)' /\ txn'[w].status # "NONE"
  <2>1. txn'[w].status # "NONE" \/ chain'[w] # "none" => Underway(w)'
    BY <1>0 DEF Underway, RowInv, HandlerKnowsRow, BeforeRow, NoTransaction
  <2>2. ASSUME chain'[w] # "none" PROVE txn'[w].status # "NONE"
    <3>1. txn[w].status # "NONE"
      BY <1>0, <2>2, PairFacts, HandlerOnChain DEF Sent, Mine
    <3>. QED
      BY <1>0, <3>1 DEF RowMoves
  <2>. QED
    BY <2>1, <2>2
<1>6. ASSUME WithdrawSubtract(w)
      PROVE  /\ applied[w] = 0 /\ applied'[w] = 1 /\ applied[d] = 1
             /\ position'.shares = Amount[d] - Taken(d, w)
  <2>1. /\ txn[w].status = "SUBMITTED" /\ handler[w].existing.shares = Amount[d]
        /\ Underway(w)
    BY <1>0, <1>6 DEF WithdrawSubtract, At, RowInv, HandlerKnowsRow, Pair, PairBooks,
                      Underway
  <2>2. /\ applied[w] = 0 /\ applied[d] = 1 /\ handler[w].shares = Taken(d, w)
        /\ Taken(d, w) <= Amount[d]
    BY <1>0, <2>1 DEF RowInv, RowKnowsChain, Pair, PairBooks
  <2>3. applied'[w] = 1
    BY <1>0, <1>6, <2>2 DEF WithdrawSubtract, Apply, TypeOK
  <2>4. position'.shares = Amount[d] - Taken(d, w)
    BY <1>0, <1>6, <2>1, <2>2 DEF WithdrawSubtract, SubtractWithdraw, NoPosition
  <2>. QED
    BY <2>2, <2>3, <2>4
<1>7. /\ position'.shares = IF applied'[w] = 1 THEN Amount[d] - Taken(d, w)
                            ELSE IF applied'[d] = 1 THEN Amount[d] ELSE 0
      /\ position'.status \in {"ACTIVE", "WITHDRAWING", "CLOSED"} => applied'[d] = 1
  <2>1. CASE WithdrawSubtract(w)
    BY <1>1, <1>6, <2>1
  <2>2. CASE ~WithdrawSubtract(w)
    <3>1. applied' = applied /\ position'.shares = position.shares
      BY <1>0, <1>2, <2>2 DEF PositionByWithdraw, MarkWithdrawing, MarkActive, Position
    <3>2. position'.status \in {"ACTIVE", "WITHDRAWING", "CLOSED"} => applied[d] = 1
      <4>1. CASE position' = position
        BY <4>1 DEF Pair, PairBooks
      <4>2. CASE txn'[w].status = "CREATED"
        <5>1. Underway(w)'
          BY <1>5, <4>2
        <5>. QED
          BY <1>4, <3>1, <5>1
      <4>3. CASE chain[w] = "reverted" \/ handler[w].pc = "catchPosition"
        BY <1>0, <4>3, PairFacts DEF Underway
      <4>. QED
        BY <1>2, <2>2, <4>1, <4>2, <4>3 DEF PositionByWithdraw
    <3>. QED
      BY <3>1, <3>2 DEF Pair, PairBooks
  <2>. QED
    BY <2>1, <2>2
<1>8. onChain' = IF chain'[w] = "success" THEN Amount[d] - Taken(d, w)
                 ELSE IF chain'[d] = "success" THEN Amount[d] ELSE 0
  <2>1. CASE UNCHANGED <<chain, onChain>>
    BY <2>1 DEF Pair, PairBooks
  <2>2. CASE Sent(w)
    <3>1. chain'[w] = "pending" /\ chain[w] = "none" /\ onChain' = onChain
      BY <1>0, <2>2 DEF Sent, TypeOK
    <3>. QED
      BY <1>1, <3>1 DEF Pair, PairBooks
  <2>3. CASE Mine(w)
    <3>1. chain[w] = "pending" /\ chain[d] = "success" /\ onChain = Amount[d]
      <4>1. chain[w] = "pending"
        BY <2>3 DEF Mine
      <4>2. chain[d] = "success"
        BY <4>1, PairFacts
      <4>. QED
        BY <4>1, <4>2 DEF Pair, PairBooks
    <3>2. w \notin FullWithdrawals => txn[w].amount = Taken(d, w)
      <4>1. txn[w].status # "NONE" /\ Underway(w)
        BY <3>1, PairFacts
      <4>2. handler[w].shares = Taken(d, w) /\ w \notin Approvals
        BY <4>1, PairFacts DEF Pair, PairBooks
      <4>. QED
        BY <1>0, <4>1, <4>2 DEF RequestAmounts
    <3>3. \/ chain'[w] = "reverted" /\ onChain' = onChain
          \/ chain'[w] = "success" /\ onChain' = Amount[d] - Taken(d, w)
      <4>1. w \in FullWithdrawals => Amount[d] - Taken(d, w) = 0
        BY <1>0 DEF Taken
      <4>2. chain \in [Requests -> ChainStatus]
        BY <1>0 DEF TypeOK
      <4>. QED
        BY <1>0, <2>3, <3>1, <3>2, <4>1, <4>2 DEF Mine, OnChainAfter
    <3>. QED
      BY <1>1, <3>1, <3>3
  <2>. QED
    BY <1>0, <2>1, <2>2, <2>3, HandlerOnChain
<1>9. handler'[w].pc = "subtract" => handler'[w].existing.shares = Amount[d]
  <2>1. CASE handler'[w] = handler[w]
    BY <2>1 DEF Pair, PairBooks
  <2>2. CASE handler'[w].existing = position /\ txn[w].status = "SUBMITTED"
    <3>1. applied[w] = 0 /\ applied[d] = 1
      BY <1>0, <2>2, PairFacts DEF RowInv, RowKnowsChain
    <3>. QED
      BY <2>2, <3>1 DEF Pair, PairBooks
  <2>. QED
    BY <1>3, <2>1, <2>2 DEF ReadsByWithdraw
<1>10. PairBooks(d, w)'
  <2>1. \A v \in Workers : worker'[v].pc = "subtract" => worker'[v].existing.shares = Amount[d]
    BY <1>1 DEF Pair, PairBooks
  <2>. QED
    BY <1>4, <1>5, <1>7, <1>8, <1>9, <2>1 DEF PairBooks, Taken
<1>11. PairConfirms(w)'
  <2>. SUFFICES ASSUME faults' = 0
                PROVE  /\ txn'[w].status # "NONE" /\ applied'[w] = 0 /\ chain'[w] # "reverted"
                             => position'.status = "WITHDRAWING"
                       /\ txn'[w].status = "CONFIRMED" => applied'[w] = 1
    BY DEF PairConfirms
  <2>1. faults = 0
    BY <1>0, NoFault
  <2>2. handler[w].pc # "catchPosition"
    BY <1>0, <2>1 DEF Pair, Undisturbed, SeenThrough
  <2>3. chain[w] = "reverted" => chain'[w] = "reverted"
    BY <1>0 DEF RowMoves
  <2>4. CASE /\ position' = position /\ applied' = applied
             /\ txn[w].status = "NONE" <=> txn'[w].status = "NONE"
             /\ txn'[w].status = "CONFIRMED" => txn[w].status = "CONFIRMED"
    BY <2>1, <2>3, <2>4 DEF Pair, PairConfirms
  <2>5. CASE position' = MarkWithdrawing(position) /\ txn'[w].status = "CREATED"
    BY <1>0, <2>5, PositionStatuses
  <2>6. CASE chain[w] = "reverted" /\ txn' = txn /\ applied' = applied
    BY <2>1, <2>3, <2>6 DEF Pair, PairConfirms
  <2>7. CASE WithdrawSubtract(w)
    BY <1>6, <2>7
  <2>. QED
    BY <1>2, <2>2, <2>4, <2>5, <2>6, <2>7 DEF PositionByWithdraw
<1>. QED
  BY <1>10, <1>11

-----------------------------------------------------------------------------
(* The steps of an approval *)

LEMMA PairApprovalStep ==
    ASSUME NEW d, NEW w, Pair(d, w), NEW r \in Approvals,
           RequestArrives(r) \/ HandlerStep(r) \/ HandlerFails(r) \/ Mine(r)
    PROVE  PairBooks(d, w)' /\ PairConfirms(w)'
<1>0. /\ TypeOK /\ r \in Requests /\ d \in Requests /\ w \in Requests /\ r # d /\ r # w
      /\ r \notin Deposits /\ r \notin Withdrawals /\ r \notin FullWithdrawals
      /\ RowInv(r) /\ FoundingKnown /\ RequestFounding(r)
      /\ PositionAmounts /\ RequestAmounts(r)
  <2>1. r \in Requests /\ r \notin Deposits /\ r \notin Withdrawals
    BY DEF Requests
  <2>. QED
    BY <2>1, PairFacts DEF Pair, EarnInv, AmountsInv, FoundingInv
<1>1. /\ txn'[d] = txn[d] /\ handler'[d] = handler[d] /\ chain'[d] = chain[d]
      /\ applied'[d] = applied[d]
      /\ txn'[w] = txn[w] /\ handler'[w] = handler[w] /\ chain'[w] = chain[w]
      /\ applied'[w] = applied[w] /\ UNCHANGED worker
  BY <1>0, HandlerFounding, HandlerAmounts DEF OthersStay
<1>2. onChain' = onChain
  BY <1>0, HandlerOnChain DEF Sent, Mine, OnChainAfter
<1>3. position' = position
  BY <1>0, StepOfItsKind
  DEF RequestArrives, HandlerStep, HandlerFails, ApprovalStep, UnchangedDatabase,
      HandlerThrows, HandlerCrashes, BroadcastAnswerLost, Mine,
      RecordHash, Broadcast, AwaitReceipt, CatchTransaction,
      ApprovalCreate, ApprovalSkip, ApprovalBroadcast, ApprovalMarkSubmitted,
      ApprovalAwaitReceipt, ApprovalConfirm, ApprovalMarkReverted, ApprovalRespond,
      ApprovalCatchTransaction
<1>4. faults' = 0 => faults = 0
  BY <1>0, NoFault
<1>. QED
  BY <1>1, <1>2, <1>3, <1>4 DEF Pair, PairBooks, PairConfirms, Underway, Taken

-----------------------------------------------------------------------------
(* The steps of the workers *)

\* Only the read of subtractWithdraw leads to its write.
LEMMA WorkerReads ==
    ASSUME TypeOK, NEW w \in Workers, ListsAreRows(w), ReconcileStep(w) \/ WorkerFails(w)
    PROVE  /\ worker'[w].pc = "subtract" =>
                 SubtractRead(w) /\ worker'[w].existing = position
           /\ \A v \in Workers \ {w} : worker'[v] = worker[v]
<1>0. worker[w] \in Worker
  BY DEF TypeOK
<1>1. ASSUME NEW new, SetWorker(w, new), new.pc # "subtract"
      PROVE  worker'[w].pc # "subtract" /\ \A v \in Workers \ {w} : worker'[v] = worker[v]
  BY <1>1, SetWorkerAt
<1>2. CASE SubtractRead(w)
  <2>. DEFINE new == [worker[w] EXCEPT !.pc = "subtract", !.existing = position]
  <2>1. new.existing = position
    BY <1>0 DEF Worker
  <2>2. SetWorker(w, new)
    BY <1>2 DEF SubtractRead
  <2>. HIDE DEF new
  <2>. QED
    BY <1>2, <2>1, <2>2, SetWorkerAt
<1>3. CASE ReconcileStart(w) \/ ReconcileEnd(w) \/ RunAborts(w)
  <2>1. /\ IdleWorker.pc = "idle"
        /\ [IdleWorker EXCEPT !.pc = "stale", !.stale = StaleRows].pc = "stale"
    BY DEF IdleWorker
  <2>. QED
    BY <1>1, <1>3, <2>1 DEF ReconcileStart, ReconcileEnd, RunAborts
<1>4. ASSUME NEW r \in Requests, StaleMarkFailed(w, r)
      PROVE  worker'[w].pc # "subtract" /\ \A v \in Workers \ {w} : worker'[v] = worker[v]
  <2>. DEFINE new == [worker[w] EXCEPT
                        !.stale = @ \ {r},
                        !.pc = IF r \in Deposits THEN "staleRead" ELSE "stale"]
  <2>1. SetWorker(w, new)
    BY <1>4 DEF StaleMarkFailed
  <2>2. new.pc # "subtract"
    BY <1>0 DEF Worker
  <2>. HIDE DEF new
  <2>. QED
    BY <1>1, <2>1, <2>2
<1>5. CASE StaleReadPosition(w) \/ StaleFailPosition(w)
  <2>1. PICK pc \in {"stale", "staleFail"} : SetWorker(w, [worker[w] EXCEPT !.pc = pc])
    BY <1>5 DEF StaleReadPosition, StaleFailPosition
  <2>2. [worker[w] EXCEPT !.pc = pc].pc = pc
    BY <1>0 DEF Worker
  <2>. QED
    BY <1>1, <2>1, <2>2
<1>6. CASE ListPending(w)
  <2>. DEFINE new == [worker[w] EXCEPT
                        !.pc = "pending",
                        !.pending = {q \in Requests : IsPendingReconciliation(txn[q])}]
  <2>1. new.pc = "pending"
    BY <1>0 DEF Worker
  <2>2. SetWorker(w, new)
    BY <1>6 DEF ListPending
  <2>. HIDE DEF new
  <2>. QED
    BY <1>1, <2>1, <2>2
<1>7. CASE ActivateAndCommit(w) \/ SubtractAndCommit(w) \/ RevertPositionAndCommit(w)
  <2>1. NextItem(w).pc = "pending"
    BY <1>0 DEF NextItem, Worker
  <2>. QED
    BY <1>1, <1>7, <2>1 DEF ActivateAndCommit, SubtractAndCommit, RevertPositionAndCommit
<1>8. CASE ItemThrows(w)
  <2>1. \/ SetWorker(w, NextItem(w))
        \/ WorkerAt(w, "pending") /\ \E r \in Requests : SetWorker(w, DropItem(w, r))
    BY <1>0, <1>8 DEF ItemThrows, Worker
  <2>2. /\ NextItem(w).pc = "pending"
        /\ \A r \in Requests : DropItem(w, r).pc = worker[w].pc
    BY <1>0 DEF NextItem, DropItem, Worker
  <2>. QED
    BY <1>1, <2>1, <2>2 DEF WorkerAt
<1>9. ASSUME NEW r \in Requests,
             \/ ReceiptMissing(w, r) \/ ConfirmApproval(w, r) \/ ConfirmDeposit(w, r)
             \/ ConfirmWithdraw(w, r) \/ HandleReverted(w, r)
      PROVE  worker'[w].pc # "subtract" /\ \A v \in Workers \ {w} : worker'[v] = worker[v]
  <2>1. /\ WorkerAt(w, "pending")
        /\ \/ SetWorker(w, DropItem(w, r))
           \/ \E pc \in {"activate", "withdrawing", "revertPosition"} :
                 SetWorker(w, Hold(w, r, pc))
    BY <1>9 DEF ReceiptMissing, ConfirmApproval, ConfirmDeposit, ConfirmWithdraw,
                HandleReverted, Reconcilable
  <2>2. /\ DropItem(w, r).pc = worker[w].pc
        /\ \A pc \in WorkerPC : Hold(w, r, pc).pc = pc
    BY <1>0 DEF Hold, DropItem, Worker
  <2>. QED
    BY <1>1, <2>1, <2>2 DEF WorkerAt, WorkerPC
<1>. QED
  BY <1>2, <1>3, <1>4, <1>5, <1>6, <1>7, <1>8, <1>9 DEF ReconcileStep, WorkerFails

\* What a worker can do to the position, to the row of a withdrawal and to the
\* bookings.
PositionByWorker(v) ==
    LET r == worker[v].item IN
    \/ position' = position /\ applied' = applied
    \/ /\ position' = MarkPositionFailed(position) /\ applied' = applied
       /\ worker[v].pc = "staleFail" \/ (r \in Deposits /\ chain[r] = "reverted")
    \/ /\ position' = MarkActive(position) /\ applied' = applied
       /\ r \in Withdrawals /\ chain[r] = "reverted" /\ txn[r].hash
    \/ ActivateAndCommit(v)
    \/ SubtractAndCommit(v)

LEMMA WorkerPosition ==
    ASSUME TypeOK, NEW v \in Workers, WorkerInv(v), WorkerFounding(v),
           ReconcileStep(v) \/ WorkerFails(v)
    PROVE  PositionByWorker(v)
<1>1. CASE StaleFailPosition(v)
  BY <1>1 DEF StaleFailPosition, WorkerAt, PositionByWorker
<1>2. CASE RevertPositionAndCommit(v)
  <2>1. worker[v].item \in Deposits \cup Withdrawals
    BY <1>2 DEF RevertPositionAndCommit, WorkerAt, WorkerFounding, HoldingPCs, TypeOK, Worker,
                Requests
  <2>. QED
    BY <1>2, <2>1 DEF RevertPositionAndCommit, WorkerAt, WorkerInv, HolderKnowsRow,
                      PositionByWorker
<1>3. CASE ActivateAndCommit(v) \/ SubtractAndCommit(v)
  BY <1>3 DEF PositionByWorker
<1>4. CASE position' = position /\ applied' = applied
  BY <1>4 DEF PositionByWorker
<1>. QED
  BY <1>1, <1>2, <1>3, <1>4
  DEF ReconcileStep, WorkerFails, ItemThrows, RunAborts, UnchangedDatabase,
      ReconcileStart, StaleMarkFailed, StaleReadPosition, ListPending, ReceiptMissing,
      ConfirmApproval, ConfirmDeposit, ConfirmWithdraw, SubtractRead, HandleReverted,
      ReconcileEnd

\* A withdrawal a worker confirms is subtracted, or its position was not waiting.
LEMMA WorkerConfirms ==
    ASSUME TypeOK, NEW v \in Workers, WorkerFounding(v),
           ReconcileStep(v) \/ WorkerFails(v), NEW r \in Withdrawals,
           txn'[r].status = "CONFIRMED"
    PROVE  \/ txn[r].status = "CONFIRMED"
           \/ SubtractAndCommit(v) /\ worker[v].item = r
           \/ /\ txn[r].status = "SUBMITTED" /\ chain[r] = "success"
              /\ position.status # "WITHDRAWING" /\ faults' = faults
<1>0. /\ r \in Requests /\ r \notin Deposits /\ r \notin Approvals
      /\ txn \in [Requests -> Transaction]
  BY DEF TypeOK, Requests
<1>1. ASSUME NEW q \in Requests, StaleMarkFailed(v, q) \/ HandleReverted(v, q)
      PROVE  txn[r].status = "CONFIRMED"
  BY <1>0, <1>1 DEF StaleMarkFailed, HandleReverted, MarkFailed, MarkReverted
<1>2. ASSUME NEW q \in Requests, ConfirmApproval(v, q) \/ ConfirmDeposit(v, q)
      PROVE  txn[r].status = "CONFIRMED"
  BY <1>0, <1>2 DEF ConfirmApproval, ConfirmDeposit, UnchangedDatabase
<1>3. ASSUME NEW q \in Requests, ConfirmWithdraw(v, q)
      PROVE  \/ txn[r].status = "CONFIRMED"
             \/ /\ txn[r].status = "SUBMITTED" /\ chain[r] = "success"
                /\ position.status # "WITHDRAWING" /\ faults' = faults
  <2>1. CASE q = r
    BY <1>3, <2>1 DEF ConfirmWithdraw, Confirmable, Reconcilable, UnchangedDatabase
  <2>2. CASE q # r
    BY <1>0, <1>3, <2>2 DEF ConfirmWithdraw, UnchangedDatabase
  <2>. QED
    BY <2>1, <2>2
<1>4. CASE ActivateAndCommit(v) \/ RevertPositionAndCommit(v)
  <2>1. ActivateAndCommit(v) => worker[v].item # r
    BY <1>0 DEF ActivateAndCommit, WorkerAt, WorkerFounding, Founder
  <2>. QED
    BY <1>0, <1>4, <2>1 DEF ActivateAndCommit, RevertPositionAndCommit, MarkReverted
<1>5. CASE SubtractAndCommit(v)
  BY <1>0, <1>5 DEF SubtractAndCommit
<1>6. CASE UNCHANGED txn
  BY <1>6
<1>. QED
  BY <1>1, <1>2, <1>3, <1>4, <1>5, <1>6
  DEF ReconcileStep, WorkerFails, ItemThrows, RunAborts, UnchangedDatabase,
      ReconcileStart, StaleReadPosition, StaleFailPosition, ListPending, ReceiptMissing,
      SubtractRead, ReconcileEnd

LEMMA PairWorkerStep ==
    ASSUME NEW d, NEW w, Pair(d, w), LedgerMove, NEW v \in Workers,
           ReconcileStep(v) \/ WorkerFails(v)
    PROVE  PairBooks(d, w)' /\ PairConfirms(w)'
<1>0. /\ TypeOK /\ d \in Requests /\ w \in Requests /\ d # w /\ w \in Withdrawals
      /\ Deposits = {d} /\ Withdrawals = {w} /\ w \notin Approvals /\ w \notin Deposits
      /\ RowInv(d) /\ RowInv(w) /\ WorkerInv(v) /\ WorkerFounding(v) /\ WorkerAmounts(v)
      /\ \A q \in Requests : RowInv(q)
      /\ RequestAmounts(w) /\ PositionAmounts /\ position \in Position
      /\ Amount[d] \in Nat \ {0} /\ Taken(d, w) \in Nat
  BY PairFacts DEF Pair, EarnInv, AmountsInv, FoundingInv, TypeOK
<1>1. UNCHANGED <<handler, chain, onChain>> /\ Settled(w, txn'[w])
  BY <1>0, WorkerOnChain, WorkerRowWrites
<1>2. /\ PositionByWorker(v)
      /\ worker'[v].pc = "subtract" => SubtractRead(v) /\ worker'[v].existing = position
      /\ \A u \in Workers \ {v} : worker'[u] = worker[u]
  BY <1>0, WorkerPosition, WorkerReads DEF WorkerInv
<1>3. txn'[w].status = "NONE" <=> txn[w].status = "NONE"
  <2>1. txn[w].status = "NONE" => txn'[w].status = "NONE"
    BY <1>0, WorkerWritesRows
  <2>2. txn[w].status # "NONE" => txn'[w].status # "NONE"
    BY <1>0, <1>1, StatusWrites DEF Settled
  <2>. QED
    BY <2>1, <2>2
<1>4. ASSUME ActivateAndCommit(v)
      PROVE  /\ applied[d] = 0 /\ applied'[d] = 1 /\ applied'[w] = 0
             /\ position'.shares = Amount[d]
             /\ ~Underway(w) /\ txn[w].status = "NONE"
  <2>1. worker[v].item = d /\ txn[d].status = "SUBMITTED"
    BY <1>0, <1>4 DEF ActivateAndCommit, WorkerAt, WorkerFounding, Founder, WorkerInv,
                      HolderKnowsRow
  <2>2. applied[d] = 0 /\ Apply(d)
    BY <1>0, <1>4, <2>1 DEF ActivateAndCommit, RowInv, RowKnowsChain
  <2>3. applied'[d] = 1 /\ applied'[w] = applied[w]
    BY <1>0, <2>2 DEF Apply, TypeOK
  <2>4. applied[w] = 0 /\ ~Underway(w) /\ txn[w].status = "NONE"
    BY <2>2, PairFacts
  <2>5. position'.shares = Amount[d]
    BY <2>2, <2>3, PairMoves
  <2>. QED
    BY <2>2, <2>3, <2>4, <2>5
<1>5. ASSUME SubtractAndCommit(v)
      PROVE  /\ applied[w] = 0 /\ applied'[w] = 1 /\ applied[d] = 1 /\ applied'[d] = 1
             /\ position'.shares = Amount[d] - Taken(d, w)
  <2>1. worker[v].item = w /\ txn[w].status = "SUBMITTED" /\ worker[v].pc = "subtract"
    BY <1>0, <1>5 DEF SubtractAndCommit, WorkerAt, WorkerFounding, WorkerInv, HolderKnowsRow
  <2>2. /\ applied[w] = 0 /\ applied[d] = 1 /\ handler[w].shares = Taken(d, w)
        /\ Taken(d, w) <= Amount[d] /\ worker[v].existing.shares = Amount[d]
    BY <1>0, <2>1, PairFacts DEF RowInv, RowKnowsChain, Pair, PairBooks
  <2>3. txn[w].shares = Taken(d, w)
    BY <1>0, <2>1, <2>2 DEF RequestAmounts, IsOpen
  <2>4. applied'[w] = 1 /\ applied'[d] = applied[d]
    BY <1>0, <1>5, <2>1, <2>2 DEF SubtractAndCommit, Apply, TypeOK
  <2>5. position'.shares = Amount[d] - Taken(d, w)
    BY <1>0, <1>5, <2>1, <2>2, <2>3 DEF SubtractAndCommit, SubtractWithdraw, NoPosition
  <2>. QED
    BY <2>2, <2>4, <2>5
<1>6. /\ position'.shares = IF applied'[w] = 1 THEN Amount[d] - Taken(d, w)
                            ELSE IF applied'[d] = 1 THEN Amount[d] ELSE 0
      /\ Underway(w) \/ position'.status \in {"ACTIVE", "WITHDRAWING", "CLOSED"}
            => applied'[d] = 1
  <2>1. CASE ActivateAndCommit(v) \/ SubtractAndCommit(v)
    BY <1>4, <1>5, <2>1
  <2>2. CASE position' = position /\ applied' = applied
    BY <2>2 DEF Pair, PairBooks
  <2>3. CASE position' = MarkPositionFailed(position) /\ applied' = applied
    <3>1. position'.status = "FAILED" /\ position'.shares = position.shares
      BY <1>0, <2>3 DEF MarkPositionFailed, Position
    <3>. QED
      BY <2>3, <3>1 DEF Pair, PairBooks
  <2>4. CASE /\ position' = MarkActive(position) /\ applied' = applied
             /\ worker[v].item \in Withdrawals /\ chain[worker[v].item] = "reverted"
    <3>1. position'.shares = position.shares
      BY <1>0, <2>4 DEF MarkActive, Position
    <3>2. applied[d] = 1
      BY <1>0, <2>4, PairFacts
    <3>. QED
      BY <2>4, <3>1, <3>2 DEF Pair, PairBooks
  <2>. QED
    BY <1>2, <2>1, <2>2, <2>3, <2>4 DEF PositionByWorker
<1>7. ASSUME NEW u \in Workers, worker'[u].pc = "subtract"
      PROVE  worker'[u].existing.shares = Amount[d]
  <2>1. CASE u # v
    BY <1>2, <1>7, <2>1 DEF Pair, PairBooks
  <2>2. CASE u = v
    <3>1. SubtractRead(v) /\ worker'[v].existing = position
      BY <1>2, <1>7, <2>2
    <3>2. txn[w].status = "SUBMITTED"
      BY <1>0, <3>1 DEF SubtractRead, WorkerAt, WorkerFounding, WorkerInv, HolderKnowsRow
    <3>3. applied[w] = 0 /\ applied[d] = 1
      BY <1>0, <3>2, PairFacts DEF RowInv, RowKnowsChain
    <3>4. position.shares = Amount[d]
      BY <3>3 DEF Pair, PairBooks
    <3>. QED
      BY <2>2, <3>1, <3>4
  <2>. QED
    BY <2>1, <2>2
<1>8. PairBooks(d, w)'
  <2>1. Underway(w)' <=> Underway(w)
    BY <1>1 DEF Underway
  <2>. QED
    BY <1>1, <1>3, <1>6, <1>7, <2>1 DEF Pair, PairBooks, Taken
<1>9. ASSUME faults' = 0 PROVE faults = 0 /\ worker[v].pc # "staleFail"
  <2>1. ~Fault
    BY <1>0, <1>9 DEF TypeOK, Fault
  <2>2. ~WorkerFails(v)
    BY <2>1 DEF WorkerFails, ItemThrows, RunAborts
  <2>3. faults' = faults
    BY <2>2
    DEF ReconcileStep, ReconcileStart, StaleMarkFailed, StaleReadPosition,
        StaleFailPosition, ListPending, ReceiptMissing, ConfirmApproval, ConfirmDeposit,
        ConfirmWithdraw, ActivateAndCommit, SubtractRead, SubtractAndCommit,
        HandleReverted, RevertPositionAndCommit, ReconcileEnd
  <2>. QED
    BY <1>9, <2>3 DEF Pair, Undisturbed, NothingStale
<1>10. ASSUME faults' = 0, txn[w].status # "NONE", applied'[w] = 0, chain[w] # "reverted"
       PROVE  position'.status = "WITHDRAWING"
  <2>1. faults = 0 /\ worker[v].pc # "staleFail"
    BY <1>9, <1>10
  <2>2. applied[d] = 1 /\ chain[d] = "success"
    BY <1>10, PairFacts
  <2>3. position' = position /\ applied' = applied
    BY <1>0, <1>2, <1>4, <1>5, <1>10, <2>1, <2>2 DEF PositionByWorker
  <2>. QED
    BY <1>10, <2>1, <2>3 DEF Pair, PairConfirms
<1>11. ASSUME faults' = 0, txn'[w].status = "CONFIRMED"
       PROVE  applied'[w] = 1
  <2>1. CASE txn[w].status = "CONFIRMED"
    <3>1. applied[w] = 1
      BY <1>9, <1>11, <2>1 DEF Pair, PairConfirms
    <3>. QED
      BY <3>1, PairMoves
  <2>2. CASE SubtractAndCommit(v)
    BY <1>5, <2>2
  <2>3. CASE /\ txn[w].status = "SUBMITTED" /\ chain[w] = "success"
             /\ position.status # "WITHDRAWING"
    <3>1. applied[w] = 0
      BY <1>0, <2>3 DEF RowInv, RowKnowsChain
    <3>. QED
      BY <1>9, <1>11, <2>3, <3>1 DEF Pair, PairConfirms
  <2>. QED
    BY <1>0, <1>11, <2>1, <2>2, <2>3, WorkerConfirms
<1>12. PairConfirms(w)'
  BY <1>1, <1>3, <1>10, <1>11 DEF PairConfirms
<1>. QED
  BY <1>8, <1>12

-----------------------------------------------------------------------------
(* The books of the pair are exact *)

LEMMA InitPair == Init => PairInv
BY DEF Init, PairInv, PairBooks, PairConfirms, Underway, Requests, NoPosition, NoTransaction,
       IdleHandler, IdleWorker

LEMMA NextPair ==
    ASSUME NEW d, NEW w, Deposits = {d}, Withdrawals = {w}, ~SlowHandlers,
           EarnInv, EarnInv', AmountsInv, FoundingInv, Undisturbed, LoneInv, PairInv,
           [Next]_vars
    PROVE  PairInv'
<1>1. Pair(d, w)
  BY DEF Pair, PairInv
<1>2. LedgerMove
  BY NextLedgerMove
<1>3. PairBooks(d, w)' /\ PairConfirms(w)'
  <2>1. CASE UNCHANGED vars
    BY <1>1, <2>1 DEF vars, Pair, PairBooks, PairConfirms, Underway, Taken
  <2>2. ASSUME NEW r \in Requests,
               RequestArrives(r) \/ HandlerStep(r) \/ HandlerFails(r) \/ Mine(r)
        PROVE  PairBooks(d, w)' /\ PairConfirms(w)'
    BY <1>1, <1>2, <2>2, PairDepositStep, PairWithdrawStep, PairApprovalStep DEF Requests
  <2>3. ASSUME NEW v \in Workers, ReconcileStep(v) \/ WorkerFails(v)
        PROVE  PairBooks(d, w)' /\ PairConfirms(w)'
    BY <1>1, <1>2, <2>3, PairWorkerStep
  <2>. QED
    BY <2>1, <2>2, <2>3 DEF Next
<1>. QED
  BY <1>3 DEF PairInv

\* The debit is exact, too: the withdrawal finds the whole deposit and leaves the
\* difference.
LEMMA PairLedgerStep ==
    ASSUME NEW d, NEW w, Pair(d, w), PairInv', TypeOK', AmountsInv', LedgerMove
    PROVE  [Ledger!LedgerNext]_(Ledger!ledgerVars)
<1>0. /\ TypeOK /\ d \in Requests /\ w \in Requests /\ d # w
      /\ Deposits = {d} /\ Withdrawals = {w} /\ d \in Deposits /\ w \in Withdrawals
      /\ FullWithdrawals \subseteq Withdrawals /\ Amount[d] \in Nat
  BY PairFacts DEF Pair
<1>1. ASSUME NEW r \in Requests, Sends(r) \/ Settles(r) \/ Books(r)
      PROVE  Ledger!Send(r) \/ Ledger!Settle(r) \/ Ledger!Credit(r) \/ Ledger!Debit(r)
  <2>1. CASE Sends(r)
    BY <2>1 DEF Sends, Ledger!Send
  <2>2. CASE Settles(r)
    BY <2>2 DEF Settles, Ledger!Settle
  <2>3. CASE Books(r)
    <3>1. Ledger!Book(r)
      BY <1>0, <2>3, BookedMoves DEF Books, Ledger!Book, Booked
    <3>2. CASE r \in Deposits /\ position'.shares = position.shares + Amount[r]
      BY <3>1, <3>2 DEF Ledger!Credit
    <3>3. CASE r = w
      <4>1. applied[w] = 0 /\ applied'[w] = 1 /\ chain[w] = "success"
        BY <1>0, <2>3, <3>3 DEF Books, Apply, TypeOK
      <4>2. applied[d] = 1
        BY <4>1, PairFacts
      <4>3. position.shares = Amount[d] /\ position'.shares = Amount[d] - Taken(d, w)
        BY <1>0, <4>1, <4>2 DEF Pair, PairBooks, PairInv, Taken
      <4>. QED
        BY <1>0, <3>1, <3>3, <4>3 DEF Ledger!Debit, Taken
    <3>. QED
      BY <1>0, <2>3, <3>2, <3>3 DEF Books
  <2>. QED
    BY <1>1, <2>1, <2>2, <2>3
<1>2. CASE UNCHANGED <<chain, applied>> /\ position'.shares = position.shares
  BY <1>2 DEF Ledger!ledgerVars
<1>. QED
  BY <1>1, <1>2 DEF LedgerMove, Ledger!LedgerNext, Requests

\* At rest, what was mined is booked.
LEMMA PairQuiet ==
    ASSUME NEW d, NEW w, Pair(d, w), Quiet, faults = 0
    PROVE  position.shares = onChain
<1>1. (applied[d] = 1) <=> (chain[d] = "success")
  <2>1. applied[d] = 1 => chain[d] = "success"
    BY PairFacts DEF RowInv, RowKnowsChain
  <2>2. ASSUME chain[d] = "success" PROVE applied[d] = 1
    <3>1. txn[d].status = "CONFIRMED"
      BY <2>2, PairFacts, QuietIsConfirmed DEF Pair
    <3>2. handler[d].isNew
      BY <3>1, PairFacts DEF Pair, LoneInv, FoundsAlone
    <3>. QED
      BY <3>1, <3>2, PairFacts DEF RequestFounding
  <2>. QED
    BY <2>1, <2>2
<1>2. (applied[w] = 1) <=> (chain[w] = "success")
  <2>1. ASSUME chain[w] = "success" PROVE applied[w] = 1
    <3>1. txn[w].status = "CONFIRMED"
      BY <2>1, PairFacts, QuietIsConfirmed DEF Pair
    <3>. QED
      BY <3>1 DEF Pair, PairConfirms
  <2>. QED
    BY <2>1, PairFacts
<1>. QED
  BY <1>1, <1>2 DEF Pair, PairBooks

\* A deposit and a withdrawal, next to any number of approvals, workers and
\* failures, keep exact books: the withdrawal, whoever confirms it, is subtracted from
\* the whole deposit, once, and nothing else moves the balance.
THEOREM PairLedger ==
    ASSUME NEW d, NEW w, Deposits = {d}, Withdrawals = {w}, ~SlowHandlers
    PROVE  Spec => ImplementsLedger
<1>1. EarnInv /\ AmountsInv /\ FoundingInv /\ LoneInv /\ [Next]_vars => LoneInv'
  BY NextLone
<1>2. EarnInv /\ FoundingInv /\ Undisturbed /\ [Next]_vars => Undisturbed'
  BY NextUndisturbed
<1>3. EarnInv /\ EarnInv' /\ AmountsInv /\ FoundingInv /\ Undisturbed /\ LoneInv
         /\ PairInv /\ [Next]_vars
         => PairInv'
  BY NextPair
<1>4. EarnInv /\ EarnInv' /\ AmountsInv /\ AmountsInv' /\ FoundingInv /\ Undisturbed
         /\ LoneInv /\ PairInv /\ PairInv' /\ [Next]_vars
         => [Ledger!LedgerNext]_(Ledger!ledgerVars)
  BY PairLedgerStep, NextLedgerMove DEF Pair, PairInv, EarnInv
<1>. QED
  BY <1>1, <1>2, <1>3, <1>4, InitLone, InitUndisturbed, InitPair, InitLedger, Invariance,
     AmountsInvariance, FoundingInvariance, PTL
  DEF Spec, ImplementsLedger, Ledger!LedgerSpec

\* ... and at rest, when nothing has failed, the position shows what the wallet holds.
THEOREM PairPosition ==
    ASSUME NEW d, NEW w, Deposits = {d}, Withdrawals = {w}, ~SlowHandlers
    PROVE  Spec => []QuietPositionMatchesChain
<1>1. EarnInv /\ AmountsInv /\ FoundingInv /\ LoneInv /\ [Next]_vars => LoneInv'
  BY NextLone
<1>2. EarnInv /\ FoundingInv /\ Undisturbed /\ [Next]_vars => Undisturbed'
  BY NextUndisturbed
<1>3. EarnInv /\ EarnInv' /\ AmountsInv /\ FoundingInv /\ Undisturbed /\ LoneInv
         /\ PairInv /\ [Next]_vars
         => PairInv'
  BY NextPair
<1>4. EarnInv /\ AmountsInv /\ FoundingInv /\ Undisturbed /\ LoneInv /\ PairInv
         => QuietPositionMatchesChain
  BY PairQuiet DEF Pair, PairInv, QuietPositionMatchesChain
<1>. QED
  BY <1>1, <1>2, <1>3, <1>4, InitLone, InitUndisturbed, InitPair, Invariance,
     AmountsInvariance, FoundingInvariance, PTL DEF Spec
=============================================================================
