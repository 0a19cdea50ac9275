------------------------------ MODULE EarnState ------------------------------
(***************************************************************************)
(* What the earn services and the reconciliation worker share: the         *)
(* position row of one user in one vault, the transaction rows that refer  *)
(* to it, the chain, and the request handlers and workers that run at the  *)
(* same time, on one API instance or on several.                           *)
(*                                                                         *)
(* A request is one POST to /earn: it creates at most one transaction row, *)
(* so the request's identity also names the row.                           *)
(*                                                                         *)
(* One action is one statement committed to the database, one database     *)
(* transaction (or its part up to a read whose result is used later), or   *)
(* one call to the wallet provider or to the RPC node.  Between any two of *)
(* them other handlers and workers may run, and the process may die.       *)
(***************************************************************************)
EXTENDS Transactions, Positions, FiniteSets

CONSTANTS
    Deposits,          \* requests to POST /earn/vaults/:id/deposit
    Withdrawals,       \* requests to POST /earn/positions/:id/withdraw
    Approvals,         \* requests to POST /earn/vaults/:id/approve
    FullWithdrawals,   \* the withdrawals with dto.fullWithdraw = true
    Amount,            \* dto.amount of each request
    Workers,           \* reconciliation runs that may overlap
    NoRequest,         \* "no row in hand"
    MaxFaults,         \* bound on crashes and failing calls
    SlowHandlers       \* may a live handler take longer than the 10 minutes
                       \* after which a CREATED row counts as stale?

Requests == Deposits \cup Withdrawals \cup Approvals

ASSUME RequestsAssumption ==
    /\ Deposits \cap Withdrawals = {}
    /\ Deposits \cap Approvals = {}
    /\ Withdrawals \cap Approvals = {}
    /\ FullWithdrawals \subseteq Withdrawals
    /\ NoRequest \notin Requests

ASSUME AmountAssumption == Amount \in [Requests -> Nat \ {0}]

ASSUME BoundsAssumption == MaxFaults \in Nat /\ SlowHandlers \in BOOLEAN

VARIABLES
    txn,        \* txn[r]: the transaction row of request r
    position,   \* the position row
    chain,      \* chain[r]: what became of r's transaction on chain
    onChain,    \* aToken balance of the wallet
    handler,    \* handler[r]: the request handler of r
    worker,     \* worker[w]: the reconciliation run of w
    applied,    \* history: how often r has changed the position's amounts
    faults      \* crashes and failed calls so far

vars == <<txn, position, chain, onChain, handler, worker, applied, faults>>

-----------------------------------------------------------------------------
(* Types *)

HandlerPC ==
    {"idle", "rejected",
     "read", "funded", "prechecked", "admitted",     \* before the row exists
     "sufficient",                                   \* approval not needed
     "created", "broadcast",                         \* row exists, not SUBMITTED
     "submitted", "mined", "subtract",               \* waiting, confirming
     "revertPosition", "revertTransaction", "reactivate", "reread",
     "catchTransaction", "catchPosition",            \* the catch block
     "done", "crashed"}

WorkerPC ==
    {"idle", "stale", "staleRead", "staleFail",
     "pending", "activate", "withdrawing", "subtract", "revertPosition"}

Handler ==
    [pc : HandlerPC, isNew : BOOLEAN, amount : Int, shares : Int, existing : Position]

\* Program counters at which a worker sits inside prisma.$transaction after
\* the first UPDATE: PostgreSQL keeps the row of the item locked until commit.
HoldingPCs == {"activate", "withdrawing", "subtract", "revertPosition"}

Worker ==
    {k \in [pc : WorkerPC, stale : SUBSET Requests, pending : SUBSET Requests,
            item : Requests \cup {NoRequest}, existing : Position] :
        k.pc \in HoldingPCs => k.item \in Requests}

ChainStatus == {"none", "pending", "success", "reverted"}

IdleHandler ==
    [pc |-> "idle", isNew |-> FALSE, amount |-> 0, shares |-> 0, existing |-> NoPosition]

IdleWorker ==
    [pc |-> "idle", stale |-> {}, pending |-> {}, item |-> NoRequest,
     existing |-> NoPosition]

TypeOK ==
    /\ txn \in [Requests -> Transaction]
    /\ position \in Position
    /\ chain \in [Requests -> ChainStatus]
    /\ onChain \in Int
    /\ handler \in [Requests -> Handler]
    /\ worker \in [Workers -> Worker]
    /\ applied \in [Requests -> Nat]
    /\ faults \in Nat

Init ==
    /\ txn = [r \in Requests |-> NoTransaction]
    /\ position = NoPosition
    /\ chain = [r \in Requests |-> "none"]
    /\ onChain = 0
    /\ handler = [r \in Requests |-> IdleHandler]
    /\ worker = [w \in Workers |-> IdleWorker]
    /\ applied = [r \in Requests |-> 0]
    /\ faults = 0

-----------------------------------------------------------------------------
(* Row locks, open rows, program counters *)

\* Mutants: only one of the two confirmation paths is a database transaction.
RowFreeOfHandlers(r) == handler[r].pc # "subtract"

RowFreeOfWorkers(r) ==
    \A w \in Workers : ~(worker[w].pc \in HoldingPCs /\ worker[w].item = r)

\* No open database transaction has written r's row.
RowFree(r) ==
    /\ handler[r].pc # "subtract"
    /\ \A w \in Workers : ~(worker[w].pc \in HoldingPCs /\ worker[w].item = r)

HasOpenDeposit == \E r \in Deposits : IsOpen(txn[r])

HasOpenWithdraw == \E r \in Withdrawals : IsOpen(txn[r])

At(r, pc) == handler[r].pc = pc

Goto(r, pc) == handler' = [handler EXCEPT ![r].pc = pc]

Apply(r) == applied' = [applied EXCEPT ![r] = @ + 1]

Fault == faults < MaxFaults /\ faults' = faults + 1

UnchangedDatabase == UNCHANGED <<txn, position, applied>>

-----------------------------------------------------------------------------
(* The wallet provider and the chain *)

\* walletProvider.sendTransaction returns a hash.
Broadcast(r) ==
    /\ At(r, "created")
    /\ chain' = [chain EXCEPT ![r] = "pending"]
    /\ Goto(r, "broadcast")
    /\ UNCHANGED <<onChain, worker, faults>> /\ UnchangedDatabase

\* sendTransaction throws although the provider has accepted the transaction:
\* the answer is lost on the way back.
BroadcastAnswerLost(r) ==
    /\ At(r, "created")
    /\ Fault
    /\ chain' = [chain EXCEPT ![r] = "pending"]
    /\ Goto(r, "catchTransaction")
    /\ UNCHANGED <<onChain, worker>> /\ UnchangedDatabase

\* A deposit mints aTokens; a withdrawal burns them, all of them when it was
\* sent with maxUint256, and cannot succeed without them.
OnChainAfter(r) ==
    IF r \in Deposits THEN onChain + Amount[r]
    ELSE IF r \in FullWithdrawals THEN 0
    ELSE IF r \in Withdrawals THEN onChain - txn[r].amount
    ELSE onChain

CanSucceed(r) ==
    CASE r \in FullWithdrawals -> onChain > 0
      [] r \in Withdrawals \ FullWithdrawals -> onChain >= handler[r].amount
      [] OTHER -> TRUE

Mine(r) ==
    /\ chain[r] = "pending"
    /\ \/ /\ CanSucceed(r)
          /\ chain' = [chain EXCEPT ![r] = "success"]
          /\ onChain' = OnChainAfter(r)
       \/ /\ chain' = [chain EXCEPT ![r] = "reverted"]
          /\ UNCHANGED onChain
    /\ UNCHANGED <<handler, worker, faults>> /\ UnchangedDatabase

-----------------------------------------------------------------------------
(* Steps all three handlers share *)

\* The row is overwritten with SUBMITTED, the hash and fresh metadata.
RecordHash(r) ==
    /\ At(r, "broadcast")
    /\ RowFree(r)
    /\ txn' = [txn EXCEPT ![r] = MarkSubmitted(@, handler[r].shares)]
    /\ Goto(r, "submitted")
    /\ UNCHANGED <<position, chain, onChain, worker, applied, faults>>

\* Mutant: a handler that tires of waiting stores its hash once more.
AwaitReceiptAgain(r, onRevert) ==
    /\ At(r, "submitted")
    /\ \/ chain[r] = "success" /\ Goto(r, "mined")
       \/ chain[r] = "reverted" /\ Goto(r, onRevert)
       \/ Goto(r, "broadcast")
    /\ UNCHANGED <<chain, onChain, worker, faults>> /\ UnchangedDatabase

\* waitForTransactionReceipt returns.
AwaitReceipt(r, onRevert) ==
    /\ At(r, "submitted")
    /\ \/ chain[r] = "success" /\ Goto(r, "mined")
       \/ chain[r] = "reverted" /\ Goto(r, onRevert)
    /\ UNCHANGED <<chain, onChain, worker, faults>> /\ UnchangedDatabase

\* Any await inside the try block may throw: the provider rejects the call,
\* the receipt does not arrive in time, a statement or a commit fails (and its
\* database transaction is rolled back).
TryPCs ==
    {"created", "broadcast", "submitted", "mined", "subtract",
     "revertPosition", "revertTransaction", "reactivate", "reread"}

HandlerThrows(r) ==
    /\ handler[r].pc \in TryPCs
    /\ Fault
    /\ handler' = [handler EXCEPT ![r] =
                     [@ EXCEPT !.pc = "catchTransaction", !.existing = NoPosition]]
    /\ UNCHANGED <<chain, onChain, worker>> /\ UnchangedDatabase

\* The last write inside the try block is committed: its answer reaches the
\* handler, or is lost and the catch block runs.
CommitAnswered(pc) ==
    \/ pc = "done" /\ UNCHANGED faults
    \/ pc = "catchTransaction" /\ Fault

\* The first statement of every catch block.
CatchTransaction(r, next) ==
    /\ At(r, "catchTransaction")
    /\ RowFree(r)
    /\ txn' = [txn EXCEPT ![r] = MarkFailed(@)]
    /\ Goto(r, next)
    /\ UNCHANGED <<position, chain, onChain, worker, applied, faults>>

\* The process dies, or a statement of the catch block throws and the rest of
\* it is skipped.  Whatever was committed stays; an open database transaction
\* is rolled back.
Live(r) == handler[r].pc \notin {"idle", "rejected", "done", "crashed"}

HandlerCrashes(r) ==
    /\ Live(r)
    /\ Fault
    /\ handler' = [handler EXCEPT ![r] =
                     [@ EXCEPT !.pc = "crashed", !.existing = NoPosition]]
    /\ UNCHANGED <<chain, onChain, worker>> /\ UnchangedDatabase
=============================================================================
