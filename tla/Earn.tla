-------------------------------- MODULE Earn --------------------------------
(***************************************************************************)
(* The earn system for one user and one vault: the request handlers, the   *)
(* reconciliation workers and the chain, all running at once.              *)
(***************************************************************************)
EXTENDS EarnDeposit, EarnWithdraw, EarnApproval, Reconciliation, FiniteSetsExt

RequestArrives(r) == DepositPrecheck(r) \/ WithdrawRead(r) \/ ApprovalCreate(r)

HandlerStep(r) == DepositStep(r) \/ WithdrawStep(r) \/ ApprovalStep(r)

HandlerFails(r) == BroadcastAnswerLost(r) \/ HandlerThrows(r) \/ HandlerCrashes(r)

WorkerFails(w) == ItemThrows(w) \/ RunAborts(w)

Next ==
    \/ \E r \in Requests :
          RequestArrives(r) \/ HandlerStep(r) \/ HandlerFails(r) \/ Mine(r)
    \/ \E w \in Workers : ReconcileStep(w) \/ WorkerFails(w)

Spec == Init /\ [][Next]_vars

(***************************************************************************)
(* A handler that has started runs on (the event loop gets to it), the job *)
(* is repeated every 30 seconds for ever, and what was sent is mined one   *)
(* day.  Nobody has to send a request, and nothing has to fail.            *)
(***************************************************************************)
Fairness ==
    /\ \A r \in Requests : WF_vars(HandlerStep(r)) /\ WF_vars(Mine(r))
    /\ \A w \in Workers : WF_vars(ReconcileStep(w))

FairSpec == Spec /\ Fairness

-----------------------------------------------------------------------------
(* Safety *)

\* The three amounts of a position move together and never become negative,
\* whichever of activate, addDeposit and subtractWithdraw wrote last.
AmountsAgree ==
    /\ position.deposited = position.current
    /\ position.current = position.shares
    /\ position.shares >= 0

\* However often handler and workers meet on the same row, and whatever
\* fails on the way, one on-chain transaction changes the position's amounts
\* at most once (the compare-and-set of confirmSubmitted).
AppliedAtMostOnce == \A r \in Requests : applied[r] <= 1

\* A row says CONFIRMED only if its transaction succeeded on chain (or, for
\* an approval that was not needed, if nothing was sent), and REVERTED only if
\* it reverted on chain.
Truthful(r) ==
    /\ txn[r].status = "CONFIRMED" =>
          \/ txn[r].hash /\ chain[r] = "success"
          \/ ~txn[r].hash /\ chain[r] = "none" /\ r \in Approvals
    /\ txn[r].status = "REVERTED" => chain[r] = "reverted"

StatusIsTruthful == \A r \in Requests : Truthful(r)

\* The amounts of the position move only in a database commit that also turns
\* one row, with a successful receipt, from SUBMITTED to CONFIRMED.
BalanceMovesOnConfirmation ==
    [][position'.shares # position.shares =>
          \E r \in Requests :
              /\ txn[r].status = "SUBMITTED" /\ txn'[r].status = "CONFIRMED"
              /\ chain[r] = "success"]_vars

\* A row settled against its receipt is never open again: neither a late
\* markSubmitted of the handler nor a stale list of a worker reopens it.
SettledStaysSettled ==
    [][\A r \in Requests :
          txn[r].status \in {"CONFIRMED", "REVERTED"} => ~IsOpen(txn'[r])]_vars

\* The deposit that created the position is never confirmed without being
\* credited, no matter who confirms it and what fails: as long as its row is
\* SUBMITTED its position is still PENDING.
FirstDepositCredited ==
    \A r \in Deposits :
        handler[r].isNew /\ txn[r].status = "CONFIRMED" => applied[r] = 1

Sum(S) == MapThenSumSet(LAMBDA r : Amount[r], S)

\* Without withdrawals the balance is exactly the sum of the credited deposits.
BalanceIsSumOfDeposits ==
    position.shares = Sum({r \in Deposits : applied[r] > 0})

\* A confirmed deposit has been added to the position.
ConfirmedDepositsApplied ==
    \A r \in Deposits : txn[r].status = "CONFIRMED" => applied[r] = 1

\* Nothing of this pair is under way: no handler runs, nothing is waiting to
\* be mined, no row is open.
Quiet ==
    \A r \in Requests : ~Live(r) /\ chain[r] # "pending" /\ ~IsOpen(txn[r])

\* Once all is quiet and nothing has failed, the position shows what the wallet
\* holds on chain, whoever confirmed the rows.
QuietPositionMatchesChain == Quiet /\ faults = 0 => position.shares = onChain

-----------------------------------------------------------------------------
(* Liveness *)

\* Every open row is settled one day, although handlers may have died: the
\* job takes up SUBMITTED rows and gives up CREATED ones that were never sent.
OpenRowsSettle == \A r \in Requests : IsOpen(txn[r]) ~> ~IsOpen(txn[r])

\* A position does not stay PENDING for ever: its first deposit is credited or
\* the position is FAILED.
PendingEnds == (position.status = "PENDING") ~> (position.status # "PENDING")

\* A position does not stay WITHDRAWING for ever.
WithdrawingEnds == (position.status = "WITHDRAWING") ~> (position.status # "WITHDRAWING")

\* A SUBMITTED row whose transaction succeeded on chain is shown as CONFIRMED
\* one day: by its handler or, when that gave up, by the job.
SubmittedIsConfirmed ==
    \A r \in Requests :
        txn[r].status = "SUBMITTED" /\ chain[r] = "success"
            ~> txn[r].status = "CONFIRMED"

NothingFails == [](faults = 0)

\* As long as nothing fails, every position leaves PENDING and WITHDRAWING,
\* whichever of the handler and the job is faster and whatever the receipt says.
UndisturbedStatusesEnd == NothingFails => PendingEnds /\ WithdrawingEnds

\* As long as nothing fails, every success on chain is shown as CONFIRMED.
UndisturbedConfirmation == NothingFails => SubmittedIsConfirmed

-----------------------------------------------------------------------------
(* The ledger this system implements *)

Ledger == INSTANCE PositionLedger WITH
              receipt <- chain,
              booked <- {r \in Requests : applied[r] > 0},
              balance <- position.shares

\* Rows, handlers, locks and workers together keep the books of one position:
\* every success on chain is booked once, by its exact amount, and nothing else is.
ImplementsLedger == Ledger!LedgerSpec

\* Whatever overlaps, every request is sent once, settled once and booked at most
\* once, after its success; nothing but a booking moves the balance; and deposits
\* are booked by their exact amount, also next to withdrawals.
ImplementsLooseLedger == Ledger!LooseLedgerSpec
=============================================================================
