--------------------------- MODULE EarnInvariants ---------------------------
(***************************************************************************)
(* Why the safety properties of Earn hold: an inductive invariant, checked *)
(* by TLC on small instances and proved in EarnProofs.                      *)
(***************************************************************************)
EXTENDS Earn

\* Program counters of a handler that has not inserted its row, ...
BeforeRow == {"idle", "rejected", "read", "funded", "prechecked", "admitted"}

\* ... that has inserted it but not stored a hash, ...
BeforeHash == {"created", "sufficient", "broadcast"}

\* ... and that acts on a receipt.
AfterSuccess == {"mined", "subtract"}
AfterRevert == {"revertPosition", "revertTransaction", "reactivate"}

\* The handler knows what its row can be.  Before the hash is stored only the
\* clean-up of stale rows interferes, and it can only say FAILED.
HandlerKnowsRow(r) ==
    /\ handler[r].pc \in BeforeRow =>
          txn[r] = NoTransaction /\ chain[r] = "none" /\ applied[r] = 0
    /\ handler[r].pc \notin BeforeRow \cup {"crashed"} => txn[r].status # "NONE"
    /\ handler[r].pc \in BeforeHash =>
          /\ txn[r].status \in {"CREATED", "FAILED"}
          /\ ~txn[r].hash
          /\ applied[r] = 0
          /\ (chain[r] = "none") <=> (handler[r].pc # "broadcast")
    /\ handler[r].pc \in AfterSuccess => chain[r] = "success"
    /\ handler[r].pc \in AfterRevert => chain[r] = "reverted"
    /\ handler[r].pc = "submitted" => txn[r].hash
    /\ handler[r].pc = "subtract" => txn[r].status = "SUBMITTED"

\* A row's hash and status never run ahead of the chain, and a row that is
\* still to be confirmed has not been applied.
RowKnowsChain(r) ==
    /\ txn[r].hash => txn[r].status # "NONE" /\ chain[r] # "none"
    /\ txn[r].status = "SUBMITTED" => txn[r].hash /\ applied[r] = 0
    /\ applied[r] = 0 \/ (applied[r] = 1 /\ chain[r] = "success")

RowInv(r) == HandlerKnowsRow(r) /\ RowKnowsChain(r) /\ Truthful(r)

\* An open database transaction has the row of its item locked, alone: what
\* the worker found there still holds when it commits.
HolderKnowsRow(w) ==
    LET r == worker[w].item IN
    /\ worker[w].pc \in {"activate", "withdrawing", "subtract"} =>
          txn[r].status = "SUBMITTED" /\ chain[r] = "success"
    /\ worker[w].pc = "revertPosition" => txn[r].hash /\ chain[r] = "reverted"
    /\ worker[w].pc \in HoldingPCs =>
          /\ handler[r].pc # "subtract"
          /\ \A v \in Workers \ {w} :
                ~(worker[v].pc \in HoldingPCs /\ worker[v].item = r)

\* The lists of a worker may be out of date, but a hash once stored stays.
ListsAreRows(w) ==
    /\ \A r \in worker[w].stale : txn[r].status # "NONE"
    /\ \A r \in worker[w].pending : txn[r].hash

WorkerInv(w) == HolderKnowsRow(w) /\ ListsAreRows(w)

EarnInv ==
    /\ TypeOK
    /\ \A r \in Requests : RowInv(r)
    /\ \A w \in Workers : WorkerInv(w)

\* What the amounts are made of: whatever a handler, a row or a worker keeps
\* for a later write agrees in its three components, as the position does.
Agreeing(p) == p.deposited = p.current /\ p.current = p.shares /\ p.shares >= 0

PositionAmounts == Agreeing(position) /\ (position.status = "NONE" => position = NoPosition)

RequestAmounts(r) ==
    /\ handler[r].amount = handler[r].shares /\ handler[r].shares >= 0
    /\ Agreeing(handler[r].existing)
    /\ r \notin Approvals =>
          /\ txn[r].status # "NONE" => txn[r].amount = handler[r].amount
          /\ IsOpen(txn[r]) => txn[r].shares = handler[r].shares

WorkerAmounts(w) ==
    /\ Agreeing(worker[w].existing)
    /\ worker[w].pc \in {"activate", "withdrawing", "subtract"} =>
          worker[w].item \notin Approvals

AmountsInv ==
    /\ PositionAmounts
    /\ \A r \in Requests : RequestAmounts(r)
    /\ \A w \in Workers : WorkerAmounts(w)
-----------------------------------------------------------------------------
(* The deposit that creates the position *)

\* The handler of q has inserted nothing, and will find out should somebody
\* else create the position: a deposit by the unique key, a withdrawal because
\* it has not yet seen an ACTIVE position.
Unborn(q) ==
    /\ txn[q].status = "NONE"
    /\ q \in Deposits /\ handler[q].pc = "admitted" => handler[q].isNew
    /\ q \in Withdrawals => handler[q].pc \in {"idle", "rejected"}

AloneIn(r) == \A q \in (Deposits \cup Withdrawals) \ {r} : Unborn(q)

\* r has inserted its row together with the position.
Founder(r) == r \in Deposits /\ handler[r].isNew /\ txn[r].status # "NONE"

\* A worker has failed a stale deposit and may fail the position next.
CleaningUp == \E w \in Workers : worker[w].pc \in {"staleRead", "staleFail"}

\* As long as the founding deposit may still succeed its position is PENDING
\* and nobody else has a row that could touch it.
FoundingKnown ==
    /\ position.status = "NONE" => (\A q \in Deposits \cup Withdrawals : Unborn(q)) /\ ~CleaningUp
    /\ position.status = "PENDING" =>
          position.shares = 0 /\ \E r \in Deposits : Founder(r) /\ AloneIn(r)
    /\ \A r \in Deposits :
          Founder(r) /\ IsOpen(txn[r]) =>
             /\ AloneIn(r) /\ ~CleaningUp
             /\ \/ position.status = "PENDING"
                \/ position.status = "FAILED" /\ chain[r] = "reverted"

RequestFounding(r) ==
    /\ handler[r].pc \in BeforeHash => txn[r].status = "CREATED"
    /\ handler[r].pc = "catchPosition" => ~IsOpen(txn[r])
    /\ r \in Deposits =>
          /\ handler[r].isNew /\ txn[r].status = "CONFIRMED" => applied[r] = 1
          /\ txn[r].status # "NONE" \/ handler[r].pc = "admitted" =>
                handler[r].shares = Amount[r]

WorkerFounding(w) ==
    /\ \A r \in worker[w].stale : handler[r].pc \in {"done", "crashed"}
    /\ worker[w].pc \in HoldingPCs => worker[w].item \notin Approvals
    /\ worker[w].pc = "activate" => Founder(worker[w].item)
    /\ worker[w].pc \in {"withdrawing", "subtract"} => worker[w].item \in Withdrawals

\* Handlers, rows and workers agree on who founds the position, provided no live
\* handler outlasts the clean-up of its row (~SlowHandlers).
FoundingInv ==
    /\ FoundingKnown
    /\ \A r \in Requests : RequestFounding(r)
    /\ \A w \in Workers : WorkerFounding(w)
-----------------------------------------------------------------------------
(* What holds as long as nothing fails *)

\* As long as nothing fails, a handler sees its request through to the receipt, and
\* what it has sent gets its hash; no run finds a stale row to give up.
SeenThrough(r) ==
    /\ handler[r].pc \notin {"catchTransaction", "catchPosition", "crashed"}
    /\ txn[r].status = "CREATED" => handler[r].pc \in BeforeHash
    /\ chain[r] \in {"pending", "success"} =>
          handler[r].pc = "broadcast" \/ txn[r].status \in {"SUBMITTED", "CONFIRMED"}

NothingStale(w) ==
    worker[w].stale = {} /\ worker[w].pc \notin {"staleRead", "staleFail"}

Undisturbed ==
    faults = 0 => (\A r \in Requests : SeenThrough(r)) /\ (\A w \in Workers : NothingStale(w))
-----------------------------------------------------------------------------
(* A deposit without rivals, and one withdrawal *)

\* Where there is a position, there is the row of a deposit, ...
SomeDeposit == position.status # "NONE" => \E r \in Deposits : txn[r].status # "NONE"

\* ... so a deposit that has no rival finds no position and founds one.
FoundsAlone(r) == txn[r].status # "NONE" \/ handler[r].pc = "admitted" => handler[r].isNew

LoneInv == SomeDeposit /\ \A r \in Deposits : FoundsAlone(r)

\* The withdrawal w has read an ACTIVE position.
Underway(w) == handler[w].pc \notin {"idle", "rejected"}

\* What w takes from a position that holds the deposit d.
Taken(d, w) == IF w \in FullWithdrawals THEN Amount[d] ELSE Amount[w]

\* A withdrawal starts after the deposit was credited, and takes no more; so
\* position and wallet are both known from who is booked and who is mined.
PairBooks(d, w) ==
    /\ Underway(w) \/ position.status \in {"ACTIVE", "WITHDRAWING", "CLOSED"} => applied[d] = 1
    /\ Underway(w) => handler[w].shares = Taken(d, w) /\ Taken(d, w) <= Amount[d]
    /\ txn[w].status # "NONE" \/ chain[w] # "none" => Underway(w) /\ txn[w].status # "NONE"
    /\ position.shares =
          IF applied[w] = 1 THEN Amount[d] - Taken(d, w)
          ELSE IF applied[d] = 1 THEN Amount[d] ELSE 0
    /\ onChain =
          IF chain[w] = "success" THEN Amount[d] - Taken(d, w)
          ELSE IF chain[d] = "success" THEN Amount[d] ELSE 0
    /\ handler[w].pc = "subtract" => handler[w].existing.shares = Amount[d]
    /\ \A v \in Workers : worker[v].pc = "subtract" => worker[v].existing.shares = Amount[d]

\* As long as nothing fails the position waits for the withdrawal, so whoever
\* confirms it subtracts it.
PairConfirms(w) ==
    faults = 0 =>
       /\ txn[w].status # "NONE" /\ applied[w] = 0 /\ chain[w] # "reverted" =>
             position.status = "WITHDRAWING"
       /\ txn[w].status = "CONFIRMED" => applied[w] = 1

PairInv == \A d \in Deposits, w \in Withdrawals : PairBooks(d, w) /\ PairConfirms(w)
=============================================================================
