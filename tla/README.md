# A formal model of the earn backend

This directory specifies, model-checks and partly proves the logic of the NestJS
earn backend in `src/` and of the clients kept beside it: deposits into and
withdrawals from Aave vaults, the position and transaction tables, the
reconciliation job and its schedule, the idempotent handling of mutations, the
rate limit, accounts and wallets, the catalogue, the calls to the wallet provider,
and what a browser tab and the end-to-end script make of the answers.
`PROJECT.json` ties every definition to the lines it models and lists runs,
mutants, findings, hazards and theorems.

## 1. Inventory

| Component (source under `src/src/`) | State | Operations | Interacts with |
|---|---|---|---|
| Deposits (`earn/services/earn-deposit.service.ts`) | none of its own | `depositVault`: validate, check, insert, send, record the hash, wait, confirm and credit; catch block | both tables, wallet provider, RPC node |
| Withdrawals (`earn-withdraw.service.ts`) | none | `withdrawPosition`: read, check, insert, send, record, wait, confirm and subtract; catch block | the same |
| Approvals (`earn-approval.service.ts`) | none | `approveVault` with and without a sufficient allowance | transaction table, provider, RPC node |
| Transactions (`earn/persistence/transactions`) | table `Transaction` | `createTransaction`, `markSubmitted/Confirmed/Failed/Reverted`, `confirmSubmitted` (compare-and-set), the open-row and reconciliation queries | handlers, job |
| Positions (`earn/persistence/positions`) | table `Position`, one row per user and vault | `createPending`, `activate`, `addDeposit`, `subtractWithdraw`, `markWithdrawing/Active/Failed` | handlers, job |
| Reconciliation (`reconciliation/transaction-reconciliation.service.ts`) | none | fail stale CREATED rows, settle SUBMITTED rows from their receipts | both tables, RPC node |
| Lock and scheduler (`reconciliation/`) | Redis key with expiry, repeated BullMQ job | acquire, release, repeat every 30 s, retry, re-deliver | job |
| Idempotency (`idempotency/`) | table `IdempotencyKey` | acquire (look up, insert, look up again), replay, complete (save or delete) | wraps the three mutations |
| Rate limit (`earn-mutation-rate-limit.service.ts`) | Redis counter per action, user and clock minute | `assertAllowed`: INCR, EXPIRE | start of deposits and withdrawals |
| Auth and users (`auth/`) | table `User` | register, login | wallets |
| Wallets (`wallets/wallets.service.ts`) | table `Wallet`, flag `isPrimary` | create, list, get, enable signing, faucet | Privy |
| Privy provider (`wallets/providers/privy`) | external; `User.privyUserId` | link a user, create a wallet, balances, send, all inside `withRetry` and `mapPrivyError` | wallets, handlers |
| Catalogue (`config/`, `chains/`, `assets/`, `protocols/aave`, `earn.service.ts`) | configuration read at start; table `Vault` | lists, previews, `findOrCreate` | validation |
| Validation (`earn-transaction-validation.service.ts`) | none | the checks before a deposit, an approval and a withdrawal | catalogue, wallets |
| Blockchain access (`earn-blockchain.service.ts`, `aave-viem.service.ts`) | external | encode calls, read balances, receipts | handlers, job |
| Frontend (`src/frontend`) | React state, token | sign-in, wallet list, deposit flow, withdraw dialog, 60 s client timeout | HTTP API |
| End-to-end script (`src/scripts/run-testnet-earn-flow.mjs`) | its step | preview, approve, deposit, withdraw | HTTP API |
| Audit, history, health, connections | log / none | append, read | - |

What is hard here:

* *Concurrency.* Handlers of one user run at the same time, on one or several
  API instances, and so do reconciliation runs: the Redis lock expires after
  25 s and is not renewed. The database transactions run at READ COMMITTED, so a
  read and a later write of one transaction are not one step; wallet creation and
  registration use no database transaction at all.
* *Two writers of one outcome.* The handler that waits for a receipt and the job
  both confirm a row; the compare-and-set of `confirmSubmitted` decides.
* *Failure.* Every call may fail after it took effect; the catch blocks then
  overwrite rows and positions. A process may die between any two statements,
  also between the two commands of a counter or of a lock.
* *Ordering and time.* Receipts arrive late, lists are stale when they are
  worked off, a row counts as stale after ten minutes whether or not its handler
  still runs; a browser gives requests up that go on, and gets old answers late.
* *Configuration.* The catalogue changes between two starts of the process while
  the vaults and positions tables keep what they were given.

What makes the parts correct: an on-chain transaction is booked at most once
and only with a successful receipt; statuses agree with the chain and settled
rows stay settled; the amounts of a position agree; the first deposit of a
position is never confirmed unbooked; open rows settle, whatever runs die, overlap
or are blocked by other rows; two attempts with one idempotency key never run
together and replays are faithful; a minute admits no more than its limit and
refuses nobody below it; one mailbox has one account, a user one primary wallet,
a link to Privy never moves; what can be deposited can be withdrawn; a request
makes a bounded number of provider calls and ends; a screen shows what the server
has, and a reported success is one.

## 2. Modules

| Module | Models | Notes |
|---|---|---|
| `Transactions`, `Positions` | a row of each table and the statements on it | operators from row to row; `SubtractWithdraw` takes the row read before, as the code does |
| `EarnState` | the shared state, chain and wallet provider, the steps all handlers share | constants with their assumptions |
| `EarnDeposit`, `EarnWithdraw`, `EarnApproval` | the three handlers | one action per await that reads or writes shared state |
| `Reconciliation` | one run of the job, per worker | one action per statement others can observe |
| `Earn` | composition: `Next`, `Spec`, `FairSpec`, the properties | |
| `PositionLedger` | abstract specification: send once, settle once, book a success once; and a looser one, in which a withdrawal may leave any balance | `Earn!ImplementsLedger` and `Earn!ImplementsLooseLedger` are the refinements |
| `EarnInvariants` | the inductive invariants `EarnInv`, `AmountsInv`, `FoundingInv`, `Undisturbed`, `LoneInv` and `PairInv` | checked by TLC, used by the proofs |
| `IdempotentMutation` | interceptor, idempotency service and table, provider call with `withRetry` | |
| `ReconcileSchedule` | the repeated job, its workers, the lock, the list of rows a run takes | a row is settled or not; timers count down in ticks |
| `RateLimit` | the counter of one user in Redis and the instances that use it | clocks of instances may be ahead of Redis |
| `Accounts` | registration, login, the link to Privy, wallet creation | every await a step |
| `WalletCalls` | the provider calls of one request on wallets: retries in retries, `Promise.all`, mapping of errors | requests share nothing and are taken one after another |
| `Catalogue` | configuration and restarts, lists, all checks in their order, the vaults table | a request is one step |
| `Session` | a browser tab: sign-in, wallet list, creation | |
| `Clients` | a browser tab's deposit and withdrawal pages and the script against one API, wallet and chain | extends `Positions` |
| `Sums` | lemmas: sums over finite sets, and induction over them | for the three modules that count or add up |
| `EarnProofs`, `RequestProofs`, `RateLimitProofs`, `ScheduleProofs`, `AccountsProofs`, `WalletProofs`, `ClientsProofs` | proofs | `RequestProofs` is about `IdempotentMutation` and `Catalogue`, `WalletProofs` about `WalletCalls` and `Session`; the definitions of `Catalogue` and `Session` carry the module's name, so that one module can extend both |
| `MC...` | instances for TLC | |

Operators whose comment starts with "Mutant" are wrong variants of the
definition that follows them; no specification uses them. They show that each
checked property notices a plausible bug.

### State and code: `Earn`

One user and one vault: the unique key on `(userId, vaultId)` makes this pair the
unit in which requests meet. A request creates at most one transaction row, so
`txn[r]` is the row of request `r` (status, is a hash stored, amount, share count
of the metadata). `position` is the position row, `chain[r]` what became of the
transaction, `onChain` the aToken balance. `handler[r]` holds the program counter
and the local variables read later (`isNew`, `amount`, `shares`, and the position
`subtractWithdraw` has read). `worker[w]` holds the two lists of a run and the
item in hand. `applied[r]` is a history variable: how often `r` changed the
amounts. `faults` counts failures.

An action is one committed statement, one database transaction or the part of
it up to a read that is used later, or one external call. A database transaction
that is open after its first UPDATE is a program counter (`"subtract"` of a
handler, `HoldingPCs` of a worker) at which the row is locked (`RowFree`). Its
writes become visible together with the commit, or never when it fails. The last
commit of a try block is followed by its answer or, as a fault, by the catch block:
the answer to COMMIT was lost (`CommitAnswered`).

Abstractions: amounts are small integers and shares equal amounts (1:1 on Aave,
which is what `previewDepositShares` and `previewWithdrawShares` return); checks
that leave no trace (vault, wallet, balances, rate limit) are the choice to start
a request, and are the subject of `Catalogue`, `Clients` and `RateLimit`; the
retries inside the provider call are one broadcast (`IdempotentMutation` and
`WalletCalls` model them); audit entries are left out, `AuditService.log` does not
throw and nothing reads them; the two lists are sets without limits
(`ReconcileSchedule` has the limits); `WithdrawReadBalance` comes after the
comparisons on the position, which use an earlier read and are not affected.

### State and code: the other modules

* `ReconcileSchedule`: `job[j]` is a BullMQ job with its tries, `run[w]` the run a
  worker is in, `lock` the Redis key with its remaining time, `submitted` the rows in
  the order of `updatedAt`. `TakeLock` is SET NX EX; `ReadLock` and `DeleteLock` are
  the two commands of `release`; an error in `acquire` is outside the `try`, so it
  releases nothing. `overran` remembers that a lock expired under its run.
* `RateLimit`: `counter` and `expiresAt` are the keys in Redis, `call[r]` what a
  request has read. The window is computed from the instance's clock before INCR is
  executed; the request that gets 1 sends EXPIRE.
* `Accounts`: `registration` and `creation` are program counters, `users`, `rows` and
  `primary` the tables, `linked` is `User.privyUserId`, `minted` the wallets Privy has
  made, with the attempt of `withRetry` that asked for them. `earlier` and `cleared`
  are history.
* `WalletCalls`: `task[w]` is where the work on a wallet is, with the counter of the
  outer and of the inner `withRetry`; `flying` the balance calls on their way; a call of
  an earlier round is one `Promise.all` no longer waits for. An error is a name and
  a status, which is all that `isRetryablePrivyError` and `mapPrivyError` look at (the
  wording of one message, which turns 5xx into 400, is left out).
* `Catalogue`: `config` is what the process loaded, one environment per restart;
  `row[v]` the chain in the vaults table, which `findOrCreate` never updates; `held`
  the aTokens of each wallet, which the pool moves by a unit now and then (`drift`
  counts how often). The checks are sequences in the order of the code, and `Verdict`
  is the first that refuses.
* `Session`: `shown` is the list on the screen, a card with `id` 0 the optimistic
  one; `lists` are the requests of `refresh` under way, each asked with a token; a
  `creation` keeps whether the API has cleared the primary flags for it and the number
  of the wallet stored, 0 while there is none: the provider's call lies between the two
  steps. A creation the tab gives up without a wallet goes to `abandoned`, where the
  API takes its missing steps at any later time, or never.
* `Clients`: `calls` are the requests under way with the step their handler is at, and
  the transactions the wallet provider has accepted without a handler's knowing of
  them (`Stray`): `withRetry` has sent again after a lost answer, or the handler has
  thrown. The attempts of one call are not counted, each lost answer is a fault.
  `page`, `flow` and `modal` are the React state; `script` the step of the script;
  `unspent` what was approved by the user and not deposited since, `resent` the
  amounts of approvals sent again. Balance and allowance are read in one step, where
  the code reads them in one `Promise.all`.

## 3. Runs

All runs of `Earn` use distinct amounts (3 and 4 deposited, 1 withdrawn), so a lost
and a doubled booking cannot cancel out.

| Run | Instance | Shows |
|---|---|---|
| `MCDeposits` | 2 deposits, 2 workers, 2 faults | `EarnInv`, `FirstDepositCredited`, `BalanceIsSumOfDeposits` |
| `MCMixed` | 2 deposits, a full withdrawal, 1 worker, 2 faults, slow handlers | `AmountsInv`, `AppliedAtMostOnce`, `StatusIsTruthful`, `BalanceMovesOnConfirmation`, `SettledStaysSettled` |
| `MCLifecycle` | 1 approval, 1 deposit, 1 withdrawal, 1 worker, 1 fault, fair | `QuietPositionMatchesChain`, `ImplementsLedger`, `OpenRowsSettle`, and that PENDING, WITHDRAWING (`UndisturbedStatusesEnd`) and SUBMITTED (`UndisturbedConfirmation`) end when nothing fails |
| `MCMutation` | 4 attempts on one key, 2 payloads, 3 provider calls, 3 faults, fair | the record is a lock (`OneRunsPerKey`), `ReplayIsFaithful`, `SuccessIsFinal`, `UndisturbedSentOnce`, `KeyIsReleased` |
| `MCRateLimit` | 2 deposits and a withdrawal, clocks ahead by up to 1, 4 windows of 2 ticks, 1 fault | `RateInv`, `WindowLimit`, `RejectedOnlyOverLimit` |
| `MCSchedule` | 2 workers, 2 jobs, 2 rows, lists of 1, lock of 2 ticks, 1 fault, fair | `ScheduleInv`, `NoOverlapWithinTtl`, `MinedRowsSettle` |
| `MCAccounts` | 3 registrations (2 of one mailbox), 3 creations, 2 provider attempts, 2 faults | `AccountsInv`, `OneAccountPerMailbox`, `OnePrimaryWallet`, `WalletsAccountedFor`, `LinkIsFinal` |
| `MCSession` | 2 users, 2 wallets each, 2 list requests, 2 sign-ins, 2 faults | `SessionInv`, `ShownMatchesServer`, `ForeignCardsComeLate` |
| `MCClients` | a vault, 3 requests at a time, 4 rows, 1 fault | `RevertNeedsRace`, `DepositsAreApproved`, `SuccessMeansConfirmed`, `FormIsOfItsVault` |
| `MCCatalogue` | 2 chains, 2 vaults, 3 own wallets and a foreign one, 2 restarts, 2 requests, a balance that drifts once | `MoneyInCanLeave`, `EndpointsAgree` |
| `MCWalletCalls` | 3 wallets, one of them foreign and one on an unknown chain, 3 attempts, fair | `CallsAreBounded`, `RequestsEnd` |
| `MCLostDeposit` | 2 deposits, 1 worker | a counterexample: the job confirms a deposit into an ACTIVE position first and credits nothing; the handler then finds the row confirmed. `PROJECT.json` quotes what the documentation says |

### Bounds

`Earn`: two deposits are the least that compete for the position and for its
creation; a withdrawal beside them gives the read-modify-write race; two workers are
what an expired lock allows. `MaxFaults` bounds failing calls and deaths: one fault
spoils a step, the second one its clean-up; `MCLifecycle` has one, because three
requests under fairness fill the time, and two are in the safety runs. A request is
not repeated; a repeated request is another request with its own row. No state
constraint is used: every bound is a constant in a guard.

`MCSchedule`: the lock's two ticks are fewer than a run needs that waits for a
receipt, so locks do expire under their runs; with two rows and lists of one a row
that never gets its receipt keeps a mined one off the list, which is the starvation
`MinedRowsSettle` excepts, and a list of the newest rows instead of the oldest is
found to starve a mined row without need. `MCRateLimit`: four windows, so that a
counter may outlive its own. `MCAccounts`: two registrations that race for a mailbox
and one beside them; three creations, so that one can reset the flag between two
others. `MCSession`: two lists, so that the older answer can come last, and two
faults, so that a creation the tab gives up can be followed by a failed list or by a
second one given up. `MCClients`: three requests under way, so that an approval sent
again can be mined after a deposit (without `resent` TLC finds `DepositsAreApproved`
violated this way); one vault, so the run compares the form with the list page only,
and that it is never the form of another vault is the theorem `FormOfItsVault`, for
any vaults; the VIEW identifies states that differ only in the numbers of the calls,
which keep otherwise equal calls apart and are compared with nothing else.
`MCCatalogue`: one change and one change back; two deposits, from two wallets, or a
deposit and a withdrawal. `MCWalletCalls`: 3 attempts is the code's own number.

Symmetry is used where only safety is checked: the workers of `MCDeposits`, the users
of `MCSession`, the equal requests of `MCRateLimit`, vaults and wallets of
`MCCatalogue`. The deadlock check is off where the system may stop: all attempts,
requests or creations have ended, or a bound is used up. In `Earn`,
`ReconcileSchedule`, `Clients` and `WalletCalls` it is on.

### Fairness

`Earn`: `WF` of `HandlerStep(r)`: a started handler is continued by the event loop. `WF`
of `ReconcileStep(w)`: BullMQ repeats the job every 30 s. `WF` of `Mine(r)`: a broadcast
transaction is mined. Starting a request and failing are not fair. The
`Undisturbed...` properties assume that nothing fails, which the antecedent
`[](faults = 0)` says; `OpenRowsSettle` needs no such assumption.
`IdempotentMutation`: `WF` of `Step(a)` says the same of an attempt.
`ReconcileSchedule`: time passes, BullMQ repeats the job and takes up waiting and
stalled ones, a run goes on; mining, failing and submitting are not fair.
`WalletCalls`: every provider call ends, in an answer or an error of any kind, since
the client gives up on its own; a request that waits for nothing is answered.

## 4. Proofs

For every value of the constants that meets the named assumptions:

* `TypeCorrect`: `Spec => []TypeOK` of `Earn`; `Invariance`: `Spec => []EarnInv`, and from
  it `AppliedOnce` and `StatusTruth`.
* `AmountsInvariance`, and from it `AmountsStayTogether`, `BalanceMovesWithRow`,
  `SettledRows`: the amounts agree, they move only with a confirmation, settled rows
  stay settled.
* With handlers that are not slower than the stale age (`~SlowHandlers`):
  `FoundingInvariance`, and from it `FirstDeposit` (the deposit that founds a
  position is never confirmed without being credited) and `LooseLedger` (the
  refinement of the looser ledger).
* With `~SlowHandlers` and no withdrawals: `ExactLedger`, the refinement of the exact
  ledger, and `BalanceIsSum`, the balance is the sum of the deposits credited.
  `QuietPosition`: at rest, when nothing has failed, the position shows what the wallet
  holds, or a deposit was confirmed without being credited. `LonePosition`: for a
  single deposit the second case does not occur.
* With `~SlowHandlers`, one deposit and one withdrawal, any number of approvals, workers
  and faults: `PairLedger`, the refinement of the exact ledger with its debit, and
  `PairPosition`, `QuietPositionMatchesChain`. The instance of `MCLifecycle` is one of
  these.
* `OneRuns`, `FaithfulReplay` and `SuccessEndsSending` for `IdempotentMutation`, and
  `SentOnce` for any finite set of attempts.
* `CatalogueMoneyInCanLeave` and `CatalogueEndpointsAgree` for `Catalogue`.
* `RateInvariance`, `WindowLimitHolds` and `RefusedOnlyOverLimit` for `RateLimit`.
* `ScheduleInvariance` and `RunsDoNotOverlap` for `ReconcileSchedule`.
* `AccountsInvariance`, and from it `AccountsUnique`, `PrimaryWallets`, `LinksNeverMove`
  and `WalletsAccounted`, for `Accounts`.
* `CallsInvariance` and `CallsBounded` for `WalletCalls`.
* `SessionInvariance`, `ShownMatchesTheServer` and `ForeignCardsAreLate` for `Session`.
* `ClientsInvariance`, and from it `RevertsNeedRace`, `ApprovedDeposits`, `ScriptSuccess`
  and `FormOfItsVault`, for `Clients`.

*`Earn`.* `AppliedAtMostOnce` and `StatusIsTruthful` are not inductive: that a
confirmation is the only one depends on what the other actors may still do. `EarnInv`
adds, per row, what its handler knows at each program counter (`HandlerKnowsRow`) and
what hash, status and history say of each other (`RowKnowsChain`: a SUBMITTED row has
a hash and is not applied), and per worker that an open database transaction still
finds the row as it read it and shares its lock with nobody (`HolderKnowsRow`),
and that a row on a list keeps its hash (`ListsAreRows`). The proof shows what a
step of a handler, a worker or the chain can do to one row (`HandlerFrame`,
`ItemFrame`, `ListFrame`), and then that every such change keeps each part of the
invariant. The same is done for `AmountsInv`: every kept amount (in a handler, a
row, a read position) agrees in its components, and the position moves by a
booking or a credit only.

*Who founds a position.* The job credits a deposit only into a PENDING position, and
the handler that founded the position writes absolute amounts. Both are right only
because a founder has the position to itself: `FoundingInv` says that while its
row can still be confirmed, the position is PENDING, no other deposit or withdrawal
has a row, and no run is about to fail the position. From it a credit always finds
an empty position or adds to it, which is one step of the ledger; the proof maps
every action to `Send`, `Settle`, `Credit`, a debit or a stutter (`LooseLedger`), and
the balance to the position's amount. The hypotheses are needed. TLC finds
`ImplementsLooseLedger` and `BalanceIsSumOfDeposits` violated with
`SlowHandlers = TRUE`: the stale clean-up fails the position of a founder that still
runs, a second deposit is credited, and the founder's `activate` overwrites it. The
exact ledger is violated by a withdrawal that overlaps a deposit, since
`subtractWithdraw` writes amounts computed from an earlier read; this is what
`LooseDebit` allows, and why the looser ledger exists.

*Position and chain at rest.* `QuietPositionMatchesChain` compares the position with a
balance nobody in the system reads at that time, so the proof goes through what makes up each.
`Undisturbed` says what holds while `faults = 0`: no handler is in its catch block, a
transaction that was sent has its hash stored or is about to, and no run finds a stale
row; so at rest everything that succeeded is CONFIRMED. Without withdrawals the
position is the sum of the credited deposits (`BalanceInv`) and the wallet the sum of the
mined ones (`MinedInv`), and the sums have the same members unless the job has
confirmed a deposit into an ACTIVE position, which `MCLostDeposit` shows. A deposit without
a rival founds its position (`LoneInv`), and a founder is credited. With one
withdrawal beside it `PairInv` gives both amounts outright: a withdrawal is under way only
after the deposit was credited, so whatever is read by the handler or by a run before a
subtraction is the whole deposit, and the amount taken is at most that much (`PairBooks`,
which needs no assumption about faults and gives the exact debit of the ledger); and as
long as nothing fails the position stays WITHDRAWING until the withdrawal is booked or
has reverted, so whoever confirms it subtracts it (`PairConfirms`). `~SlowHandlers` is
needed here as for `FoundingInv`. With a second deposit or a second withdrawal neither
theorem holds.

*Sums.* `BalanceIsSumOfDeposits` and `ToApproveOf` are folds over a finite set.
`Sums` proves how a sum unfolds, that it does not depend on the order, and what
adding, removing or changing one member does to it. The library's induction
theorems cannot be instantiated here, so the induction over finite sets is proved
for sets instead of predicates (`SubsetInduction`: a set that contains T whenever it
contains all proper subsets of T contains every subset).

*`IdempotentMutation`.* `MutationInv` says that the record of a running attempt is its
own and that an answered record belongs to an attempt that got to its response.
Each step has one of four shapes (`OwnStep`), which `StepShape` proves; `MutationStep`
needs the shapes only. `SentOnce` rests on `SenderKeepsRecord`: as long as nothing
fails, an attempt sends once and keeps the record of its key from then on, so the
sum over the attempts with that key has at most one member that is not 0.
`SuccessEndsSending` says the same of an attempt whose answer is stored, whatever
fails.

*`Catalogue`.* The checks of an endpoint are a sequence and its answer the first that
refuses; the proof needs only that a concatenation lets through what both parts let
through. `CatalogueInv` says that the position and the wallets hold the same in
total per vault, but for what has drifted, and that a position with shares is ACTIVE; what the checks of one
endpoint establish is then compared with what another one demands.

*`RateLimit`.* The limit follows from the numbers INCR has answered: while the
counter of a window is there, the requests counted under it have distinct numbers
not above it (`NumbersAreDistinct`), the counter outlives its window
(`ExpiresAfterWindow`), and an admitted request has a number within the limit
(`VerdictsAreKept`); distinct numbers in `1..Limit` are at most `Limit` many. In the
other direction `NumbersHaveNoGaps` says that, as long as nothing fails, every number
up to the counter belongs to a request, so a refusal has as many requests before it
as the limit.

*`ReconcileSchedule`.* An active run owns the lock until it expires under it, which
`overran` remembers (`ActiveRunHoldsLock`); the two commands of `release` are
harmless because only a run that has acquired the lock gets to them.

*`Accounts`.* The uniqueness of mailboxes is the table's unique key on the
normalised address; the rest of the invariant says what each stage of a creation
has read and done, which linked accounts Privy's refusal of a second user implies,
and that every wallet made is stored, awaited, or paid for by a fault.

*`WalletCalls`.* `CallsInv` says how many look-ups and calls the rounds so far allow at
each stage: a round that ends in an error leaves at most one call behind.

*`Session`.* `TabInv` says that a tab has one session and the token that goes with it, at
most one pending card and that only while its creation is under way, and what the tab knows
of the server: an answer asked for since the last creation ended, or since the server's
last step of one given up, is the server's list, and the list on the screen, once such
an answer has come, has every wallet of the server, counting the one whose creation is
being answered. The server's list is a permutation of the user's wallets, primary
ones first (`EachHasItsPlace`): there may be none of these, or several.

*`Clients`.* `ClientsInv` ties the requests under way to what they rest on: what
a request has checked still holds unless something was mined since
(`ChecksHold`), the approvals under way, stray ones too, and the allowance are within
what the user approved and has not deposited and what was sent again
(`WithinApproval`, a sum over the requests),
the script has one request at a time and it is the one of its step
(`ScriptKnows`), and a load that was not cancelled is a load of the page in the
address (`LoadsOfPage`). The set of requests changes in five ways, and one lemma
for each says what that does to the invariant. The proof found two errors of the model:
`RevertNeedsRace` had no exception for an emptied position, and three rows were
too few for TLC to show that it was false (`MCClients` now has four, and an allowance
at the start, so that a deposit and three withdrawals fit); and a step of the script was a CASE with
overlapping guards. It also needs that no vault is called "list" or "portfolio"
(`VaultsAssumption`), since the address is one of these or a vault.

`FoundingInv`, `Undisturbed`, `LoneInv`, `PairInv`, `CatalogueInv`, `TabInv`, `ClientsInv`
and the looser ledger have no run of their own: they were checked by TLC on small
instances before they were proved, and the runs check what follows from them.

Only model-checked: `QuietPositionMatchesChain` beyond the cases above, where it is false in
general (the job confirms a second deposit without crediting it, and of two overlapping
bookings one may overwrite the other); and everything under fairness, since
liveness and ENABLED are out of the prover's reach. `ConfirmedDepositsApplied` is false, as
`MCLostDeposit` shows.

## 5. Not modelled, and the plan

Not modelled: the audit log (append-only, never read); the history endpoint and the
health probes (reads that keep nothing); the value of a position (arithmetic on
decimal strings and the liquidity index, while all amounts here are 1:1); password
hashing, token signing and header parsing (library code); connection handling of
Redis and PostgreSQL; layout and formatting of the frontend, and its pages that only
show; gas estimation; the digits PostgreSQL keeps of an amount (`Decimal(36,18)`, which
holds base units below 10^18, less than one whole token of 18 decimals).

Left of the plan: the value formula against a reference definition; conditions
on overlapping deposits and withdrawals, weaker than one of each, under which the books
stay exact.

### Observed while modelling

Without a run of their own; each was seen in a run or follows from the lines
named in `PROJECT.json`.

Deposits, withdrawals and the job:

* Two deposits into an existing position pass the check for an open one together
  and both become open; withdrawals have the same check-then-write and do not read the
  position's status again before `markWithdrawing`.
* Of two withdrawals checked together the first can close the position; the second
  then reverts and `markActive` (`earn-withdraw.service.ts:205`) makes the closed
  position ACTIVE without a share. The next full withdrawal passes every check and is
  refused by the pool.
* A deposit credited between the read and the write of `subtractWithdraw` is
  overwritten.
* A full withdrawal sends maxUint256 and burns all aTokens of the wallet, whatever
  amount was recorded.
* A failure after the broadcast overwrites SUBMITTED with FAILED; the job never
  looks at the row again. The lost answer to a confirming COMMIT even overwrites
  CONFIRMED with FAILED, next to amounts that stay booked.
* A withdrawal whose handler dies leaves the position WITHDRAWING for ever; the job
  confirms a withdrawal without subtracting when the position is no longer
  WITHDRAWING; the catch block of a first deposit may mark a position FAILED that the
  job has activated.
* A provider call repeated after a lost answer sends a second transaction, because
  the provider's idempotency key is made inside the repeated operation; a faucet
  request mints twice for the same reason. An approval sent twice sets the allowance
  twice: when the second one is mined after a deposit, an allowance that was used up
  is there again, and more can be deposited than was approved (`resent`).
* `src/README.md:105` says that a full withdrawal uses the lesser of the position and
  the aToken balance, because of Aave's rounding; `earn-withdraw.service.ts:101-117`
  refuses it when the wallet holds a unit less. `MoneyInCanLeave` states what the code
  does, and `MCCatalogue` has balances that drift both ways.
* `src/docs/production-readiness-report.md:40` counts on the Redis lock against
  duplicate workers. A run over up to 100 rows, each waiting up to 3 s for a receipt,
  outlives the 25 s of the lock, and the next run starts beside it.

Accounts, wallets, catalogue:

* The loser of two racing registrations gets the unique key's error as 500, not 409.
* A position filled from two wallets cannot be withdrawn in full at once: no wallet
  holds that many aTokens.
* A vault that is moved to another chain keeps its old chain in its row: deposits go
  on, withdrawals and lists answer 404.
* One vault that is disabled or misconfigured fails `GET /positions` and `GET /vaults`
  as a whole; `VAULT_DISABLED` is never answered, since the look-up answers 404 first;
  the preview does not check the deposit switch, the mainnet switch or a disabled
  chain.
* An error that `getWallet` maps to 502 is not repeated by the inner `withRetry` and
  then repeated by the outer one; a 429 under another name is repeated and then
  answered 400; the signing check is outside `execute`, so a provider error becomes
  500.
* A position's value multiplies shares by the liquidity index although aTokens
  already grow; `formatApy` of the frontend multiplies a percentage by 100.

Clients:

* After a second creation without a refresh two cards are flagged primary; an answer
  that comes after its session puts another user's wallets on the screen.
* The API clears the primary flags before it asks the provider for a wallet and stores the
  wallet seconds later. A creation the tab has given up can clear the flags after the
  tab has refreshed, and a wallet stored late is primary beside one created meanwhile.
* `WithdrawModal` sends the primary wallet, not the wallet of the position: a full
  withdrawal is refused after the primary wallet has changed.
* A deposit answered REVERTED is HTTP 200 and the tab goes to the portfolio as after a
  success; an approval answered REVERTED shows "Approval complete"; a deposit that
  finishes after its page was left still navigates; a failed load keeps the form of
  the vault before.

## 6. Running

    tlc -workers 2 -config MCDeposits.cfg MCEarn.tla
    tlc -workers 2 -config MCMutation.cfg MCMutation.tla
    tlc -workers 2 -config MCAccounts.cfg MCAccounts.tla
    tlapm EarnProofs.tla
