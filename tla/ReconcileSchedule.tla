-------------------------- MODULE ReconcileSchedule -------------------------
(***************************************************************************)
(* When reconciliation runs: the repeated BullMQ job, its workers on the   *)
(* API instances, the Redis lock that is to keep runs apart, and the list  *)
(* of SUBMITTED rows a run takes.  What a run does to one row is module    *)
(* Reconciliation; here a row is settled or not.                           *)
(*                                                                         *)
(* Timers count down in ticks.  BullMQ and Redis are not part of the       *)
(* repository: a job is repeated, retried after an error, and handed to    *)
(* another worker when its own stops renewing it.                          *)
(***************************************************************************)
EXTENDS Integers, Sequences, SequencesExt, FiniteSets

CONSTANTS
    Workers,      \* a BullMQ worker per API instance, concurrency 1
    Jobs,         \* job ids; an id is used again after its job has gone
    Rows,         \* transaction rows with a hash
    BatchLimit,   \* rows a run takes: 100
    Ttl,          \* LOCK_TTL_SECONDS: 25
    RetryDelay,   \* waiting for a missing receipt: 1 s + 2 s
    Interval,     \* TRANSACTION_RECONCILIATION_INTERVAL_MS: 30 s
    MaxAttempts,  \* attempts of a job: 3
    Prompt,       \* do runs take no time but the waiting for receipts?
    MaxFaults,    \* bound on errors, crashes and stalled jobs
    Nobody        \* no worker, no job

ASSUME ScheduleAssumption ==
    /\ Nobody \notin Workers \cup Jobs
    /\ BatchLimit \in Nat \ {0} /\ Ttl \in Nat \ {0}
    /\ RetryDelay \in Nat /\ Interval \in Nat
    /\ MaxAttempts \in Nat \ {0} /\ MaxFaults \in Nat
    /\ Prompt \in BOOLEAN

VARIABLES
    submitted,  \* SUBMITTED rows, least recently updated first
    mined,      \* rows whose transaction has a receipt
    settled,    \* rows a run has confirmed or reverted
    job,        \* job[j]: the job with id j
    run,        \* run[w]: what worker w is doing
    lock,       \* key reconciliation:lock
    nextIn,     \* time to the next iteration of the job
    overran,    \* history: has a run been active when its lock expired?
    faults

vars == <<submitted, mined, settled, job, run, lock, nextIn, overran, faults>>

RunPC == {"idle", "acquire", "stale", "scan", "item", "retrying", "release", "delete"}

\* worker: whose completion of the job BullMQ accepts.
Job == [state : {"absent", "waiting", "active"}, tries : 0..(MaxAttempts - 1),
        worker : Workers \cup {Nobody}]

\* failed: the run has thrown, and only the finally block is left.
Run == [pc : RunPC, job : Jobs \cup {Nobody}, todo : Seq(Rows), delay : 0..RetryDelay,
        failed : BOOLEAN]

\* owner: the worker whose SET NX took the lock; jobId: the value it wrote.
Lock == [owner : Workers \cup {Nobody}, jobId : Jobs \cup {Nobody}, ttl : 0..Ttl]

NoJob == [state |-> "absent", tries |-> 0, worker |-> Nobody]

IdleRun == [pc |-> "idle", job |-> Nobody, todo |-> <<>>, delay |-> 0, failed |-> FALSE]

FreeLock == [owner |-> Nobody, jobId |-> Nobody, ttl |-> 0]

TypeOK ==
    /\ submitted \in Seq(Rows)
    /\ mined \in SUBSET Rows
    /\ settled \in SUBSET Rows
    /\ job \in [Jobs -> Job]
    /\ run \in [Workers -> Run]
    /\ lock \in Lock
    /\ nextIn \in 0..Interval
    /\ overran \in BOOLEAN
    /\ faults \in Nat

Init ==
    /\ submitted = <<>>
    /\ mined = {}
    /\ settled = {}
    /\ job = [j \in Jobs |-> NoJob]
    /\ run = [w \in Workers |-> IdleRun]
    /\ lock = FreeLock
    /\ nextIn = 0
    /\ overran = FALSE
    /\ faults = 0

At(w, pc) == run[w].pc = pc

Goto(w, pc) == run' = [run EXCEPT ![w].pc = pc]

Fault == faults < MaxFaults /\ faults' = faults + 1

\* Between the acquisition of the lock and the end of its release.
ActivePC == {"stale", "scan", "item", "retrying", "release", "delete"}

Active(w) == run[w].pc \in ActivePC

UnchangedRows == UNCHANGED <<submitted, mined, settled>>

-----------------------------------------------------------------------------
(* Rows: handlers mark them SUBMITTED, the chain mines them *)

Submit(r) ==
    /\ r \notin settled /\ r \notin ToSet(submitted)
    /\ submitted' = Append(submitted, r)
    /\ UNCHANGED <<mined, settled, job, run, lock, nextIn, overran, faults>>

Mine(r) ==
    /\ r \in ToSet(submitted) \ mined
    /\ mined' = mined \cup {r}
    /\ UNCHANGED <<submitted, settled, job, run, lock, nextIn, overran, faults>>

-----------------------------------------------------------------------------
(* The job queue *)

\* The next iteration of the repeated job.
Schedule(j) ==
    /\ nextIn = 0
    /\ job[j] = NoJob
    /\ job' = [job EXCEPT ![j].state = "waiting"]
    /\ nextIn' = Interval
    /\ UnchangedRows /\ UNCHANGED <<run, lock, overran, faults>>

\* processJob
TakeJob(w, j) ==
    /\ At(w, "idle")
    /\ job[j].state = "waiting"
    /\ job' = [job EXCEPT ![j].state = "active", ![j].worker = w]
    /\ run' = [run EXCEPT ![w] = [IdleRun EXCEPT !.pc = "acquire", !.job = j]]
    /\ UnchangedRows /\ UNCHANGED <<lock, nextIn, overran, faults>>

\* The job of a worker that died is given to another.
Requeue(j) ==
    /\ job[j].state = "active"
    /\ \A w \in Workers : run[w].job # j
    /\ job' = [job EXCEPT ![j].state = "waiting", ![j].worker = Nobody]
    /\ UnchangedRows /\ UNCHANGED <<run, lock, nextIn, overran, faults>>

\* The same while the worker lives, but could not renew the job in time.
Stall(j) ==
    /\ job[j].state = "active"
    /\ Fault
    /\ job' = [job EXCEPT ![j].state = "waiting", ![j].worker = Nobody]
    /\ UnchangedRows /\ UNCHANGED <<run, lock, nextIn, overran>>

\* The worker reports the end of its job; after an error the job is tried
\* again under the same id, as long as it has attempts left.
JobAfter(w, j, failed) ==
    IF job[j].worker # w THEN job[j]
    ELSE IF failed /\ job[j].tries + 1 < MaxAttempts
         THEN [state |-> "waiting", tries |-> job[j].tries + 1, worker |-> Nobody]
         ELSE NoJob

EndJob(w, failed) ==
    /\ job' = [job EXCEPT ![run[w].job] = JobAfter(w, run[w].job, failed)]
    /\ run' = [run EXCEPT ![w] = IdleRun]

-----------------------------------------------------------------------------
(* ReconciliationLockService *)

\* Mutant: the key is set without NX.
AlwaysFree == TRUE

LockIsFree == lock.ttl = 0

TakeLock(w) == lock' = [owner |-> w, jobId |-> run[w].job, ttl |-> Ttl]

\* Mutant: acquire is inside of the try block, and release deletes blindly.
AcquireInsideTry(w) ==
    /\ At(w, "acquire")
    /\ \/ LockIsFree /\ TakeLock(w) /\ Goto(w, "stale") /\ UNCHANGED job
       \/ ~LockIsFree /\ EndJob(w, FALSE) /\ lock' = FreeLock
    /\ UnchangedRows /\ UNCHANGED <<nextIn, overran, faults>>

\* acquire: SET NX EX; a run that does not get the lock is skipped.
Acquire(w) ==
    /\ At(w, "acquire")
    /\ \/ LockIsFree /\ TakeLock(w) /\ Goto(w, "stale") /\ UNCHANGED job
       \/ ~LockIsFree /\ EndJob(w, FALSE) /\ UNCHANGED lock
    /\ UnchangedRows /\ UNCHANGED <<nextIn, overran, faults>>

\* The command fails or its answer is lost: the error leaves
\* reconcilePendingTransactions before its try block.
AcquireThrows(w) ==
    /\ At(w, "acquire")
    /\ Fault
    /\ \/ LockIsFree /\ lock' = [owner |-> Nobody, jobId |-> run[w].job, ttl |-> Ttl]
       \/ UNCHANGED lock
    /\ EndJob(w, TRUE)
    /\ UnchangedRows /\ UNCHANGED <<nextIn, overran>>

\* release, GET
ReadLock(w) ==
    /\ At(w, "release")
    /\ \/ lock.jobId = run[w].job /\ Goto(w, "delete") /\ UNCHANGED job
       \/ lock.jobId # run[w].job /\ EndJob(w, run[w].failed)
    /\ UnchangedRows /\ UNCHANGED <<lock, nextIn, overran, faults>>

\* release, DEL
DeleteLock(w) ==
    /\ At(w, "delete")
    /\ lock' = FreeLock
    /\ EndJob(w, run[w].failed)
    /\ UnchangedRows /\ UNCHANGED <<nextIn, overran, faults>>

\* GET or DEL fails, the latter executed or not.
ReleaseThrows(w) ==
    /\ run[w].pc \in {"release", "delete"}
    /\ Fault
    /\ UNCHANGED lock \/ (At(w, "delete") /\ lock' = FreeLock)
    /\ EndJob(w, TRUE)
    /\ UnchangedRows /\ UNCHANGED <<nextIn, overran>>

-----------------------------------------------------------------------------
(* runReconciliation *)

\* reconcileStaleCreatedTransactions
StaleRows(w) ==
    /\ At(w, "stale")
    /\ Goto(w, "scan")
    /\ UnchangedRows /\ UNCHANGED <<job, lock, nextIn, overran, faults>>

\* Mutant: the most recently updated rows first.
NewestRows == SubSeq(submitted, IF Len(submitted) < BatchLimit THEN 1
                                ELSE Len(submitted) - BatchLimit + 1, Len(submitted))

\* findPendingReconciliation: the least recently updated rows first.
Batch == SubSeq(submitted, 1, IF Len(submitted) < BatchLimit THEN Len(submitted)
                              ELSE BatchLimit)

Scan(w) ==
    /\ At(w, "scan")
    /\ run' = [run EXCEPT ![w].pc = "item", ![w].todo = Batch]
    /\ UnchangedRows /\ UNCHANGED <<job, lock, nextIn, overran, faults>>

\* The loops over stale rows and the query are outside of any catch: an error
\* ends the run.
ScanThrows(w) ==
    /\ run[w].pc \in {"stale", "scan"}
    /\ Fault
    /\ run' = [run EXCEPT ![w].pc = "release", ![w].failed = TRUE]
    /\ UnchangedRows /\ UNCHANGED <<job, lock, nextIn, overran>>

NextItem(w) == run' = [run EXCEPT ![w].pc = "item", ![w].todo = Tail(@)]

SubmittedWithout(r) ==
    IF r \in ToSet(submitted)
    THEN RemoveAt(submitted, CHOOSE i \in DOMAIN submitted : submitted[i] = r)
    ELSE submitted

\* reconcileTransaction of a row with a receipt: confirmed or reverted.
SettleRow(w) ==
    /\ At(w, "item") \/ (At(w, "retrying") /\ run[w].delay = 0)
    /\ run[w].todo # <<>> /\ Head(run[w].todo) \in mined
    /\ submitted' = SubmittedWithout(Head(run[w].todo))
    /\ settled' = settled \cup {Head(run[w].todo)}
    /\ NextItem(w)
    /\ UNCHANGED <<mined, job, lock, nextIn, overran, faults>>

\* getTransactionReceiptWithRetry: no receipt yet, ask again after a delay.
AwaitReceipt(w) ==
    /\ At(w, "item")
    /\ run[w].todo # <<>> /\ Head(run[w].todo) \notin mined
    /\ run' = [run EXCEPT ![w].pc = "retrying", ![w].delay = RetryDelay]
    /\ UnchangedRows /\ UNCHANGED <<job, lock, nextIn, overran, faults>>

SkipItem(w) == NextItem(w)

\* The last try has found no receipt; the error is logged, the row stays.
GiveUpRow(w) ==
    /\ At(w, "retrying")
    /\ run[w].delay = 0 /\ Head(run[w].todo) \notin mined
    /\ SkipItem(w)
    /\ UnchangedRows /\ UNCHANGED <<job, lock, nextIn, overran, faults>>

\* The same for an error of the database.
RowThrows(w) ==
    /\ At(w, "item") /\ run[w].todo # <<>>
    /\ Fault
    /\ SkipItem(w)
    /\ UnchangedRows /\ UNCHANGED <<job, lock, nextIn, overran>>

EndRun(w) ==
    /\ At(w, "item")
    /\ run[w].todo = <<>>
    /\ Goto(w, "release")
    /\ UnchangedRows /\ UNCHANGED <<job, lock, nextIn, overran, faults>>

-----------------------------------------------------------------------------
(* Crashes and time *)

Crash(w) ==
    /\ ~At(w, "idle")
    /\ Fault
    /\ run' = [run EXCEPT ![w] = IdleRun]
    /\ UnchangedRows /\ UNCHANGED <<job, lock, nextIn, overran>>

Waiting(w) == At(w, "idle") \/ (At(w, "retrying") /\ run[w].delay > 0)

CountDown(n) == IF n = 0 THEN 0 ELSE n - 1

Tick ==
    /\ Prompt => \A w \in Workers : Waiting(w)
    /\ lock' = IF lock.ttl = 1 THEN FreeLock ELSE [lock EXCEPT !.ttl = CountDown(@)]
    /\ overran' = (overran \/ (lock.ttl = 1 /\ \E w \in Workers : lock.owner = w /\ Active(w)))
    /\ run' = [w \in Workers |-> [run[w] EXCEPT !.delay = CountDown(@)]]
    /\ nextIn' = CountDown(nextIn)
    /\ UnchangedRows /\ UNCHANGED <<job, faults>>

-----------------------------------------------------------------------------

RunStep(w) ==
    \/ \E j \in Jobs : TakeJob(w, j)
    \/ Acquire(w) \/ ReadLock(w) \/ DeleteLock(w)
    \/ StaleRows(w) \/ Scan(w) \/ SettleRow(w) \/ AwaitReceipt(w) \/ GiveUpRow(w) \/ EndRun(w)

RunFault(w) ==
    AcquireThrows(w) \/ ReleaseThrows(w) \/ ScanThrows(w) \/ RowThrows(w) \/ Crash(w)

Next ==
    \/ \E r \in Rows : Submit(r) \/ Mine(r)
    \/ \E j \in Jobs : Schedule(j) \/ Requeue(j) \/ Stall(j)
    \/ \E w \in Workers : RunStep(w) \/ RunFault(w)
    \/ Tick

Spec == Init /\ [][Next]_vars

\* Time passes, the queue repeats and re-delivers jobs, a worker that has a
\* job goes on.  Nothing forces a transaction to be mined.
FairSpec ==
    /\ Spec
    /\ WF_vars(Tick)
    /\ WF_vars(\E j \in Jobs : Schedule(j))
    /\ \A j \in Jobs : WF_vars(Requeue(j))
    /\ \A w \in Workers : WF_vars(RunStep(w))

-----------------------------------------------------------------------------
(* Properties *)

\* The lock of an active run is its own, until it expires under it.
ActiveRunHoldsLock ==
    ~overran => \A w \in Workers : Active(w) => lock.owner = w /\ lock.ttl > 0

\* The key exists exactly while it has time to live.
ExpiredLockIsGone == lock.ttl = 0 => lock = FreeLock

\* A busy worker has a job, and one that waits for a receipt has a row.
BusyRunHasJob ==
    \A w \in Workers :
        /\ ~At(w, "idle") => run[w].job \in Jobs
        /\ At(w, "retrying") => run[w].todo # <<>>

\* The inductive invariant: an active run owns the lock, until it expires
\* under it.
ScheduleInv == TypeOK /\ ActiveRunHoldsLock /\ ExpiredLockIsGone /\ BusyRunHasJob

\* Two runs are active at once only after a run has outlived the 25 seconds of
\* its lock, whichever commands and instances fail, and however jobs are
\* repeated, retried and re-delivered: a run that got no lock releases none.
NoOverlapWithinTtl ==
    ~overran => \A v, w \in Workers : Active(v) /\ Active(w) => v = w

\* Rows before r on the list whose receipt has not come.
StuckBefore(r) ==
    {q \in ToSet(submitted) \ mined :
        \E i, j \in DOMAIN submitted : i < j /\ submitted[i] = q /\ submitted[j] = r}

\* A mined row is settled after some run, although runs are skipped, fail, die
\* and lose their lock, and rows whose receipt does not come stay before it -
\* as long as those do not fill the list a run takes.
MinedRowsSettle ==
    \A r \in Rows :
        r \in ToSet(submitted) \cap mined
            ~> r \in settled \/ Cardinality(StuckBefore(r)) >= BatchLimit
=============================================================================
