--------------------------- MODULE ScheduleProofs ---------------------------
(***************************************************************************)
(* While no run outlives its lock, runs do not overlap: for any number of  *)
(* workers, jobs and rows, any limits, and any failures.                   *)
(***************************************************************************)
EXTENDS ReconcileSchedule, TLAPS

LEMMA ConstantTypes ==
    /\ NoJob \in Job /\ IdleRun \in Run /\ FreeLock \in Lock
    /\ \A w \in Workers, j \in Jobs : [owner |-> w, jobId |-> j, ttl |-> Ttl] \in Lock
    /\ \A j \in Jobs : [owner |-> Nobody, jobId |-> j, ttl |-> Ttl] \in Lock
<1>1. NoJob \in Job
    BY ScheduleAssumption DEF NoJob, Job
<1>2. IdleRun \in Run
    BY ScheduleAssumption DEF IdleRun, Run, RunPC
<1>3. FreeLock \in Lock
    BY ScheduleAssumption DEF FreeLock, Lock
<1> QED
    BY <1>1, <1>2, <1>3, ScheduleAssumption DEF Lock

LEMMA ScheduleInit == Init => ScheduleInv
<1> SUFFICES ASSUME Init PROVE ScheduleInv
    OBVIOUS
<1>1. TypeOK
    <2>1. submitted \in Seq(Rows) /\ mined \in SUBSET Rows /\ settled \in SUBSET Rows
        BY DEF Init
    <2>2. job \in [Jobs -> Job] /\ run \in [Workers -> Run] /\ lock \in Lock
        BY ConstantTypes DEF Init
    <2>3. nextIn = 0 /\ overran = FALSE /\ faults = 0 /\ Interval \in Nat
        BY ScheduleAssumption DEF Init
    <2>4. nextIn \in 0..Interval /\ faults \in Nat
        BY <2>3
    <2>5. overran \in BOOLEAN
        BY <2>3
    <2> QED
        BY <2>1, <2>2, <2>4, <2>5 DEF TypeOK
<1>2. \A w \in Workers : run[w].pc = "idle"
    BY DEF Init, IdleRun
<1>3. lock = FreeLock
    BY DEF Init
<1> QED
    BY <1>1, <1>2, <1>3
    DEF ScheduleInv, ActiveRunHoldsLock, ExpiredLockIsGone, BusyRunHasJob, Active, ActivePC, At

\* The row lists stay lists of rows.
LEMMA RowLists ==
    ASSUME submitted \in Seq(Rows)
    PROVE  /\ Batch \in Seq(Rows)
           /\ \A r \in Rows : SubmittedWithout(r) \in Seq(Rows) /\ Append(submitted, r) \in Seq(Rows)
           /\ \A t \in Seq(Rows) : t # <<>> => Head(t) \in Rows /\ Tail(t) \in Seq(Rows)
<1>1. Batch \in Seq(Rows)
    BY ScheduleAssumption DEF Batch
<1>2. ASSUME NEW r \in Rows PROVE SubmittedWithout(r) \in Seq(Rows)
    <2>1. CASE r \notin ToSet(submitted)
        BY <2>1 DEF SubmittedWithout
    <2>2. CASE r \in ToSet(submitted)
        <3> DEFINE i == CHOOSE n \in DOMAIN submitted : submitted[n] = r
        <3>1. i \in 1..Len(submitted)
            BY <2>2 DEF ToSet
        <3>2. SubmittedWithout(r) = SubSeq(submitted, 1, i - 1) \o SubSeq(submitted, i + 1, Len(submitted))
            BY <2>2 DEF SubmittedWithout, RemoveAt
        <3> HIDE DEF i
        <3> QED
            BY <3>1, <3>2
    <2> QED
        BY <2>1, <2>2
<1> QED
    BY <1>1, <1>2

\* Giving a job back keeps the tables typed.
LEMMA EndJobType ==
    ASSUME TypeOK, NEW w \in Workers, run[w].job \in Jobs, NEW f \in BOOLEAN, EndJob(w, f)
    PROVE  job' \in [Jobs -> Job] /\ run' \in [Workers -> Run]
<1>1. JobAfter(w, run[w].job, f) \in Job
    BY ScheduleAssumption, ConstantTypes DEF JobAfter, TypeOK, Job
<1> QED
    BY <1>1, ConstantTypes DEF EndJob, TypeOK

LEMMA GotoType ==
    ASSUME TypeOK, NEW w \in Workers, NEW pc \in RunPC, Goto(w, pc)
    PROVE  run' \in [Workers -> Run]
<1>1. run[w] \in Run /\ run' = [run EXCEPT ![w].pc = pc]
    BY DEF TypeOK, Goto
<1>2. [run[w] EXCEPT !.pc = pc] \in Run
    BY <1>1 DEF Run
<1> QED
    BY <1>1, <1>2 DEF TypeOK

LEMMA StepType == ScheduleInv /\ [Next]_vars => TypeOK'
<1> SUFFICES ASSUME ScheduleInv, [Next]_vars PROVE TypeOK'
    OBVIOUS
<1> USE ScheduleAssumption
<1>0. TypeOK /\ (\A w \in Workers : ~At(w, "idle") => run[w].job \in Jobs)
             /\ (\A w \in Workers : At(w, "retrying") => run[w].todo # <<>>)
    BY DEF ScheduleInv, BusyRunHasJob
<1>r. /\ Batch \in Seq(Rows)
      /\ \A r \in Rows : SubmittedWithout(r) \in Seq(Rows) /\ Append(submitted, r) \in Seq(Rows)
      /\ \A t \in Seq(Rows) : t # <<>> => Head(t) \in Rows /\ Tail(t) \in Seq(Rows)
    BY <1>0, RowLists DEF TypeOK
<1>1. ASSUME NEW r \in Rows, Submit(r) \/ Mine(r) PROVE TypeOK'
    BY <1>0, <1>1, <1>r DEF Submit, Mine, TypeOK
<1>2. ASSUME NEW j \in Jobs, Schedule(j) \/ Requeue(j) \/ Stall(j) PROVE TypeOK'
    <2>1. \/ job' = [job EXCEPT ![j].state = "waiting"]
          \/ job' = [job EXCEPT ![j].state = "waiting", ![j].worker = Nobody]
        BY <1>2 DEF Schedule, Requeue, Stall
    <2>2. job' \in [Jobs -> Job]
        <3>1. job[j] \in Job
            BY <1>0 DEF TypeOK
        <3>2. /\ [job[j] EXCEPT !.state = "waiting"] \in Job
              /\ [job[j] EXCEPT !.state = "waiting", !.worker = Nobody] \in Job
            BY <3>1 DEF Job
        <3>3. \/ job' = [job EXCEPT ![j] = [job[j] EXCEPT !.state = "waiting"]]
              \/ job' = [job EXCEPT ![j] = [job[j] EXCEPT !.state = "waiting", !.worker = Nobody]]
            BY <2>1
        <3> QED
            BY <1>0, <3>2, <3>3 DEF TypeOK
    <2>3. /\ UnchangedRows /\ UNCHANGED <<run, lock, overran>>
          /\ nextIn' \in {nextIn, Interval} /\ faults' \in {faults, faults + 1}
        BY <1>2 DEF Schedule, Requeue, Stall, Fault
    <2> QED
        BY <1>0, <2>2, <2>3 DEF UnchangedRows, TypeOK
<1>3. ASSUME NEW w \in Workers, NEW j \in Jobs, TakeJob(w, j) PROVE TypeOK'
    <2>1. [IdleRun EXCEPT !.pc = "acquire", !.job = j] \in Run
        BY ConstantTypes DEF Run, RunPC
    <2> QED
        BY <1>0, <1>3, <2>1 DEF TakeJob, UnchangedRows, TypeOK, Job
<1>4. ASSUME NEW w \in Workers, Acquire(w) \/ AcquireThrows(w) PROVE TypeOK'
    <2>1. run[w].job \in Jobs
        BY <1>0, <1>4 DEF Acquire, AcquireThrows, At
    <2>2. lock' \in Lock
        <3>1. lock \in Lock
            BY <1>0 DEF TypeOK
        <3>2. lock' \in {lock, [owner |-> w, jobId |-> run[w].job, ttl |-> Ttl],
                         [owner |-> Nobody, jobId |-> run[w].job, ttl |-> Ttl]}
            BY <1>4 DEF Acquire, AcquireThrows, TakeLock
        <3> QED
            BY <2>1, <3>1, <3>2, ConstantTypes
    <2>3. job' \in [Jobs -> Job] /\ run' \in [Workers -> Run]
        <3>1. CASE \E f \in BOOLEAN : EndJob(w, f)
            BY <1>0, <2>1, <3>1, EndJobType
        <3>2. CASE UNCHANGED job /\ Goto(w, "stale")
            BY <1>0, <3>2, GotoType DEF TypeOK, RunPC
        <3> QED
            BY <1>4, <3>1, <3>2 DEF Acquire, AcquireThrows
    <2>4. UnchangedRows /\ UNCHANGED <<nextIn, overran>> /\ faults' \in {faults, faults + 1}
        BY <1>4 DEF Acquire, AcquireThrows, Fault
    <2> QED
        BY <1>0, <2>2, <2>3, <2>4 DEF UnchangedRows, TypeOK
<1>5. ASSUME NEW w \in Workers, ReadLock(w) \/ DeleteLock(w) \/ ReleaseThrows(w) PROVE TypeOK'
    <2>1. run[w].job \in Jobs /\ run[w].failed \in BOOLEAN
        BY <1>0, <1>5 DEF ReadLock, DeleteLock, ReleaseThrows, At, TypeOK, Run
    <2>2. lock' \in Lock
        BY <1>0, <1>5, ConstantTypes DEF ReadLock, DeleteLock, ReleaseThrows, TypeOK
    <2>3. job' \in [Jobs -> Job] /\ run' \in [Workers -> Run]
        <3>1. CASE \E f \in BOOLEAN : EndJob(w, f)
            BY <1>0, <2>1, <3>1, EndJobType
        <3>2. CASE UNCHANGED job /\ Goto(w, "delete")
            BY <1>0, <3>2, GotoType DEF TypeOK, RunPC
        <3> QED
            BY <1>5, <2>1, <3>1, <3>2 DEF ReadLock, DeleteLock, ReleaseThrows
    <2>4. UnchangedRows /\ UNCHANGED <<nextIn, overran>> /\ faults' \in {faults, faults + 1}
        BY <1>5 DEF ReadLock, DeleteLock, ReleaseThrows, Fault
    <2> QED
        BY <1>0, <2>2, <2>3, <2>4 DEF UnchangedRows, TypeOK
<1>6. ASSUME NEW w \in Workers,
             StaleRows(w) \/ Scan(w) \/ ScanThrows(w) \/ AwaitReceipt(w) \/ EndRun(w) \/ Crash(w)
      PROVE  TypeOK'
    <2>0. /\ run \in [Workers -> Run] /\ Batch \in Seq(Rows) /\ RetryDelay \in 0..RetryDelay
          /\ IdleRun \in Run
        BY <1>0, <1>r, ConstantTypes DEF TypeOK
    <2>1. CASE StaleRows(w) \/ EndRun(w)
        <3>1. ASSUME NEW pc \in RunPC, Goto(w, pc) PROVE run' \in [Workers -> Run]
            BY <2>0, <3>1 DEF Goto, Run
        <3>2. run' \in [Workers -> Run]
            BY <2>1, <3>1 DEF StaleRows, EndRun, RunPC
        <3> QED
            BY <2>1, <3>2, <1>0 DEF StaleRows, EndRun, UnchangedRows, TypeOK
    <2>2. CASE Scan(w)
        <3>1. run' \in [Workers -> Run]
            BY <2>0, <2>2 DEF Scan, Run, RunPC
        <3> QED
            BY <2>2, <3>1, <1>0 DEF Scan, UnchangedRows, TypeOK
    <2>3. CASE ScanThrows(w)
        <3>1. run' \in [Workers -> Run]
            BY <2>0, <2>3 DEF ScanThrows, Run, RunPC
        <3> QED
            BY <2>3, <3>1, <1>0 DEF ScanThrows, Fault, UnchangedRows, TypeOK
    <2>4. CASE AwaitReceipt(w)
        BY <2>0, <2>4, <1>0 DEF AwaitReceipt, UnchangedRows, TypeOK, Run, RunPC
    <2>5. CASE Crash(w)
        BY <2>0, <2>5, <1>0 DEF Crash, Fault, UnchangedRows, TypeOK
    <2> QED
        BY <1>6, <2>1, <2>2, <2>3, <2>4, <2>5
<1>7. ASSUME NEW w \in Workers, SettleRow(w) \/ GiveUpRow(w) \/ RowThrows(w) PROVE TypeOK'
    <2>0. run \in [Workers -> Run] /\ run[w].todo # <<>> /\ run[w].todo \in Seq(Rows)
        BY <1>0, <1>7 DEF SettleRow, GiveUpRow, RowThrows, TypeOK, Run
    <2>1. Head(run[w].todo) \in Rows /\ Tail(run[w].todo) \in Seq(Rows)
        BY <2>0, <1>r
    <2>2. run' = [run EXCEPT ![w].pc = "item", ![w].todo = Tail(run[w].todo)]
        BY <1>7 DEF SettleRow, GiveUpRow, RowThrows, SkipItem, NextItem
    <2>3. run' \in [Workers -> Run]
        BY <2>0, <2>1, <2>2 DEF Run, RunPC
    <2>4. CASE SettleRow(w)
        BY <1>0, <1>r, <2>1, <2>3, <2>4 DEF SettleRow, TypeOK
    <2>5. CASE GiveUpRow(w) \/ RowThrows(w)
        BY <1>0, <2>3, <2>5 DEF GiveUpRow, RowThrows, Fault, UnchangedRows, TypeOK
    <2> QED
        BY <1>7, <2>4, <2>5
<1>8. CASE Tick
    <2>1. \A n \in Nat : CountDown(n) \in 0..n
        BY DEF CountDown
    <2>2. \A n \in Nat : \A d \in 0..n : CountDown(d) \in 0..n
        BY DEF CountDown
    <2>3. ASSUME NEW w \in Workers PROVE [run[w] EXCEPT !.delay = CountDown(@)] \in Run
        <3>1. run[w] \in Run /\ CountDown(run[w].delay) \in 0..RetryDelay
            BY <1>0, <2>2 DEF TypeOK, Run
        <3> QED
            BY <3>1 DEF Run
    <2>4. [lock EXCEPT !.ttl = CountDown(@)] \in Lock
        <3>1. lock \in Lock /\ CountDown(lock.ttl) \in 0..Ttl
            BY <1>0, <2>2 DEF TypeOK, Lock
        <3> QED
            BY <3>1 DEF Lock
    <2>5. lock' \in Lock /\ nextIn' \in 0..Interval /\ run' \in [Workers -> Run]
        BY <1>0, <1>8, <2>2, <2>3, <2>4, ConstantTypes DEF Tick, TypeOK
    <2>6. overran' \in BOOLEAN
        BY <1>8 DEF Tick
    <2> QED
        BY <1>0, <1>8, <2>5, <2>6 DEF Tick, UnchangedRows, TypeOK
<1>9. CASE UNCHANGED vars
    BY <1>0, <1>9 DEF vars, TypeOK
<1> QED
    BY <1>1, <1>2, <1>3, <1>4, <1>5, <1>6, <1>7, <1>8, <1>9 DEF Next, RunStep, RunFault
-----------------------------------------------------------------------------

\* A step of worker w leaves the other runs alone; w's own run is idle after
\* it, or has its job still.
LEMMA StepBusy == ScheduleInv /\ [Next]_vars => BusyRunHasJob'
<1> SUFFICES ASSUME ScheduleInv, [Next]_vars PROVE BusyRunHasJob'
    OBVIOUS
<1> USE DEF At, Run
<1>0. /\ run \in [Workers -> Run]
      /\ \A w \in Workers : /\ run[w].pc # "idle" => run[w].job \in Jobs
                            /\ run[w].pc = "retrying" => run[w].todo # <<>>
    BY DEF ScheduleInv, BusyRunHasJob, TypeOK
<1>1. CASE run' = run
    BY <1>0, <1>1 DEF BusyRunHasJob
<1>2. ASSUME NEW w \in Workers,
             run' = [run EXCEPT ![w] = IdleRun]
      PROVE  BusyRunHasJob'
    BY <1>0, <1>2 DEF BusyRunHasJob, IdleRun
<1>3. ASSUME NEW w \in Workers, NEW j \in Jobs, TakeJob(w, j) PROVE BusyRunHasJob'
    BY <1>0, <1>3 DEF BusyRunHasJob, IdleRun, TakeJob
<1>4. ASSUME NEW w \in Workers, NEW pc \in {"stale", "scan", "release", "delete"},
             run[w].pc # "idle", Goto(w, pc)
      PROVE  BusyRunHasJob'
    BY <1>0, <1>4 DEF BusyRunHasJob, Goto
<1>5. ASSUME NEW w \in Workers, Scan(w) PROVE BusyRunHasJob'
    BY <1>0, <1>5 DEF BusyRunHasJob, Scan
<1>6. ASSUME NEW w \in Workers, ScanThrows(w) PROVE BusyRunHasJob'
    BY <1>0, <1>6 DEF BusyRunHasJob, ScanThrows
<1>7. ASSUME NEW w \in Workers, AwaitReceipt(w) PROVE BusyRunHasJob'
    BY <1>0, <1>7 DEF BusyRunHasJob, AwaitReceipt
<1>8. ASSUME NEW w \in Workers, run[w].pc # "idle", NextItem(w) PROVE BusyRunHasJob'
    BY <1>0, <1>8 DEF BusyRunHasJob, NextItem
<1>9. CASE Tick
    BY <1>0, <1>9 DEF BusyRunHasJob, Tick
<1> QED
    <2>1. ASSUME NEW w \in Workers, RunStep(w) \/ RunFault(w) PROVE BusyRunHasJob'
        BY <2>1, <1>2, <1>3, <1>4, <1>5, <1>6, <1>7, <1>8
        DEF RunStep, RunFault, Acquire, ReadLock, DeleteLock, StaleRows, SettleRow, GiveUpRow,
            EndRun, AcquireThrows, ReleaseThrows, RowThrows, Crash, EndJob, SkipItem
    <2>2. ASSUME NEW r \in Rows, Submit(r) \/ Mine(r) PROVE BusyRunHasJob'
        BY <2>2, <1>1 DEF Submit, Mine
    <2>3. ASSUME NEW j \in Jobs, Schedule(j) \/ Requeue(j) \/ Stall(j) PROVE BusyRunHasJob'
        BY <2>3, <1>1 DEF Schedule, Requeue, Stall
    <2> QED
        BY <2>1, <2>2, <2>3, <1>1, <1>9 DEF Next, vars
\* Who owns the lock changes with acquire, with the DEL of a release, and
\* when the key expires.
LEMMA StepLock == ScheduleInv /\ [Next]_vars => ActiveRunHoldsLock' /\ ExpiredLockIsGone'
<1> SUFFICES ASSUME ScheduleInv, [Next]_vars PROVE ActiveRunHoldsLock' /\ ExpiredLockIsGone'
    OBVIOUS
<1> USE ScheduleAssumption DEF Active, ActivePC, At
<1> DEFINE Goal == ActiveRunHoldsLock' /\ ExpiredLockIsGone'
<1>0. /\ run \in [Workers -> Run] /\ lock \in Lock /\ lock.ttl \in Nat
      /\ \A w \in Workers : run[w] \in Run /\ run[w].pc \in RunPC
    BY DEF ScheduleInv, TypeOK, Lock, Run
<1>a. /\ ~overran => \A w \in Workers : Active(w) => lock.owner = w /\ lock.ttl > 0
      /\ lock.ttl = 0 => lock = FreeLock
    BY DEF ScheduleInv, ActiveRunHoldsLock, ExpiredLockIsGone
\* A step that leaves the lock alone, and does not make a run active.
<1>1. ASSUME lock' = lock, overran' = overran,
             \A w \in Workers : Active(w)' => Active(w)
      PROVE  Goal
    BY <1>a, <1>1 DEF ActiveRunHoldsLock, ExpiredLockIsGone
\* The owner of the lock removes it and becomes idle.
<1>2. ASSUME NEW w \in Workers, Active(w), lock' = FreeLock, overran' = overran,
             run' = [run EXCEPT ![w] = IdleRun]
      PROVE  Goal
    <2>1. \A v \in Workers : Active(v)' => v # w /\ Active(v)
        BY <1>0, <1>2 DEF IdleRun
    <2> QED
        BY <1>a, <1>2, <2>1 DEF ActiveRunHoldsLock, ExpiredLockIsGone
\* A free lock is taken: then no run is active, unless one has overrun.
<1>8. ASSUME NEW w \in Workers, lock.ttl = 0, lock'.ttl = Ttl, overran' = overran,
             \A v \in Workers : Active(v)' => Active(v) \/ (v = w /\ lock'.owner = w)
      PROVE  Goal
    <2>1. ~overran => \A v \in Workers : ~Active(v)
        BY <1>a, <1>8
    <2> QED
        BY <1>8, <2>1 DEF ActiveRunHoldsLock, ExpiredLockIsGone
<1>b. ASSUME NEW w \in Workers, NEW f \in BOOLEAN, EndJob(w, f)
      PROVE  \A v \in Workers : Active(v)' => Active(v)
    BY <1>0, <1>b DEF EndJob, IdleRun
<1>3. ASSUME NEW w \in Workers, Acquire(w) \/ AcquireThrows(w) PROVE Goal
    <2>0. overran' = overran
        BY <1>3 DEF Acquire, AcquireThrows
    <2>1. CASE EndJob(w, FALSE) /\ UNCHANGED lock
        BY <1>1, <1>b, <2>0, <2>1
    <2>2. CASE EndJob(w, TRUE) /\ UNCHANGED lock
        BY <1>1, <1>b, <2>0, <2>2
    <2>3. CASE LockIsFree /\ TakeLock(w) /\ Goto(w, "stale")
        <3>1. \A v \in Workers : Active(v)' => Active(v) \/ v = w
            BY <1>0, <2>3 DEF Goto
        <3>2. lock.ttl = 0 /\ lock'.ttl = Ttl /\ lock'.owner = w
            BY <2>3 DEF LockIsFree, TakeLock
        <3> QED
            BY <1>8, <2>0, <3>1, <3>2
    <2>4. CASE LockIsFree /\ lock' = [owner |-> Nobody, jobId |-> run[w].job, ttl |-> Ttl]
                          /\ EndJob(w, TRUE)
        <3>1. \A v \in Workers : Active(v)' => Active(v)
            BY <1>b, <2>4
        <3>2. lock.ttl = 0 /\ lock'.ttl = Ttl
            BY <2>4 DEF LockIsFree
        <3> QED
            BY <1>8, <2>0, <3>1, <3>2
    <2> QED
        BY <1>3, <2>1, <2>2, <2>3, <2>4 DEF Acquire, AcquireThrows
<1>4. ASSUME NEW w \in Workers, ReadLock(w) \/ DeleteLock(w) \/ ReleaseThrows(w) PROVE Goal
    <2>1. CASE lock' = lock
        <3>1. \A v \in Workers : Active(v)' => Active(v)
            BY <1>0, <1>4 DEF ReadLock, DeleteLock, ReleaseThrows, EndJob, IdleRun, Goto
        <3> QED
            BY <1>1, <1>4, <2>1, <3>1 DEF ReadLock, DeleteLock, ReleaseThrows
    <2>2. CASE lock' # lock
        BY <1>2, <1>4, <2>2 DEF ReadLock, DeleteLock, ReleaseThrows, EndJob
    <2> QED
        BY <2>1, <2>2
<1>5. ASSUME NEW w \in Workers,
             \/ \E j \in Jobs : TakeJob(w, j)
             \/ StaleRows(w) \/ Scan(w) \/ SettleRow(w) \/ AwaitReceipt(w) \/ GiveUpRow(w)
             \/ EndRun(w) \/ ScanThrows(w) \/ RowThrows(w) \/ Crash(w)
      PROVE  Goal
    <2>1. lock' = lock /\ overran' = overran
        BY <1>5 DEF TakeJob, StaleRows, Scan, SettleRow, AwaitReceipt, GiveUpRow, EndRun,
                    ScanThrows, RowThrows, Crash
    <2>2. \A v \in Workers \ {w} : run'[v] = run[v]
        BY <1>0, <1>5 DEF TakeJob, StaleRows, Scan, SettleRow, AwaitReceipt, GiveUpRow, EndRun,
                    ScanThrows, RowThrows, Crash, SkipItem, NextItem, Goto
    <2>3. Active(w)' => Active(w)
        <3>1. CASE \E j \in Jobs : TakeJob(w, j)
            BY <1>0, <3>1 DEF TakeJob
        <3>2. CASE Crash(w)
            BY <1>0, <3>2 DEF Crash, IdleRun
        <3> QED
            BY <1>5, <3>1, <3>2 DEF StaleRows, Scan, SettleRow, AwaitReceipt, GiveUpRow,
                                    EndRun, ScanThrows, RowThrows
    <2> QED
        BY <1>1, <2>1, <2>2, <2>3
<1>6. CASE Tick
    <2>1. \A w \in Workers : run'[w].pc = run[w].pc
        BY <1>0, <1>6 DEF Tick, Run
    <2>2. CASE lock.ttl = 1
        <3>1. lock' = FreeLock /\ (overran' <=> overran \/ \E w \in Workers : lock.owner = w /\ Active(w))
            BY <1>6, <2>2 DEF Tick
        <3> QED
            BY <1>a, <2>1, <3>1 DEF ActiveRunHoldsLock, ExpiredLockIsGone
    <2>3. CASE lock.ttl # 1
        <3>1. /\ overran' <=> overran
              /\ lock'.owner = lock.owner /\ lock'.ttl = CountDown(lock.ttl)
              /\ lock' = [lock EXCEPT !.ttl = CountDown(lock.ttl)]
            BY <1>0, <1>6, <2>3 DEF Tick, Lock
        <3>2. lock.ttl > 0 => lock'.ttl > 0
            BY <1>0, <2>3, <3>1 DEF CountDown
        <3>3. lock.ttl = 0 => lock' = FreeLock
            BY <1>a, <3>1 DEF CountDown, FreeLock
        <3> QED
            BY <1>0, <1>a, <2>1, <3>1, <3>2, <3>3 DEF ActiveRunHoldsLock, ExpiredLockIsGone
    <2> QED
        BY <2>2, <2>3
<1>7. ASSUME \/ \E r \in Rows : Submit(r) \/ Mine(r)
             \/ \E j \in Jobs : Schedule(j) \/ Requeue(j) \/ Stall(j)
             \/ UNCHANGED vars
      PROVE  Goal
    BY <1>1, <1>7 DEF Submit, Mine, Schedule, Requeue, Stall, vars
<1> QED
    BY <1>3, <1>4, <1>5, <1>6, <1>7 DEF Next, RunStep, RunFault

-----------------------------------------------------------------------------

\* An active run owns an unexpired lock in every reachable state in which no
\* run has outlived its own.
THEOREM ScheduleInvariance == Spec => []ScheduleInv
<1>1. ScheduleInv /\ [Next]_vars => ScheduleInv'
    BY StepType, StepLock, StepBusy DEF ScheduleInv
<1> QED
    BY ScheduleInit, <1>1, PTL DEF Spec

\* The lock keeps runs apart, however many workers, jobs and failures there
\* are, until a run outlives it.
THEOREM RunsDoNotOverlap == Spec => []NoOverlapWithinTtl
<1>1. ScheduleInv => NoOverlapWithinTtl
    BY DEF ScheduleInv, ActiveRunHoldsLock, NoOverlapWithinTtl
<1> QED
    BY ScheduleInvariance, <1>1, PTL
=============================================================================
