----------------------------- MODULE RateLimit ------------------------------
(***************************************************************************)
(* EarnMutationRateLimitService: how many deposits and withdrawals a user  *)
(* may start per minute.  A request counts itself in Redis under a key of  *)
(* action, user and clock minute; the request that finds the counter new   *)
(* then sets its time to live, with a second command.                      *)
(*                                                                         *)
(* The clock minute is read on an API instance before the counter is       *)
(* incremented in Redis, so the instances' clocks and the way to Redis     *)
(* both matter.                                                            *)
(***************************************************************************)
EXTENDS Integers, FiniteSets

CONSTANTS
    Requests,      \* requests of one user to deposit or to withdraw
    ActionOf,      \* "deposit" or "withdraw" for each request
    Limit,         \* maxDepositsPerMinute, maxWithdrawalsPerMinute
    Minute,        \* ticks of the clock in 60 s
    MaxSkew,       \* how far the clock of an instance may be ahead of Redis
    MaxTime,       \* bound on the clock
    MaxFaults      \* bound on failing commands and crashes

Actions == {"deposit", "withdraw"}

ASSUME RateAssumption ==
    /\ ActionOf \in [Requests -> Actions]
    /\ Limit \in [Actions -> Nat]
    /\ Minute \in Nat \ {0}
    /\ MaxSkew \in Nat /\ MaxTime \in Nat /\ MaxFaults \in Nat

VARIABLES
    now,       \* the time in Redis
    counter,   \* counter[k]: value of key k, 0 when there is no such key
    expiresAt, \* expiresAt[k]: when Redis removes key k
    call,      \* call[r]: progress of assertAllowed for request r
    faults     \* failures so far

vars == <<now, counter, expiresAt, call, faults>>

WindowOf(t) == t \div Minute

Windows == 0..WindowOf(MaxTime + MaxSkew)

WindowStart(w) == w * Minute

Keys == Actions \X Windows

\* The key has no time to live.
Never == -1

CallPC == {"idle", "clockRead", "first", "admitted", "rejected", "failed"}

\* window: the clock minute read; count: what INCR answered; at: when Redis
\* executed it.
Call == [pc : CallPC, window : Windows, count : Nat, at : Nat]

TypeOK ==
    /\ now \in Nat
    /\ counter \in [Keys -> Nat]
    /\ expiresAt \in [Keys -> Nat \cup {Never}]
    /\ call \in [Requests -> Call]
    /\ faults \in Nat

Init ==
    /\ now = 0
    /\ counter = [k \in Keys |-> 0]
    /\ expiresAt = [k \in Keys |-> Never]
    /\ call = [r \in Requests |-> [pc |-> "idle", window |-> 0, count |-> 0, at |-> 0]]
    /\ faults = 0

At(r, pc) == call[r].pc = pc

Fault == faults < MaxFaults /\ faults' = faults + 1

\* Mutant: deposits and withdrawals share a counter.
KeyOfMinute(r) == <<"deposit", call[r].window>>

\* earn:${action}:${userId}:${windowKey}, for one user.
KeyOf(r) == <<ActionOf[r], call[r].window>>

-----------------------------------------------------------------------------
(* assertAllowed *)

\* Date.now() on the instance that serves the request.
ReadClock(r) ==
    /\ At(r, "idle")
    /\ \E w \in Windows :
          /\ \E skew \in 0..MaxSkew : w = WindowOf(now + skew)
          /\ call' = [call EXCEPT ![r].pc = "clockRead", ![r].window = w]
    /\ UNCHANGED <<now, counter, expiresAt, faults>>

\* Mutant: count >= limit + 1 is let through once more.
OneMore(r, n) == IF n > Limit[ActionOf[r]] + 1 THEN "rejected" ELSE "admitted"

\* if (count > limit) throw TOO_MANY_REQUESTS
Verdict(r, n) == IF n > Limit[ActionOf[r]] THEN "rejected" ELSE "admitted"

\* Mutant: the time to live is set by the request that meets the limit.
SetsExpiryAtLimit(r, n) == n = Limit[ActionOf[r]] + 1

SetsExpiry(r, n) == n = 1

\* INCR
Increment(r) ==
    LET n == counter[KeyOf(r)] + 1 IN
    /\ At(r, "clockRead")
    /\ counter' = [counter EXCEPT ![KeyOf(r)] = n]
    /\ call' = [call EXCEPT ![r].count = n, ![r].at = now,
                            ![r].pc = IF SetsExpiry(r, n) THEN "first" ELSE Verdict(r, n)]
    /\ UNCHANGED <<now, expiresAt, faults>>

\* EXPIRE, 60 s from now
Expire(r) ==
    /\ At(r, "first")
    /\ expiresAt' = IF counter[KeyOf(r)] = 0 THEN expiresAt
                    ELSE [expiresAt EXCEPT ![KeyOf(r)] = now + Minute]
    /\ call' = [call EXCEPT ![r].pc = Verdict(r, call[r].count)]
    /\ UNCHANGED <<now, counter, faults>>

-----------------------------------------------------------------------------
(* Failures and time *)

\* The answer of INCR is lost: the Redis client repeats the command, or the
\* request fails.
IncrementAnswerLost(r) ==
    /\ At(r, "clockRead")
    /\ Fault
    /\ counter' = [counter EXCEPT ![KeyOf(r)] = @ + 1]
    /\ \E pc \in {"clockRead", "failed"} : call' = [call EXCEPT ![r].pc = pc]
    /\ UNCHANGED <<now, expiresAt>>

\* A command that is not executed, or the death of the instance.
Dies(r) ==
    /\ call[r].pc \in {"clockRead", "first"}
    /\ Fault
    /\ call' = [call EXCEPT ![r].pc = "failed"]
    /\ UNCHANGED <<now, counter, expiresAt>>

\* Redis removes the keys whose time has come.
Tick ==
    LET gone == {k \in Keys : expiresAt[k] # Never /\ expiresAt[k] <= now + 1} IN
    /\ now < MaxTime
    /\ now' = now + 1
    /\ counter' = [k \in Keys |-> IF k \in gone THEN 0 ELSE counter[k]]
    /\ expiresAt' = [k \in Keys |-> IF k \in gone THEN Never ELSE expiresAt[k]]
    /\ UNCHANGED <<call, faults>>

Next ==
    \/ \E r \in Requests :
          ReadClock(r) \/ Increment(r) \/ Expire(r) \/ IncrementAnswerLost(r) \/ Dies(r)
    \/ Tick

Spec == Init /\ [][Next]_vars

-----------------------------------------------------------------------------
(* Properties *)

Counted(r) == call[r].count > 0

CountedUnder(k) == {r \in Requests : Counted(r) /\ KeyOf(r) = k}

\* The request was counted in the minute of its key, by the clock of Redis:
\* its instance's clock was right and the command not under way when the
\* minute turned.
Punctual(r) ==
    /\ WindowStart(call[r].window) <= call[r].at
    /\ call[r].at < WindowStart(call[r].window) + Minute

PunctualKey(k) == \A r \in CountedUnder(k) : Punctual(r)

AdmittedUnder(k) == {r \in CountedUnder(k) : At(r, "admitted")}

\* maxDepositsPerMinute and maxWithdrawalsPerMinute bound what one clock
\* minute admits, across instances and requests that interleave between INCR
\* and EXPIRE, whatever fails - as long as no request of that minute is
\* counted outside of it.  A late one may find the counter expired and start
\* a new one.  (Any 60 s touch two clock minutes: twice the limit.)
WindowLimit ==
    \A k \in Keys :
        PunctualKey(k) => Cardinality(AdmittedUnder(k)) <= Limit[k[1]]

\* Counting takes two commands: a counter without a time to live is one whose
\* first request is about to set it, unless a command failed.
CountersExpire ==
    \A k \in Keys :
        /\ counter[k] = 0 => expiresAt[k] = Never
        /\ counter[k] > 0 /\ expiresAt[k] = Never =>
              faults > 0 \/ \E r \in CountedUnder(k) : At(r, "first")

\* The counter is not removed before its minute is over.
ExpiresAfterWindow ==
    \A k \in Keys :
        PunctualKey(k) /\ expiresAt[k] # Never => expiresAt[k] >= WindowStart(k[2]) + Minute

\* While the minute lasts every request has a number of its own, at most the
\* value of the counter.
NumbersAreDistinct ==
    \A k \in Keys : PunctualKey(k) =>
        \A r \in CountedUnder(k) :
            /\ now < WindowStart(k[2]) + Minute => call[r].count <= counter[k]
            /\ \A q \in CountedUnder(k) : call[q].count = call[r].count => q = r

VerdictsAreKept ==
    \A r \in Requests :
        /\ call[r].at <= now
        /\ At(r, "first") => Counted(r)
        /\ call[r].pc \in {"idle", "clockRead"} => ~Counted(r)
        /\ At(r, "admitted") => Counted(r) /\ call[r].count <= Limit[ActionOf[r]]

\* The inductive invariant of the counters: CountersExpire is what an operator
\* of Redis sees, the others are what WindowLimit rests on.
RateInv ==
    /\ TypeOK
    /\ CountersExpire
    /\ ExpiresAfterWindow
    /\ NumbersAreDistinct
    /\ VerdictsAreKept

\* A request is refused only when the limit was used up by other requests for
\* the same action in the same clock minute, and not by those of an earlier
\* minute whose counter is still there, unless a repeated INCR counted twice.
RejectedOnlyOverLimit ==
    \A r \in Requests :
        At(r, "rejected") =>
            \/ faults > 0
            \/ Cardinality({q \in CountedUnder(KeyOf(r)) : ActionOf[q] = ActionOf[r]} \ {r})
                  >= Limit[ActionOf[r]]
=============================================================================
