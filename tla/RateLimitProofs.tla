-------------------------- MODULE RateLimitProofs ---------------------------
(***************************************************************************)
(* RateInv is an invariant of RateLimit for any requests, limits, length   *)
(* of the minute, skew of the clocks and number of faults; WindowLimit     *)
(* follows from it, because the numbers of the admitted requests of a key  *)
(* are distinct and at most the limit.                                     *)
(***************************************************************************)
EXTENDS RateLimit, FiniteSetTheorems, TLAPS

LEMMA KeyType ==
    ASSUME TypeOK, NEW r \in Requests
    PROVE  /\ KeyOf(r) \in Keys
           /\ KeyOf(r)[1] = ActionOf[r] /\ KeyOf(r)[2] = call[r].window
BY RateAssumption DEF TypeOK, KeyOf, Keys, Call

\* Distinct numbers between 1 and n: there are at most n of them.
LEMMA BoundedNumbers ==
    ASSUME NEW S, NEW num \in [S -> Nat], NEW n \in Nat,
           \A s \in S : num[s] \in 1..n,
           \A s, t \in S : num[s] = num[t] => s = t
    PROVE  Cardinality(S) <= n
<1>1. num \in Injection(S, 1..n)
    BY DEF Injection, IsInjective
<1>2. IsFiniteSet(1..n) /\ Cardinality(1..n) = n
    BY FS_Interval
<1> QED
    BY <1>1, <1>2, FS_Injection

-----------------------------------------------------------------------------

LEMMA RateInit == Init => RateInv
<1> SUFFICES ASSUME Init PROVE RateInv
    OBVIOUS
<1>1. TypeOK
    BY RateAssumption DEF Init, TypeOK, Call, CallPC, Windows, WindowOf
<1>2. \A k \in Keys : counter[k] = 0 /\ expiresAt[k] = Never
    BY DEF Init
<1>3. \A r \in Requests : call[r] = [pc |-> "idle", window |-> 0, count |-> 0, at |-> 0]
    BY DEF Init
<1>4. \A k \in Keys : CountedUnder(k) = {}
    BY <1>3 DEF CountedUnder, Counted
<1>5. VerdictsAreKept
    BY <1>3 DEF Init, VerdictsAreKept, At, Counted
<1> QED
    BY <1>1, <1>2, <1>4, <1>5
    DEF RateInv, CountersExpire, ExpiresAfterWindow, NumbersAreDistinct
LEMMA StepType == TypeOK /\ [Next]_vars => TypeOK'
<1> SUFFICES ASSUME TypeOK, [Next]_vars PROVE TypeOK'
    OBVIOUS
<1> USE RateAssumption
<1>1. ASSUME NEW r \in Requests, ReadClock(r) PROVE TypeOK'
    <2>1. PICK w \in Windows :
              call' = [call EXCEPT ![r].pc = "clockRead", ![r].window = w]
        BY <1>1 DEF ReadClock
    <2>2. call' \in [Requests -> Call]
        BY <2>1 DEF TypeOK, Call, CallPC
    <2> QED
        BY <1>1, <2>2 DEF ReadClock, TypeOK
<1>2. ASSUME NEW r \in Requests, Increment(r) PROVE TypeOK'
    <2>1. KeyOf(r) \in Keys
        BY KeyType
    <2>2. counter[KeyOf(r)] + 1 \in Nat /\ now \in Nat
        BY <2>1 DEF TypeOK
    <2>3. (IF SetsExpiry(r, counter[KeyOf(r)] + 1) THEN "first"
           ELSE Verdict(r, counter[KeyOf(r)] + 1)) \in CallPC
        BY DEF Verdict, CallPC
    <2>4. counter' \in [Keys -> Nat]
        BY <1>2, <2>2 DEF Increment, TypeOK
    <2>5. PICK n \in Nat, pc \in CallPC :
              call' = [call EXCEPT ![r].count = n, ![r].at = now, ![r].pc = pc]
        BY <1>2, <2>2, <2>3 DEF Increment
    <2>6. call' \in [Requests -> Call]
        <3>1. call[r] \in Call
            BY DEF TypeOK
        <3>2. [call[r] EXCEPT !.count = n, !.at = now, !.pc = pc] \in Call
            BY <2>2, <3>1 DEF Call
        <3>3. call' = [call EXCEPT ![r] = [call[r] EXCEPT !.count = n, !.at = now, !.pc = pc]]
            BY <2>5
        <3> QED
            BY <3>2, <3>3 DEF TypeOK
    <2> QED
        BY <1>2, <2>4, <2>6 DEF Increment, TypeOK
<1>3. ASSUME NEW r \in Requests, Expire(r) PROVE TypeOK'
    <2>1. KeyOf(r) \in Keys /\ now + Minute \in Nat
        BY KeyType DEF TypeOK
    <2>2. Verdict(r, call[r].count) \in CallPC
        BY DEF Verdict, CallPC
    <2> QED
        BY <1>3, <2>1, <2>2 DEF Expire, TypeOK, Call
<1>4. ASSUME NEW r \in Requests, IncrementAnswerLost(r) PROVE TypeOK'
    <2>1. KeyOf(r) \in Keys
        BY KeyType
    <2>2. counter[KeyOf(r)] + 1 \in Nat
        BY <2>1 DEF TypeOK
    <2> QED
        BY <1>4, <2>1, <2>2 DEF IncrementAnswerLost, Fault, TypeOK, Call, CallPC
<1>5. ASSUME NEW r \in Requests, Dies(r) PROVE TypeOK'
    BY <1>5 DEF Dies, Fault, TypeOK, Call, CallPC
<1>6. CASE Tick
    BY <1>6 DEF Tick, TypeOK
<1>7. CASE UNCHANGED vars
    BY <1>7 DEF vars, TypeOK
<1> QED
    BY <1>1, <1>2, <1>3, <1>4, <1>5, <1>6, <1>7 DEF Next

LEMMA StepVerdicts == RateInv /\ [Next]_vars => VerdictsAreKept'
<1> SUFFICES ASSUME RateInv, [Next]_vars PROVE VerdictsAreKept'
    OBVIOUS
<1> USE RateAssumption DEF RateInv
<1> USE DEF VerdictsAreKept, At, Counted
<1>1. ASSUME NEW r \in Requests, ReadClock(r) PROVE VerdictsAreKept'
    BY <1>1 DEF ReadClock, TypeOK, Call
<1>2. ASSUME NEW r \in Requests, Increment(r) PROVE VerdictsAreKept'
    <2>1. KeyOf(r) \in Keys
        BY KeyType
    <2>2. counter[KeyOf(r)] + 1 \in Nat \ {0} /\ now \in Nat
        BY <2>1 DEF TypeOK
    <2> DEFINE n == counter[KeyOf(r)] + 1
               pc == IF SetsExpiry(r, n) THEN "first" ELSE Verdict(r, n)
    <2>3. /\ pc \in {"first", "admitted", "rejected"}
          /\ pc = "admitted" => n <= Limit[ActionOf[r]]
        BY <2>2 DEF Verdict, TypeOK
    <2>4. /\ call'[r].pc = pc /\ call'[r].count = n /\ call'[r].at = now
          /\ \A q \in Requests \ {r} : call'[q] = call[q]
          /\ now' = now
        BY <1>2 DEF Increment, TypeOK, Call
    <2> HIDE DEF pc, n
    <2> QED
        BY <2>2, <2>3, <2>4 DEF n, TypeOK
<1>3. ASSUME NEW r \in Requests, Expire(r) PROVE VerdictsAreKept'
    <2>1. /\ call'[r].pc = Verdict(r, call[r].count)
          /\ call'[r].count = call[r].count /\ call'[r].at = call[r].at
          /\ \A q \in Requests \ {r} : call'[q] = call[q]
          /\ now' = now /\ call[r].pc = "first"
        BY <1>3 DEF Expire, TypeOK, Call
    <2> QED
        BY <2>1 DEF Verdict, TypeOK, Call
<1>4. ASSUME NEW r \in Requests, IncrementAnswerLost(r) PROVE VerdictsAreKept'
    BY <1>4 DEF IncrementAnswerLost, TypeOK, Call
<1>5. ASSUME NEW r \in Requests, Dies(r) PROVE VerdictsAreKept'
    BY <1>5 DEF Dies, TypeOK, Call
<1>6. CASE Tick
    BY <1>6 DEF Tick, TypeOK, Call
<1>7. CASE UNCHANGED vars
    BY <1>7 DEF vars
<1> QED
    BY <1>1, <1>2, <1>3, <1>4, <1>5, <1>6, <1>7 DEF Next
-----------------------------------------------------------------------------

\* A step that counts no request leaves the sets of counted requests alone.
LEMMA NothingCounted ==
    ASSUME \A q \in Requests :
              /\ call'[q].count = call[q].count
              /\ call[q].count > 0 =>
                    call'[q].window = call[q].window /\ call'[q].at = call[q].at,
           NEW k
    PROVE  /\ CountedUnder(k)' = CountedUnder(k)
           /\ PunctualKey(k)' <=> PunctualKey(k)
<1>1. CountedUnder(k)' = CountedUnder(k)
    BY DEF CountedUnder, Counted, KeyOf
<1>2. \A q \in CountedUnder(k) : Punctual(q)' <=> Punctual(q)
    BY DEF CountedUnder, Counted, Punctual
<1> QED
    BY <1>1, <1>2 DEF PunctualKey

\* Only INCR counts a request, and time does not go back.
LEMMA CountlessStep ==
    ASSUME RateInv, [Next]_vars, ~ \E r \in Requests : Increment(r)
    PROVE  /\ \A q \in Requests :
                /\ call'[q].count = call[q].count
                /\ call[q].count > 0 =>
                      call'[q].window = call[q].window /\ call'[q].at = call[q].at
           /\ now' >= now
<1> DEFINE Goal == /\ \A q \in Requests :
                         /\ call'[q].count = call[q].count
                         /\ call[q].count > 0 =>
                              call'[q].window = call[q].window /\ call'[q].at = call[q].at
                   /\ now' >= now
<1>0. now \in Nat /\ call \in [Requests -> Call]
    BY DEF RateInv, TypeOK
<1>1. ASSUME NEW r \in Requests, ReadClock(r) PROVE Goal
    <2>1. PICK w \in Windows :
              call' = [call EXCEPT ![r].pc = "clockRead", ![r].window = w]
        BY <1>1 DEF ReadClock
    <2>2. ~Counted(r)
        BY <1>1 DEF ReadClock, RateInv, VerdictsAreKept, At
    <2> QED
        BY <1>0, <1>1, <2>1, <2>2 DEF ReadClock, Call, Counted
<1>2. ASSUME NEW r \in Requests, Expire(r) PROVE Goal
    BY <1>0, <1>2 DEF Expire, Call
<1>3. ASSUME NEW r \in Requests, IncrementAnswerLost(r) PROVE Goal
    BY <1>0, <1>3 DEF IncrementAnswerLost, Call
<1>4. ASSUME NEW r \in Requests, Dies(r) PROVE Goal
    BY <1>0, <1>4 DEF Dies, Call
<1>5. CASE Tick
    BY <1>0, <1>5 DEF Tick
<1>6. CASE UNCHANGED vars
    BY <1>0, <1>6 DEF vars
<1> QED
    BY <1>1, <1>2, <1>3, <1>4, <1>5, <1>6 DEF Next

\* What counting request r does to the sets.
LEMMA OneCounted ==
    ASSUME RateInv, NEW r \in Requests, Increment(r), NEW k \in Keys
    PROVE  /\ call'[r].count = counter[KeyOf(r)] + 1 /\ call'[r].at = now
           /\ call'[r].window = call[r].window /\ ~Counted(r) /\ KeyOf(r) \in Keys
           /\ \A q \in Requests \ {r} : call'[q] = call[q]
           /\ CountedUnder(k)' = CountedUnder(k) \cup (IF KeyOf(r) = k THEN {r} ELSE {})
           /\ PunctualKey(k)' => PunctualKey(k)
           /\ PunctualKey(k)' /\ KeyOf(r) = k =>
                WindowStart(k[2]) <= now /\ now < WindowStart(k[2]) + Minute
<1>1. /\ call'[r].count = counter[KeyOf(r)] + 1 /\ call'[r].at = now
      /\ call'[r].window = call[r].window
      /\ \A q \in Requests \ {r} : call'[q] = call[q]
    BY DEF Increment, RateInv, TypeOK, Call
<1>2. ~Counted(r) /\ KeyOf(r) \in Keys /\ KeyOf(r)[2] = call[r].window
    BY KeyType DEF Increment, RateInv, VerdictsAreKept, At
<1>3. counter[KeyOf(r)] + 1 > 0
    BY <1>2 DEF RateInv, TypeOK
<1>4. CountedUnder(k)' = CountedUnder(k) \cup (IF KeyOf(r) = k THEN {r} ELSE {})
    BY <1>1, <1>2, <1>3 DEF CountedUnder, Counted, KeyOf
<1>5. \A q \in CountedUnder(k) : q # r /\ (Punctual(q)' <=> Punctual(q))
    BY <1>1, <1>2 DEF CountedUnder, Punctual
<1>6. KeyOf(r) = k => (Punctual(r)' <=> WindowStart(k[2]) <= now
                                        /\ now < WindowStart(k[2]) + Minute)
    BY <1>1, <1>2 DEF Punctual
<1> QED
    BY <1>1, <1>2, <1>4, <1>5, <1>6 DEF PunctualKey

LEMMA StepNumbers == RateInv /\ [Next]_vars => NumbersAreDistinct'
<1> SUFFICES ASSUME RateInv, [Next]_vars, NEW k \in Keys, PunctualKey(k)',
                    NEW p \in CountedUnder(k)'
             PROVE  /\ now' < WindowStart(k[2]) + Minute => call'[p].count <= counter'[k]
                    /\ \A q \in CountedUnder(k)' : call'[q].count = call'[p].count => q = p
    BY DEF NumbersAreDistinct
<1> USE RateAssumption
<1> DEFINE end == WindowStart(k[2]) + Minute
<1>0. /\ now \in Nat /\ counter[k] \in Nat /\ end \in Int
      /\ \A q \in Requests : call[q].count \in Nat
    BY DEF RateInv, TypeOK, Call, WindowStart, Keys, Windows
<1>a. PunctualKey(k) =>
        \A q \in CountedUnder(k) :
            /\ now < end => call[q].count <= counter[k]
            /\ \A t \in CountedUnder(k) : call[t].count = call[q].count => t = q
    BY DEF RateInv, NumbersAreDistinct
<1>1. ASSUME NEW r \in Requests, Increment(r)
      PROVE  /\ now' < end => call'[p].count <= counter'[k]
             /\ \A q \in CountedUnder(k)' : call'[q].count = call'[p].count => q = p
    <2>1. /\ counter' = [counter EXCEPT ![KeyOf(r)] = counter[KeyOf(r)] + 1]
          /\ now' = now /\ PunctualKey(k)
        BY <1>1, OneCounted DEF Increment
    <2>2. \A q \in CountedUnder(k) : q # r /\ call'[q] = call[q]
        BY <1>1, OneCounted DEF CountedUnder
    <2>3. CASE KeyOf(r) = k
        <3>1. /\ counter'[k] = counter[k] + 1 /\ call'[r].count = counter[k] + 1
              /\ now < end
              /\ CountedUnder(k)' = CountedUnder(k) \cup {r}
            BY <1>1, <2>1, <2>3, OneCounted DEF RateInv, TypeOK
        <3>2. \A q \in CountedUnder(k) : call[q].count <= counter[k] /\ call[q].count \in Nat
            BY <1>a, <1>0, <2>1, <3>1 DEF CountedUnder
        <3>3. \A q \in CountedUnder(k) : call'[q].count # call'[r].count
            BY <3>1, <3>2, <2>2, <1>0
        <3> QED
            BY <3>1, <3>2, <3>3, <2>1, <2>2, <1>a, <1>0
    <2>4. CASE KeyOf(r) # k
        <3>1. counter'[k] = counter[k] /\ CountedUnder(k)' = CountedUnder(k)
            <4>1. counter'[k] = counter[k]
                BY <2>1, <2>4 DEF RateInv, TypeOK
            <4> QED
                BY <1>1, <2>4, <4>1, OneCounted
        <3> QED
            BY <3>1, <2>1, <2>2, <1>a
    <2> QED
        BY <2>3, <2>4
<1>2. ASSUME ~ \E r \in Requests : Increment(r)
      PROVE  /\ now' < end => call'[p].count <= counter'[k]
             /\ \A q \in CountedUnder(k)' : call'[q].count = call'[p].count => q = p
    <2>1. /\ \A q \in Requests :
                /\ call'[q].count = call[q].count
                /\ call[q].count > 0 =>
                      call'[q].window = call[q].window /\ call'[q].at = call[q].at
          /\ now' >= now
        BY <1>2, CountlessStep
    <2>2. /\ CountedUnder(k)' = CountedUnder(k) /\ PunctualKey(k)
        BY <2>1, NothingCounted
    <2>3. now' < end => counter'[k] >= counter[k]
        <3>1. CASE Tick
            BY <3>1, <2>2, <1>0 DEF Tick, RateInv, ExpiresAfterWindow, TypeOK
        <3>2. ASSUME NEW r \in Requests, IncrementAnswerLost(r) PROVE counter'[k] >= counter[k]
            BY <3>2, <1>0 DEF IncrementAnswerLost, RateInv, TypeOK
        <3>3. ASSUME NEW r \in Requests, ReadClock(r) \/ Expire(r) \/ Dies(r)
              PROVE  counter'[k] >= counter[k]
            BY <3>3, <1>0 DEF ReadClock, Expire, Dies
        <3>4. CASE UNCHANGED vars
            BY <3>4, <1>0 DEF vars
        <3> QED
            BY <1>2, <3>1, <3>2, <3>3, <3>4 DEF Next
    <2>4. \A q \in CountedUnder(k) : call'[q].count = call[q].count /\ call[q].count \in Nat
        BY <2>1, <1>0 DEF CountedUnder
    <2>5. counter'[k] \in Nat /\ now' \in Nat
        BY StepType DEF RateInv, TypeOK
    <2> QED
        BY <2>1, <2>2, <2>3, <2>4, <2>5, <1>a, <1>0
<1> QED
    BY <1>1, <1>2

LEMMA StepExpiry == RateInv /\ [Next]_vars => ExpiresAfterWindow'
<1> SUFFICES ASSUME RateInv, [Next]_vars, NEW k \in Keys, PunctualKey(k)',
                    expiresAt'[k] # Never
             PROVE  expiresAt'[k] >= WindowStart(k[2]) + Minute
    BY DEF ExpiresAfterWindow
<1> USE RateAssumption
<1>a. PunctualKey(k) /\ expiresAt[k] # Never => expiresAt[k] >= WindowStart(k[2]) + Minute
    BY DEF RateInv, ExpiresAfterWindow
<1>1. ASSUME NEW r \in Requests, Increment(r) PROVE expiresAt'[k] >= WindowStart(k[2]) + Minute
    BY <1>1, <1>a, OneCounted DEF Increment
<1>2. ASSUME NEW r \in Requests, Expire(r), KeyOf(r) = k
      PROVE  expiresAt'[k] >= WindowStart(k[2]) + Minute
    <2>1. CountedUnder(k)' = CountedUnder(k) /\ PunctualKey(k)
        BY <1>2, NothingCounted DEF Expire, RateInv, TypeOK, Call
    <2>2. r \in CountedUnder(k) /\ call[r].at <= now /\ call[r].window = k[2]
        BY <1>2, KeyType DEF Expire, CountedUnder, RateInv, VerdictsAreKept
    <2>3. WindowStart(k[2]) <= call[r].at
        BY <2>1, <2>2 DEF PunctualKey, Punctual
    <2>4. /\ WindowStart(k[2]) \in Int /\ now \in Nat /\ call[r].at \in Nat
        BY DEF RateInv, TypeOK, Call, WindowStart, Keys, Windows
    <2>5. expiresAt'[k] = expiresAt[k] \/ expiresAt'[k] = now + Minute
        BY <1>2 DEF Expire, RateInv, TypeOK
    <2> QED
        BY <1>a, <2>1, <2>2, <2>3, <2>4, <2>5
<1>3. ASSUME ~ \E r \in Requests : Increment(r), ~ \E r \in Requests : Expire(r) /\ KeyOf(r) = k
      PROVE  expiresAt'[k] >= WindowStart(k[2]) + Minute
    <2>1. \A q \in Requests :
                /\ call'[q].count = call[q].count
                /\ call[q].count > 0 =>
                      call'[q].window = call[q].window /\ call'[q].at = call[q].at
        BY <1>3, CountlessStep
    <2>2. PunctualKey(k)
        BY <2>1, NothingCounted
    <2>3. expiresAt'[k] \in {expiresAt[k], Never}
        BY <1>3 DEF Next, vars, ReadClock, Expire, IncrementAnswerLost, Dies, Tick, RateInv, TypeOK
    <2> QED
        BY <1>a, <2>2, <2>3
<1> QED
    BY <1>1, <1>2, <1>3
LEMMA StepCounters == RateInv /\ [Next]_vars => CountersExpire'
<1> SUFFICES ASSUME RateInv, [Next]_vars, NEW k \in Keys
             PROVE  /\ counter'[k] = 0 => expiresAt'[k] = Never
                    /\ counter'[k] > 0 /\ expiresAt'[k] = Never =>
                         faults' > 0 \/ \E r \in CountedUnder(k)' : call'[r].pc = "first"
    BY DEF CountersExpire, At
<1> USE RateAssumption
<1> DEFINE Goal == /\ counter'[k] = 0 => expiresAt'[k] = Never
                   /\ counter'[k] > 0 /\ expiresAt'[k] = Never =>
                         faults' > 0 \/ \E r \in CountedUnder(k)' : call'[r].pc = "first"
<1>0. /\ counter[k] \in Nat /\ faults \in Nat /\ now \in Nat
      /\ expiresAt[k] \in Nat \cup {Never}
    BY DEF RateInv, TypeOK
<1>a. /\ counter[k] = 0 => expiresAt[k] = Never
      /\ counter[k] > 0 /\ expiresAt[k] = Never =>
            faults > 0 \/ \E r \in CountedUnder(k) : call[r].pc = "first"
    BY DEF RateInv, CountersExpire, At
<1>1. ASSUME NEW r \in Requests, ReadClock(r) PROVE Goal
    <2>1. CountedUnder(k)' = CountedUnder(k)
        BY <1>1, NothingCounted DEF ReadClock, RateInv, TypeOK, Call, VerdictsAreKept, Counted, At
    <2> QED
        BY <1>1, <2>1, <1>a DEF ReadClock, RateInv, TypeOK, Call, VerdictsAreKept, CountedUnder, At
<1>2. ASSUME NEW r \in Requests, Increment(r) PROVE Goal
    <2>1. /\ expiresAt' = expiresAt /\ faults' = faults
          /\ counter' = [counter EXCEPT ![KeyOf(r)] = counter[KeyOf(r)] + 1]
        BY <1>2 DEF Increment
    <2>2. \A q \in CountedUnder(k) : q \in CountedUnder(k)' /\ call'[q] = call[q]
        BY <1>2, OneCounted DEF CountedUnder
    <2>3. CASE KeyOf(r) # k
        BY <2>1, <2>2, <2>3, <1>a, <1>2, OneCounted DEF RateInv, TypeOK
    <2>4. CASE KeyOf(r) = k
        <3>1. counter'[k] = counter[k] + 1 /\ r \in CountedUnder(k)'
            BY <1>2, <2>1, <2>4, OneCounted DEF RateInv, TypeOK
        <3>2. counter[k] = 0 => call'[r].pc = "first"
            BY <1>2, <2>4, <1>0 DEF Increment, SetsExpiry, RateInv, TypeOK, Call
        <3> QED
            BY <3>1, <3>2, <2>1, <2>2, <1>a, <1>0
    <2> QED
        BY <2>3, <2>4
<1>3. ASSUME NEW r \in Requests, Expire(r) PROVE Goal
    <2>1. CountedUnder(k)' = CountedUnder(k)
        BY <1>3, NothingCounted DEF Expire, RateInv, TypeOK, Call
    <2>2. /\ counter' = counter /\ faults' = faults
          /\ \A q \in Requests \ {r} : call'[q] = call[q]
        BY <1>3 DEF Expire, RateInv, TypeOK
    <2>3. KeyOf(r) # k => expiresAt'[k] = expiresAt[k] /\ r \notin CountedUnder(k)
        BY <1>3 DEF Expire, CountedUnder, RateInv, TypeOK
    <2>4. KeyOf(r) = k =>
            /\ counter[k] = 0 => expiresAt'[k] = expiresAt[k]
            /\ counter[k] > 0 => expiresAt'[k] = now + Minute
        BY <1>3, <1>0 DEF Expire, RateInv, TypeOK
    <2>5. now + Minute # Never
        BY <1>0 DEF Never
    <2> QED
        BY <2>1, <2>2, <2>3, <2>4, <2>5, <1>a, <1>0 DEF CountedUnder
<1>4. ASSUME NEW r \in Requests, IncrementAnswerLost(r) \/ Dies(r) PROVE Goal
    BY <1>4, <1>0, <1>a DEF IncrementAnswerLost, Dies, Fault, RateInv, TypeOK
<1>5. CASE Tick
    <2>1. CountedUnder(k)' = CountedUnder(k)
        BY <1>5, NothingCounted DEF Tick
    <2> QED
        BY <1>5, <2>1, <1>0, <1>a DEF Tick, RateInv, TypeOK
<1>6. CASE UNCHANGED vars
    <2>1. CountedUnder(k)' = CountedUnder(k)
        BY <1>6, NothingCounted DEF vars
    <2> QED
        BY <1>6, <2>1, <1>a DEF vars
<1> QED
    BY <1>1, <1>2, <1>3, <1>4, <1>5, <1>6 DEF Next

-----------------------------------------------------------------------------

\* The counters, their times to live and the numbers given out stay
\* consistent in every reachable state.
THEOREM RateInvariance == Spec => []RateInv
<1>1. RateInv /\ [Next]_vars => RateInv'
    BY StepType, StepCounters, StepExpiry, StepNumbers, StepVerdicts DEF RateInv
<1> QED
    BY RateInit, <1>1, PTL DEF Spec

LEMMA NumbersBoundAdmissions == RateInv => WindowLimit
<1> SUFFICES ASSUME RateInv, NEW k \in Keys, PunctualKey(k)
             PROVE  Cardinality(AdmittedUnder(k)) <= Limit[k[1]]
    BY DEF WindowLimit
<1> DEFINE S == AdmittedUnder(k)
           num == [r \in S |-> call[r].count]
<1>1. Limit[k[1]] \in Nat
    BY RateAssumption DEF Keys
<1>2. \A r \in S : /\ r \in Requests /\ r \in CountedUnder(k)
                    /\ call[r].count \in 1..Limit[k[1]]
    BY RateAssumption, KeyType, <1>1
    DEF AdmittedUnder, CountedUnder, Counted, RateInv, VerdictsAreKept, TypeOK, Call, At
<1>3. \A r, q \in S : call[r].count = call[q].count => r = q
    BY <1>2 DEF RateInv, NumbersAreDistinct
<1>4. num \in [S -> Nat]
    BY <1>2, <1>1
<1>5. /\ \A r \in S : num[r] \in 1..Limit[k[1]]
      /\ \A r, q \in S : num[r] = num[q] => r = q
    BY <1>2, <1>3
<1> HIDE DEF S, num
<1>6. Cardinality(S) <= Limit[k[1]]
    BY <1>1, <1>4, <1>5, BoundedNumbers
<1> QED
    BY <1>6 DEF S

\* The limit per clock minute holds for any number of requests and instances,
\* whatever fails, for requests counted within their minute.
THEOREM WindowLimitHolds == Spec => []WindowLimit
BY RateInvariance, NumbersBoundAdmissions, PTL

-----------------------------------------------------------------------------
(* Refusals *)

\* The numbers of a key were given out without a gap, and a refused request
\* has one above the limit.
NumbersHaveNoGaps ==
    /\ faults = 0 =>
          /\ \A r \in Requests : \A m \in 1..(call[r].count - 1) :
                \E q \in CountedUnder(KeyOf(r)) : call[q].count = m
          /\ \A k \in Keys : \A m \in 1..counter[k] :
                \E q \in CountedUnder(k) : call[q].count = m
    /\ \A r \in Requests : At(r, "rejected") =>
          Counted(r) /\ call[r].count > Limit[ActionOf[r]]
    /\ \A k \in Keys : IsFiniteSet(CountedUnder(k))

\* Before the first request there are no numbers.
LEMMA NoGapsInit == Init => NumbersHaveNoGaps
<1> SUFFICES ASSUME Init PROVE NumbersHaveNoGaps
    OBVIOUS
<1>1. /\ \A k \in Keys : counter[k] = 0
      /\ \A r \in Requests : call[r].count = 0 /\ call[r].pc = "idle"
    BY DEF Init
<1>2. \A k \in Keys : CountedUnder(k) = {}
    BY <1>1 DEF CountedUnder, Counted
<1>3. \A k \in Keys : IsFiniteSet(CountedUnder(k))
    BY <1>2, FS_EmptySet
<1>4. /\ \A r \in Requests : 1..(call[r].count - 1) = {}
      /\ \A k \in Keys : 1..counter[k] = {}
    BY <1>1
<1>5. \A r \in Requests : ~At(r, "rejected")
    BY <1>1 DEF At
<1> QED
    BY <1>3, <1>4, <1>5 DEF NumbersHaveNoGaps

\* INCR gives out the next number of its key.
LEMMA NoGapsIncrement ==
    ASSUME RateInv, NumbersHaveNoGaps, NEW r \in Requests, Increment(r)
    PROVE  NumbersHaveNoGaps'
<1> DEFINE n == counter[KeyOf(r)] + 1
<1>0. /\ KeyOf(r) \in Keys /\ counter[KeyOf(r)] \in Nat /\ n \in Nat
      /\ \A k \in Keys : counter[k] \in Nat
      /\ \A q \in Requests : call[q].count \in Nat /\ KeyOf(q) \in Keys
      /\ Limit[ActionOf[r]] \in Nat
    BY KeyType, RateAssumption DEF RateInv, TypeOK, Call
<1>1. /\ faults' = faults /\ counter' = [counter EXCEPT ![KeyOf(r)] = n]
      /\ call'[r].count = n /\ call'[r].window = call[r].window /\ ~Counted(r)
      /\ \A q \in Requests \ {r} : call'[q] = call[q]
    BY <1>0, OneCounted DEF Increment
<1>2. /\ call'[r].pc = "rejected" => n > Limit[ActionOf[r]]
      /\ n > 0
    BY <1>0 DEF Increment, Verdict, SetsExpiry, RateInv, TypeOK, Call
<1>3. \A k \in Keys :
        CountedUnder(k)' = CountedUnder(k) \cup (IF KeyOf(r) = k THEN {r} ELSE {})
    BY OneCounted
<1>4. \A k \in Keys : \A q \in CountedUnder(k) : q # r /\ q \in CountedUnder(k)' /\ call'[q] = call[q]
    BY <1>1, <1>3 DEF CountedUnder
<1>5. r \in CountedUnder(KeyOf(r))' /\ \A q \in Requests : KeyOf(q)' = KeyOf(q)
    <2>1. \A q \in Requests : KeyOf(q)' = KeyOf(q)
        BY <1>1 DEF KeyOf
    <2> QED
        BY <2>1, <1>0, <1>3
<1> HIDE DEF n
<1>6. ASSUME faults = 0, NEW k \in Keys, NEW m \in 1..counter'[k]
      PROVE  \E q \in CountedUnder(k)' : call'[q].count = m
    <2>1. CASE KeyOf(r) = k /\ m = n
        BY <2>1, <1>1, <1>5
    <2>2. CASE ~(KeyOf(r) = k /\ m = n)
        <3>1. m \in 1..counter[k]
            BY <2>2, <1>6, <1>0, <1>1 DEF n, RateInv, TypeOK
        <3>2. PICK q \in CountedUnder(k) : call[q].count = m
            BY <3>1, <1>6 DEF NumbersHaveNoGaps
        <3> QED
            BY <3>2, <1>4
    <2> QED
        BY <2>1, <2>2
<1>7. ASSUME faults = 0, NEW p \in Requests, NEW m \in 1..(call'[p].count - 1)
      PROVE  \E q \in CountedUnder(KeyOf(p)) : call[q].count = m
    <2>1. CASE p = r
        <3>1. m \in 1..counter[KeyOf(r)]
            BY <2>1, <1>7, <1>0, <1>1 DEF n
        <3> QED
            BY <2>1, <3>1, <1>7, <1>0 DEF NumbersHaveNoGaps
    <2>2. CASE p # r
        <3>1. m \in 1..(call[p].count - 1)
            BY <2>2, <1>7, <1>1
        <3> QED
            BY <3>1, <1>7 DEF NumbersHaveNoGaps
    <2> QED
        BY <2>1, <2>2
<1>8. \A p \in Requests : call'[p].pc = "rejected" =>
          call'[p].count > 0 /\ call'[p].count > Limit[ActionOf[p]]
    <2>1. CASE call'[r].pc = "rejected" => call'[r].count > 0 /\ call'[r].count > Limit[ActionOf[r]]
        BY <2>1, <1>1 DEF NumbersHaveNoGaps, At, Counted
    <2> QED
        BY <2>1, <1>0, <1>1, <1>2
<1>9. \A k \in Keys : IsFiniteSet(CountedUnder(k)')
    <2> SUFFICES ASSUME NEW k \in Keys PROVE IsFiniteSet(CountedUnder(k)')
        OBVIOUS
    <2>1. IsFiniteSet(CountedUnder(k)) /\ IsFiniteSet(CountedUnder(k) \cup {r})
        BY FS_AddElement DEF NumbersHaveNoGaps
    <2>2. CountedUnder(k)' \in {CountedUnder(k), CountedUnder(k) \cup {r}}
        BY <1>3
    <2> QED
        BY <2>1, <2>2
<1>10. ASSUME faults = 0, NEW p \in Requests, NEW m \in 1..(call'[p].count - 1)
       PROVE  \E q \in CountedUnder(KeyOf(p))' : call'[q].count = m
    <2>1. PICK q \in CountedUnder(KeyOf(p)) : call[q].count = m
        BY <1>7, <1>10
    <2>2. q \in CountedUnder(KeyOf(p))' /\ call'[q] = call[q]
        <3>1. q # r /\ q \in Requests /\ Counted(q) /\ KeyOf(q) = KeyOf(p)
            BY <2>1, <1>0, <1>4 DEF CountedUnder
        <3>2. call'[q] = call[q] /\ KeyOf(q)' = KeyOf(p)'
            BY <3>1, <1>1, <1>5
        <3> QED
            BY <3>1, <3>2 DEF CountedUnder, Counted
    <2> QED
        BY <2>1, <2>2
<1> QED
    BY <1>1, <1>6, <1>8, <1>9, <1>10 DEF NumbersHaveNoGaps, At, Counted

\* No other step gives out a number, and a counter that goes takes none with it.
LEMMA NoGapsOther ==
    ASSUME RateInv, NumbersHaveNoGaps, [Next]_vars, ~ \E r \in Requests : Increment(r)
    PROVE  NumbersHaveNoGaps'
<1>0. /\ \A k \in Keys : counter[k] \in Nat
      /\ \A q \in Requests : call[q].count \in Nat
      /\ faults \in Nat
    BY DEF RateInv, TypeOK, Call
<1>1. \A q \in Requests :
          /\ call'[q].count = call[q].count
          /\ call[q].count > 0 => call'[q].window = call[q].window
    BY CountlessStep
<1>2. \A k : CountedUnder(k)' = CountedUnder(k)
    BY CountlessStep, NothingCounted
<1>3. faults' = 0 =>
        /\ faults = 0
        /\ \A k \in Keys : counter'[k] \in {0, counter[k]}
    <2>1. ASSUME NEW r \in Requests, IncrementAnswerLost(r) \/ Dies(r) PROVE faults' # 0
        BY <2>1, <1>0 DEF IncrementAnswerLost, Dies, Fault
    <2>2. ASSUME NEW r \in Requests, ReadClock(r) \/ Expire(r)
          PROVE  faults' = faults /\ counter' = counter
        BY <2>2 DEF ReadClock, Expire
    <2>3. CASE Tick
        BY <2>3 DEF Tick
    <2>4. CASE UNCHANGED vars
        BY <2>4 DEF vars
    <2> QED
        BY <2>1, <2>2, <2>3, <2>4 DEF Next
<1>4. \A r \in Requests : call'[r].pc = "rejected" =>
          call'[r].count > 0 /\ call'[r].count > Limit[ActionOf[r]]
    <2> SUFFICES ASSUME NEW p \in Requests, call'[p].pc = "rejected"
                 PROVE  call[p].count > 0 /\ call[p].count > Limit[ActionOf[p]]
        BY <1>1
    <2>1. CASE call[p].pc = "rejected"
        BY <2>1 DEF NumbersHaveNoGaps, At, Counted
    <2>2. CASE call[p].pc # "rejected"
        <3>1. ASSUME NEW r \in Requests, ReadClock(r) \/ IncrementAnswerLost(r) \/ Dies(r)
              PROVE  FALSE
            <4>1. \A q \in Requests : call'[q].pc # call[q].pc =>
                      call'[q].pc \in {"clockRead", "failed"}
                BY <3>1 DEF ReadClock, IncrementAnswerLost, Dies, RateInv, TypeOK, Call
            <4> QED
                BY <4>1, <2>2
        <3>2. ASSUME NEW r \in Requests, Expire(r)
              PROVE  call[p].count > 0 /\ call[p].count > Limit[ActionOf[p]]
            BY <3>2, <2>2 DEF Expire, Verdict, At, Counted, RateInv, TypeOK, Call, VerdictsAreKept
        <3>3. CASE Tick \/ UNCHANGED vars
            BY <3>3, <2>2 DEF Tick, vars
        <3> QED
            BY <3>1, <3>2, <3>3 DEF Next
    <2> QED
        BY <2>1, <2>2
<1>5. ASSUME faults' = 0, NEW r \in Requests, NEW m \in 1..(call'[r].count - 1)
      PROVE  \E q \in CountedUnder(KeyOf(r))' : call'[q].count = m
    <2>1. m \in 1..(call[r].count - 1) /\ call[r].count > 0
        BY <1>0, <1>1, <1>5
    <2>2. PICK q \in CountedUnder(KeyOf(r)) : call[q].count = m
        BY <2>1, <1>3, <1>5 DEF NumbersHaveNoGaps
    <2>3. KeyOf(r)' = KeyOf(r)
        BY <1>1, <2>1 DEF KeyOf
    <2>4. q \in Requests /\ q \in CountedUnder(KeyOf(r))'
        BY <2>2, <2>3, <1>1 DEF CountedUnder, Counted, KeyOf
    <2> QED
        BY <2>2, <2>4, <1>1
<1>6. ASSUME faults' = 0, NEW k \in Keys, NEW m \in 1..counter'[k]
      PROVE  \E q \in CountedUnder(k)' : call'[q].count = m
    <2>1. m \in 1..counter[k]
        BY <1>0, <1>3, <1>6
    <2>2. PICK q \in CountedUnder(k) : call[q].count = m
        BY <2>1, <1>3, <1>6 DEF NumbersHaveNoGaps
    <2> QED
        BY <2>2, <1>1, <1>2 DEF CountedUnder
<1>7. \A k \in Keys : IsFiniteSet(CountedUnder(k)')
    BY <1>2 DEF NumbersHaveNoGaps
<1> QED
    BY <1>4, <1>5, <1>6, <1>7 DEF NumbersHaveNoGaps, At, Counted

\* A number above the limit without a gap below it: the limit was used up.
LEMMA GaplessRefusals == RateInv /\ NumbersHaveNoGaps => RejectedOnlyOverLimit
<1> SUFFICES ASSUME RateInv, NumbersHaveNoGaps, NEW r \in Requests, At(r, "rejected"), faults = 0
             PROVE  Cardinality({q \in CountedUnder(KeyOf(r)) : ActionOf[q] = ActionOf[r]} \ {r})
                       >= Limit[ActionOf[r]]
    BY DEF RejectedOnlyOverLimit, RateInv, TypeOK
<1> DEFINE L == Limit[ActionOf[r]]
           S == {q \in CountedUnder(KeyOf(r)) : ActionOf[q] = ActionOf[r]} \ {r}
           T == {q \in S : call[q].count \in 1..L}
           number == [q \in T |-> call[q].count]
<1>1. L \in Nat /\ KeyOf(r) \in Keys /\ \A q \in Requests : call[q].count \in Nat
    BY RateAssumption, KeyType DEF RateInv, TypeOK, Call
<1>2. call[r].count > L
    BY DEF NumbersHaveNoGaps
<1>3. ASSUME NEW m \in 1..L PROVE \E q \in T : call[q].count = m
    <2>1. m \in 1..(call[r].count - 1)
        BY <1>1, <1>2, <1>3
    <2>2. PICK q \in CountedUnder(KeyOf(r)) : call[q].count = m
        BY <2>1 DEF NumbersHaveNoGaps
    <2>3. q # r /\ ActionOf[q] = ActionOf[r]
        BY <1>1, <1>2, <2>2, KeyType DEF CountedUnder, KeyOf
    <2> QED
        BY <2>2, <2>3
<1>4. number \in Surjection(T, 1..L)
    <2>1. number \in [T -> 1..L]
        OBVIOUS
    <2>2. \A m \in 1..L : \E q \in T : number[q] = m
        BY <1>3
    <2> HIDE DEF number, T, L
    <2> QED
        BY <2>1, <2>2 DEF Surjection
<1>5. IsFiniteSet(S) /\ T \subseteq S
    <2>1. IsFiniteSet(CountedUnder(KeyOf(r))) /\ S \subseteq CountedUnder(KeyOf(r))
        BY <1>1 DEF NumbersHaveNoGaps
    <2> HIDE DEF S
    <2> QED
        BY <2>1, FS_Subset DEF T
<1> HIDE DEF number, S, T, L
<1>6. IsFiniteSet(T) /\ Cardinality(T) <= Cardinality(S)
    BY <1>5, FS_Subset
<1>7. Cardinality(1..L) <= Cardinality(T) /\ Cardinality(1..L) = L
    BY <1>1, <1>4, <1>6, FS_Surjection, FS_Interval
<1>8. Cardinality(S) \in Nat /\ Cardinality(T) \in Nat
    BY <1>5, <1>6, FS_CardinalityType
<1>9. Cardinality(S) >= L
    BY <1>1, <1>6, <1>7, <1>8
<1> QED
    BY <1>9 DEF S, L

\* A deposit or a withdrawal is refused only when the limit was used up by
\* other requests for the same action in the same clock minute, for any number
\* of requests and instances, unless a command failed.
THEOREM RefusedOnlyOverLimit == Spec => []RejectedOnlyOverLimit
<1>1. RateInv /\ NumbersHaveNoGaps /\ [Next]_vars => NumbersHaveNoGaps'
    BY NoGapsIncrement, NoGapsOther
<1> QED
    BY <1>1, NoGapsInit, RateInvariance, GaplessRefusals, PTL DEF Spec
=============================================================================
