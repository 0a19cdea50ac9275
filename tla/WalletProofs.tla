---------------------------- MODULE WalletProofs -----------------------------
(***************************************************************************)
(* Proofs about the user's wallets, from both ends.                        *)
(*                                                                         *)
(* WalletCalls: the calls of one request are bounded for any wallets and   *)
(* any number of attempts.  CallsInv says how many look-ups and balance    *)
(* calls the rounds begun so far allow at each stage of the work on a      *)
(* wallet, and CallsAreBounded follows from it.                            *)
(*                                                                         *)
(* Session: what a browser tab shows of them, for any users and any order  *)
(* of answers.  TabInv says whose token the requests carry, which card is  *)
(* pending, how long an answer is fresh, and what the tab knows.           *)
(***************************************************************************)
EXTENDS WalletCalls, Session, FiniteSetTheorems, TLAPS

M == MaxAttempts

Flying(w) == {call \in flying : call.wallet = w}

\* The check of the signer is one look-up more.
SignerLook == IF request.kind = "signing" THEN 1 ELSE 0

\* What the rounds and attempts so far allow one wallet.  A round that ends in
\* an error leaves at most one balance call behind.
LooksWithinRounds(w) ==
    /\ gets[w] <= M * M + SignerLook
    /\ task[w].at = "wallet" =>
          gets[w] <= (task[w].round - 1) * M + (task[w].attempt - 1) + SignerLook
    /\ task[w].at = "balances" => gets[w] <= task[w].round * M + SignerLook
    /\ task[w].at = "signer" => gets[w] = 0
    /\ task[w].at = "signable" => gets[w] <= task[w].round - 1
    /\ task[w].at = "send" => gets[w] <= task[w].round

CallsWithinRounds(w) ==
    /\ Cardinality(Flying(w)) <= M + 1
    /\ task[w].at = "wallet" => Cardinality(Flying(w)) <= task[w].round - 1
    /\ task[w].at = "balances" => Cardinality(Flying(w)) <= task[w].round + 1
    /\ task[w].at = "signer" => Cardinality(Flying(w)) = 0

\* Only the list works on several wallets; only the faucet sends.
WorksForRequest(w) ==
    /\ request.kind # "list" /\ w # request.wallet => task[w].at = "idle"
    /\ task[w].at = "signer" => request.kind = "signing"
    /\ task[w].at \in {"signable", "send"} =>
          request.kind = "faucet" /\ sends <= task[w].round - 1
    /\ request.status # 0 => task[w].at \in {"idle", "shown", "bare"}

CallsInv ==
    /\ TypeOK
    /\ IsFiniteSet(flying)
    /\ \A w \in Wallets : LooksWithinRounds(w) /\ CallsWithinRounds(w) /\ WorksForRequest(w)
    /\ sends <= M

-----------------------------------------------------------------------------
(* Arithmetic *)

LEMMA Attempts == M \in Nat /\ M >= 1
BY WalletCallsAssumption DEF M

\* The budget grows by a round, and the last round's is all of it.
LEMMA Budget ==
    ASSUME NEW r \in 1..M
    PROVE  /\ r * M \in Nat /\ (r - 1) * M \in Nat /\ M * M \in Nat
           /\ (r - 1) * M + M = r * M
           /\ r * M <= M * M
           /\ M <= M * M
<1>1. M \in Nat /\ M >= 1
    BY Attempts
<1>2. \A a, b \in Nat : a <= b => a * M <= b * M
    BY <1>1, SMT
<1>3. r * M <= M * M /\ 1 * M <= M * M
    BY <1>1, <1>2
<1> QED
    BY <1>1, <1>3, SMT

LEMMA UpToBound ==
    ASSUME NEW b \in Nat, NEW n \in Nat
    PROVE  UpTo(b, n) \in Nat /\ UpTo(b, n) <= n + 1
BY DEF UpTo

LEMMA Bounds == MaxGets \in Nat /\ MaxSends \in Nat
<1>1. M \in Nat /\ M >= 1
    BY Attempts
<1>2. M * M \in Nat
    BY <1>1
<1> QED
    BY <1>1, <1>2 DEF MaxGets, MaxSends, M

-----------------------------------------------------------------------------
(* What a step does to the wallets it is not about *)

\* A step on wallet w.
Apart(w) ==
    /\ request'.kind = request.kind /\ request'.wallet = request.wallet
    /\ request.status = 0
    /\ \A v \in Wallets \ {w} :
          task'[v] = task[v] /\ gets'[v] = gets[v] /\ Flying(v)' = Flying(v)

\* Wallets apart from the one worked on keep what holds of them; the step may
\* send or answer only if the request is about that one wallet.
LEMMA OthersKeep ==
    ASSUME CallsInv, NEW w \in Wallets, NEW v \in Wallets, v # w, Apart(w),
           sends' = sends \/ request.kind = "faucet",
           request'.status = 0 \/ request.kind # "list",
           request.kind = "list" \/ request.wallet = w
    PROVE  LooksWithinRounds(v)' /\ CallsWithinRounds(v)' /\ WorksForRequest(v)'
<1>1. /\ task'[v] = task[v] /\ gets'[v] = gets[v] /\ Flying(v)' = Flying(v)
      /\ request'.kind = request.kind /\ request'.wallet = request.wallet
    BY DEF Apart
<1>2. LooksWithinRounds(v)'
    BY <1>1 DEF CallsInv, LooksWithinRounds, SignerLook
<1>3. CallsWithinRounds(v)'
    BY <1>1 DEF CallsInv, CallsWithinRounds
<1>4. request.kind # "list" => task[v].at = "idle"
    BY DEF CallsInv, WorksForRequest
<1>5. WorksForRequest(v)'
    BY <1>1, <1>4 DEF CallsInv, WorksForRequest
<1> QED
    BY <1>2, <1>3, <1>5

\* The wallet at work in a request that is not the list is the one asked of.
LEMMA AtWork ==
    ASSUME CallsInv, NEW w \in Wallets, task[w].at # "idle"
    PROVE  request.kind = "list" \/ request.wallet = w
BY DEF CallsInv, WorksForRequest

-----------------------------------------------------------------------------
(* Types *)

LEMMA InitInv == Init => CallsInv
<1> SUFFICES ASSUME Init PROVE CallsInv
    OBVIOUS
<1>1. M \in Nat /\ M >= 1 /\ M * M \in Nat
    BY Attempts
<1>2. IdleTask \in Task
    BY <1>1 DEF IdleTask, Task, M
<1>3. TypeOK
    BY <1>2 DEF Init, TypeOK
<1>4. IsFiniteSet(flying) /\ \A w \in Wallets : Flying(w) = {} /\ Cardinality(Flying(w)) = 0
    BY FS_EmptySet DEF Init, Flying
<1>5. \A w \in Wallets : task[w].at = "idle" /\ gets[w] = 0
    BY DEF Init, IdleTask
<1> QED
    BY <1>1, <1>3, <1>4, <1>5
    DEF Init, CallsInv, LooksWithinRounds, CallsWithinRounds, WorksForRequest, SignerLook

\* Every error is answered with a status.
LEMMA ErrorsHaveStatus ==
    ASSUME NEW e \in ClientErrors
    PROVE  /\ StatusOf(e) \in Nat \ {0}
           /\ StatusOf(MapPrivyError(e)) \in Nat \ {0}
<1>1. e.status \in Nat /\ e.name # "HttpException"
    BY DEF ClientErrors, Err
<1>2. MapPrivyError(e).name = "HttpException" /\ MapPrivyError(e).status \in Nat \ {0}
    BY <1>1 DEF ClientErrors, MapPrivyError, Http, Err
<1> QED
    BY <1>1, <1>2 DEF StatusOf

\* The parts of a step on wallet w that are the same in every action on one.
LEMMA ThrowsTypes ==
    ASSUME TypeOK, NEW w \in Wallets, NEW e
    PROVE  RoundThrows(w, e) =>
              /\ task' \in [Wallets -> Task]
              /\ \A v \in Wallets \ {w} : task'[v] = task[v]
              /\ \/ /\ task[w].round < M
                    /\ task'[w] = [at |-> "wallet", round |-> task[w].round + 1, attempt |-> 1]
                 \/ task'[w] = [task[w] EXCEPT !.at = "bare"]
<1>1. M \in Nat /\ M >= 1 /\ task[w] \in Task
    BY Attempts DEF TypeOK
<1>2. ASSUME RoundThrows(w, e), MayRetry(e, task[w].round)
      PROVE  /\ task' = [task EXCEPT ![w] =
                            [at |-> "wallet", round |-> task[w].round + 1, attempt |-> 1]]
             /\ task[w].round < M
    BY <1>2 DEF RoundThrows, MayRetry, NextAttempt, TypeOK, M
<1>3. ASSUME RoundThrows(w, e), ~MayRetry(e, task[w].round)
      PROVE  task' = [task EXCEPT ![w] = [task[w] EXCEPT !.at = "bare"]]
    BY <1>3 DEF RoundThrows, Goto, TypeOK
<1>4. ASSUME task[w].round < M
      PROVE  [at |-> "wallet", round |-> task[w].round + 1, attempt |-> 1] \in Task
    BY <1>1, <1>4 DEF Task, M
<1>5. [task[w] EXCEPT !.at = "bare"] \in Task
    BY <1>1 DEF Task
<1> QED
    BY <1>2, <1>3, <1>4, <1>5 DEF TypeOK

LEMMA GotoTypes ==
    ASSUME TypeOK, NEW w \in Wallets, NEW s \in {"idle", "balances", "shown", "send"}, Goto(w, s)
    PROVE  /\ task' \in [Wallets -> Task]
           /\ \A v \in Wallets \ {w} : task'[v] = task[v]
           /\ task'[w] = [task[w] EXCEPT !.at = s]
<1>1. task[w] \in Task
    BY DEF TypeOK
<1>2. [task[w] EXCEPT !.at = s] \in Task
    BY <1>1 DEF Task
<1> QED
    BY <1>2 DEF Goto, TypeOK

LEMMA BegunTypes ==
    ASSUME NEW w \in Wallets
    PROVE  /\ Begun(w) \in Task /\ Begun(w).at \in {"wallet", "bare"}
           /\ Begun(w).round = 1 /\ Begun(w).attempt = 1
BY Attempts DEF Begun, IdleTask, Task, M

LEMMA SendThrowsTypes ==
    ASSUME TypeOK, NEW w \in Wallets, NEW e, StatusOf(MapPrivyError(e)) \in Nat \ {0},
           SendThrows(w, e)
    PROVE  /\ task' \in [Wallets -> Task]
           /\ \A v \in Wallets \ {w} : task'[v] = task[v]
           /\ \/ /\ task[w].round < M /\ request' = request
                 /\ task'[w].at = "signable" /\ task'[w].round = task[w].round + 1
              \/ /\ task'[w].at = "idle"
                 /\ request' = [request EXCEPT !.status = StatusOf(MapPrivyError(e))]
<1>1. M \in Nat /\ M >= 1 /\ task[w] \in Task
    BY Attempts DEF TypeOK
<1>2. CASE MayRetry(e, task[w].round)
    <2>1. /\ task' = [task EXCEPT ![w].at = "signable", ![w].round = task[w].round + 1]
          /\ request' = request /\ task[w].round < M
        BY <1>2 DEF SendThrows, MayRetry, NextAttempt, TypeOK, M
    <2> QED
        BY <1>1, <2>1 DEF TypeOK, Task, M
<1>3. CASE ~MayRetry(e, task[w].round)
    <2>1. Goto(w, "idle") /\ request' = [request EXCEPT !.status = StatusOf(MapPrivyError(e))]
        BY <1>3 DEF SendThrows, Answer
    <2> QED
        BY <1>1, <2>1, GotoTypes DEF Task
<1> QED
    BY <1>2, <1>3

LEMMA LooksTypes ==
    ASSUME TypeOK, NEW w \in Wallets, Looks(w)
    PROVE  /\ gets' \in [Wallets -> Nat]
           /\ \A v \in Wallets \ {w} : gets'[v] = gets[v]
           /\ gets'[w] <= gets[w] + 1
<1>1. gets[w] \in Nat /\ MaxGets \in Nat
    BY Bounds DEF TypeOK
<1>2. UpTo(MaxGets, gets[w]) \in Nat /\ UpTo(MaxGets, gets[w]) <= gets[w] + 1
    BY <1>1, UpToBound
<1>3. gets' = [gets EXCEPT ![w] = UpTo(MaxGets, gets[w])]
    BY DEF Looks
<1> QED
    BY <1>2, <1>3 DEF TypeOK

LEMMA SendsTypes ==
    ASSUME TypeOK, Sends
    PROVE  sends' \in Nat /\ sends' <= sends + 1
<1>1. sends \in Nat /\ MaxSends \in Nat
    BY Bounds DEF TypeOK
<1> QED
    BY <1>1, UpToBound DEF Sends

-----------------------------------------------------------------------------
(* A step on one wallet *)

\* The invariant after a step on wallet w, from what it does to w.
LEMMA WalletStep ==
    ASSUME CallsInv, NEW w \in Wallets, task[w].at # "idle", Apart(w),
           TypeOK', IsFiniteSet(flying'),
           LooksWithinRounds(w)', CallsWithinRounds(w)', WorksForRequest(w)',
           sends' = sends \/ (request.kind = "faucet" /\ sends' <= M),
           request'.status = 0 \/ request.kind # "list"
    PROVE  CallsInv'
<1>1. request.kind = "list" \/ request.wallet = w
    BY AtWork
<1>2. \A v \in Wallets : LooksWithinRounds(v)' /\ CallsWithinRounds(v)' /\ WorksForRequest(v)'
    BY <1>1, OthersKeep
<1>3. (sends <= M)'
    BY DEF CallsInv, M
<1> QED
    BY <1>2, <1>3 DEF CallsInv

\* A step that looks at w or sends for it and leaves the calls alone.
LEMMA SameCalls ==
    ASSUME CallsInv, NEW w \in Wallets, request.status = 0, UNCHANGED flying,
           request'.kind = request.kind, request'.wallet = request.wallet,
           \A v \in Wallets \ {w} : task'[v] = task[v] /\ gets'[v] = gets[v]
    PROVE  Apart(w) /\ IsFiniteSet(flying') /\ Flying(w)' = Flying(w)
BY DEF Apart, CallsInv, Flying

\* What the numbers of a wallet's work are.
LEMMA Numbers ==
    ASSUME CallsInv, NEW w \in Wallets
    PROVE  /\ M \in Nat /\ M >= 1
           /\ task[w].round \in 1..M /\ task[w].attempt \in 1..M
           /\ gets[w] \in Nat /\ sends \in Nat /\ SignerLook \in {0, 1}
           /\ IsFiniteSet(Flying(w)) /\ Cardinality(Flying(w)) \in Nat
<1>1. M \in Nat /\ M >= 1
    BY Attempts
<1>2. TypeOK /\ IsFiniteSet(flying)
    BY DEF CallsInv
<1>3. task[w] \in Task /\ gets[w] \in Nat /\ sends \in Nat
    BY <1>2 DEF TypeOK
<1>4. IsFiniteSet(Flying(w)) /\ Cardinality(Flying(w)) \in Nat
    BY <1>2, FS_Subset, FS_CardinalityType DEF Flying
<1> QED
    BY <1>1, <1>3, <1>4 DEF Task, M, SignerLook

-----------------------------------------------------------------------------
(* getBalances *)

\* The calls of one round.
RoundCalls(w, r) == [wallet : {w}, round : {r}, asset : Assets]

LEMMA TwoCalls ==
    ASSUME NEW w \in Wallets, NEW r \in 1..MaxAttempts
    PROVE  \E a, b \in Call :
              /\ RoundCalls(w, r) = {a, b}
              /\ a.wallet = w /\ b.wallet = w
<1> DEFINE c(x) == [wallet |-> w, round |-> r, asset |-> x]
<1>1. c("eth") \in Call /\ c("usdc") \in Call
    BY DEF Call, Assets
<1>2. ASSUME NEW x \in RoundCalls(w, r)
      PROVE  x = c("eth") \/ x = c("usdc")
    <2>1. x = [wallet |-> x.wallet, round |-> x.round, asset |-> x.asset]
        BY DEF RoundCalls
    <2>2. x.wallet = w /\ x.round = r /\ x.asset \in Assets
        BY DEF RoundCalls
    <2> QED
        BY <2>1, <2>2 DEF Assets
<1>3. c("eth") \in RoundCalls(w, r) /\ c("usdc") \in RoundCalls(w, r)
    BY DEF Assets, RoundCalls
<1>4. RoundCalls(w, r) = {c("eth"), c("usdc")}
    <2> HIDE DEF c
    <2> QED
        BY <1>2, <1>3
<1>5. c("eth").wallet = w /\ c("usdc").wallet = w
    OBVIOUS
<1> HIDE DEF c
<1> QED
    BY <1>1, <1>4, <1>5

LEMMA AddTwo ==
    ASSUME NEW S, IsFiniteSet(S), NEW a, NEW b
    PROVE  /\ IsFiniteSet(S \cup {a, b})
           /\ Cardinality(S \cup {a, b}) \in Nat
           /\ Cardinality(S \cup {a, b}) <= Cardinality(S) + 2
<1> DEFINE T == S \cup {a}
<1>1. /\ IsFiniteSet(T) /\ Cardinality(S) \in Nat
      /\ Cardinality(T) \in Nat /\ Cardinality(T) <= Cardinality(S) + 1
    BY FS_AddElement, FS_CardinalityType
<1>2. S \cup {a, b} = T \cup {b}
    OBVIOUS
<1> HIDE DEF T
<1>3. /\ IsFiniteSet(T \cup {b})
      /\ Cardinality(T \cup {b}) = IF b \in T THEN Cardinality(T) ELSE Cardinality(T) + 1
    BY <1>1, FS_AddElement
<1>4. Cardinality(T \cup {b}) \in Nat /\ Cardinality(T \cup {b}) <= Cardinality(S) + 2
    BY <1>1, <1>3
<1> QED
    BY <1>2, <1>3, <1>4, Zenon

LEMMA GetReturnsInv ==
    ASSUME CallsInv, NEW w \in Wallets, GetReturns(w)
    PROVE  CallsInv'
<1> DEFINE two == RoundCalls(w, task[w].round)
<1>1. /\ task[w].at = "wallet" /\ request.status = 0
      /\ Looks(w) /\ Goto(w, "balances")
      /\ flying' = flying \cup two
      /\ UNCHANGED <<request, sends>>
    BY DEF GetReturns, At, RoundCalls
<1>2. TypeOK
    BY DEF CallsInv
<1>3. /\ task' \in [Wallets -> Task] /\ task'[w] = [task[w] EXCEPT !.at = "balances"]
      /\ \A v \in Wallets \ {w} : task'[v] = task[v]
    BY <1>1, <1>2, GotoTypes
<1>4. task'[w].at = "balances" /\ task'[w].round = task[w].round
    BY <1>2, <1>3 DEF TypeOK, Task
<1>5. /\ gets' \in [Wallets -> Nat] /\ gets'[w] <= gets[w] + 1
      /\ \A v \in Wallets \ {w} : gets'[v] = gets[v]
    BY <1>1, <1>2, LooksTypes
<1>6. /\ M \in Nat /\ M >= 1 /\ task[w].round \in 1..M /\ task[w].attempt \in 1..M
      /\ gets[w] \in Nat /\ sends \in Nat /\ SignerLook \in {0, 1}
      /\ IsFiniteSet(Flying(w)) /\ Cardinality(Flying(w)) \in Nat
    BY Numbers
<1>7. PICK a, b \in Call : two = {a, b} /\ a.wallet = w /\ b.wallet = w
    <2>1. task[w].round \in 1..MaxAttempts
        BY <1>6 DEF M
    <2> QED
        BY <2>1, TwoCalls
<1> HIDE DEF two
<1>8. TypeOK'
    BY <1>1, <1>2, <1>3, <1>5, <1>7 DEF TypeOK
<1>9. Flying(w)' = Flying(w) \cup {a, b}
    BY <1>1, <1>7 DEF Flying
<1>10. flying' = flying \cup {a, b}
    BY <1>1, <1>7
<1>11. IsFiniteSet(flying')
    BY <1>10, AddTwo DEF CallsInv
<1>12. /\ Cardinality(Flying(w)') <= Cardinality(Flying(w)) + 2
       /\ Cardinality(Flying(w)') \in Nat
    BY <1>6, <1>9, AddTwo
<1>13. Apart(w)
    <2>1. \A v \in Wallets \ {w} : Flying(v)' = Flying(v)
        BY <1>7, <1>10 DEF Flying
    <2> QED
        BY <1>1, <1>3, <1>5, <2>1 DEF Apart
<1>14. LooksWithinRounds(w)'
    <2>1. gets[w] <= (task[w].round - 1) * M + (task[w].attempt - 1) + SignerLook
        BY <1>1 DEF CallsInv, LooksWithinRounds
    <2>2. /\ task[w].round * M \in Nat /\ (task[w].round - 1) * M \in Nat /\ M * M \in Nat
          /\ (task[w].round - 1) * M + M = task[w].round * M
          /\ task[w].round * M <= M * M
        BY <1>6, Budget
    <2>3. gets'[w] <= task[w].round * M + SignerLook
        BY <1>5, <1>6, <2>1, <2>2
    <2>4. gets'[w] <= M * M + SignerLook
        BY <1>5, <1>6, <2>2, <2>3
    <2> QED
        BY <1>1, <1>4, <2>3, <2>4 DEF LooksWithinRounds, SignerLook, M
<1>15. CallsWithinRounds(w)'
    <2>1. Cardinality(Flying(w)) <= task[w].round - 1
        BY <1>1 DEF CallsInv, CallsWithinRounds
    <2> QED
        BY <1>4, <1>6, <1>12, <2>1 DEF CallsWithinRounds, M
<1>16. WorksForRequest(w)'
    BY <1>1, <1>4, AtWork DEF WorksForRequest
<1> QED
    BY <1>1, <1>8, <1>11, <1>13, <1>14, <1>15, <1>16, WalletStep

\* A round ends in an error: what it has used is within the round's budget, and
\* no more than one of its calls is left.
LEMMA RoundThrowsInv ==
    ASSUME CallsInv, NEW w \in Wallets, NEW e, RoundThrows(w, e),
           task[w].at \in {"wallet", "balances"}, request.status = 0,
           UNCHANGED <<request, sends>>,
           gets' \in [Wallets -> Nat], flying' \subseteq Call, IsFiniteSet(flying'),
           \A v \in Wallets \ {w} : gets'[v] = gets[v] /\ Flying(v)' = Flying(v),
           gets'[w] <= task[w].round * M + SignerLook,
           Cardinality(Flying(w)') \in Nat,
           Cardinality(Flying(w)') <= task[w].round
    PROVE  CallsInv'
<1>1. TypeOK
    BY DEF CallsInv
<1>2. /\ task' \in [Wallets -> Task]
      /\ \A v \in Wallets \ {w} : task'[v] = task[v]
      /\ \/ /\ task[w].round < M
            /\ task'[w] = [at |-> "wallet", round |-> task[w].round + 1, attempt |-> 1]
         \/ task'[w] = [task[w] EXCEPT !.at = "bare"]
    BY <1>1, ThrowsTypes
<1>3. \/ /\ task[w].round < M /\ task'[w].at = "wallet"
         /\ task'[w].round = task[w].round + 1 /\ task'[w].attempt = 1
      \/ task'[w].at = "bare"
    BY <1>1, <1>2 DEF TypeOK, Task
<1>4. /\ M \in Nat /\ M >= 1 /\ task[w].round \in 1..M
      /\ gets[w] \in Nat /\ sends \in Nat /\ SignerLook \in {0, 1}
    BY Numbers
<1>5. TypeOK'
    BY <1>1, <1>2 DEF TypeOK
<1>6. Apart(w)
    BY <1>2 DEF Apart
<1>7. LooksWithinRounds(w)'
    <2>1. task[w].round * M \in Nat /\ M * M \in Nat /\ task[w].round * M <= M * M
        BY <1>4, Budget
    <2>2. gets'[w] <= M * M + SignerLook
        BY <1>4, <1>5, <2>1 DEF TypeOK
    <2>3. task'[w].at = "wallet" =>
             gets'[w] <= (task'[w].round - 1) * M + (task'[w].attempt - 1) + SignerLook
        <3>1. SUFFICES ASSUME task'[w].at = "wallet"
              PROVE  gets'[w] <= (task'[w].round - 1) * M + (task'[w].attempt - 1) + SignerLook
            OBVIOUS
        <3>2. task'[w].round - 1 = task[w].round /\ task'[w].attempt - 1 = 0
            BY <1>3, <1>4, <3>1
        <3>3. gets'[w] <= task[w].round * M + 0 + SignerLook
            BY <1>4, <2>1
        <3> QED
            BY <3>2, <3>3
    <2> QED
        BY <1>3, <2>2, <2>3 DEF LooksWithinRounds, SignerLook, M
<1>8. CallsWithinRounds(w)'
    BY <1>3, <1>4 DEF CallsWithinRounds, M
<1>9. WorksForRequest(w)'
    BY <1>3, AtWork DEF WorksForRequest
<1> QED
    BY <1>5, <1>6, <1>7, <1>8, <1>9, WalletStep

LEMMA GetFailsInv ==
    ASSUME CallsInv, NEW w \in Wallets, NEW e \in ClientErrors, GetFails(w, e)
    PROVE  CallsInv'
<1>1. /\ task[w].at = "wallet" /\ request.status = 0 /\ Looks(w)
      /\ UNCHANGED <<request, flying, sends>>
    BY DEF GetFails, At
<1>2. TypeOK
    BY DEF CallsInv
<1>3. /\ M \in Nat /\ M >= 1 /\ task[w].round \in 1..M /\ task[w].attempt \in 1..M
      /\ gets[w] \in Nat /\ sends \in Nat /\ SignerLook \in {0, 1}
      /\ Cardinality(Flying(w)) \in Nat
    BY Numbers
<1>4. /\ gets' \in [Wallets -> Nat] /\ gets'[w] \in Nat /\ gets'[w] <= gets[w] + 1
      /\ \A v \in Wallets \ {w} : gets'[v] = gets[v]
    BY <1>1, <1>2, LooksTypes
<1>5. /\ task[w].round * M \in Nat /\ (task[w].round - 1) * M \in Nat /\ M * M \in Nat
      /\ (task[w].round - 1) * M + M = task[w].round * M
      /\ task[w].round * M <= M * M
    BY <1>3, Budget
<1>6. gets'[w] <= (task[w].round - 1) * M + task[w].attempt + SignerLook
    <2>1. gets[w] <= (task[w].round - 1) * M + (task[w].attempt - 1) + SignerLook
        BY <1>1 DEF CallsInv, LooksWithinRounds
    <2> QED
        BY <1>3, <1>4, <1>5, <2>1
<1>7. gets'[w] <= task[w].round * M + SignerLook
    BY <1>3, <1>4, <1>5, <1>6
<1>8. Cardinality(Flying(w)) <= task[w].round - 1
    BY <1>1 DEF CallsInv, CallsWithinRounds
<1>9. CASE MayRetry(e, task[w].attempt)
    <2>1. task' = [task EXCEPT ![w].attempt = task[w].attempt + 1] /\ task[w].attempt < M
        BY <1>9 DEF GetFails, NextAttempt, MayRetry, M
    <2>2. /\ task' \in [Wallets -> Task] /\ \A v \in Wallets \ {w} : task'[v] = task[v]
          /\ task'[w].at = "wallet" /\ task'[w].round = task[w].round
          /\ task'[w].attempt - 1 = task[w].attempt
        <3>1. task[w] \in Task /\ task[w].attempt + 1 \in 1..MaxAttempts
            BY <1>2, <1>3, <2>1 DEF TypeOK, M
        <3>2. [task[w] EXCEPT !.attempt = task[w].attempt + 1] \in Task
            BY <3>1 DEF Task
        <3>3. task' = [task EXCEPT ![w] = [task[w] EXCEPT !.attempt = task[w].attempt + 1]]
            BY <2>1
        <3>4. task'[w] = [task[w] EXCEPT !.attempt = task[w].attempt + 1]
            BY <1>2, <3>3 DEF TypeOK
        <3>5. /\ task'[w].at = "wallet" /\ task'[w].round = task[w].round
              /\ task'[w].attempt = task[w].attempt + 1
            BY <1>1, <3>1, <3>4 DEF Task
        <3> QED
            BY <1>2, <1>3, <3>2, <3>3, <3>5 DEF TypeOK
    <2>3. TypeOK'
        BY <1>1, <1>2, <1>4, <2>2 DEF TypeOK
    <2>4. Apart(w) /\ IsFiniteSet(flying') /\ Flying(w)' = Flying(w)
        BY <1>1, <1>4, <2>2, SameCalls
    <2>5. LooksWithinRounds(w)'
        <3>1. gets'[w] <= M * M + SignerLook
            BY <1>3, <1>4, <1>5, <1>7
        <3> QED
            BY <1>1, <1>6, <2>2, <3>1 DEF LooksWithinRounds, SignerLook, M
    <2>6. CallsWithinRounds(w)'
        BY <1>3, <1>8, <2>2, <2>4 DEF CallsWithinRounds, M
    <2>7. WorksForRequest(w)'
        BY <1>1, <2>2, AtWork DEF WorksForRequest
    <2> QED
        BY <1>1, <2>3, <2>4, <2>5, <2>6, <2>7, WalletStep
<1>10. CASE ~MayRetry(e, task[w].attempt)
    <2>1. RoundThrows(w, MapPrivyError(e))
        BY <1>10 DEF GetFails
    <2>2. \A v \in Wallets : Flying(v)' = Flying(v)
        BY <1>1 DEF Flying
    <2>3. flying' \subseteq Call /\ IsFiniteSet(flying')
        BY <1>1, <1>2 DEF CallsInv, TypeOK
    <2>4. Cardinality(Flying(w)') \in Nat /\ Cardinality(Flying(w)') <= task[w].round
        BY <1>3, <1>8, <2>2
    <2> QED
        BY <1>1, <1>4, <1>7, <2>1, <2>2, <2>3, <2>4, RoundThrowsInv
<1> QED
    BY <1>9, <1>10

\* A balance call comes back: one call less of its wallet.
LEMMA OneCallLess ==
    ASSUME CallsInv, NEW call \in flying, flying' = flying \ {call}
    PROVE  /\ call.wallet \in Wallets /\ flying' \subseteq Call /\ IsFiniteSet(flying')
           /\ \A v \in Wallets \ {call.wallet} : Flying(v)' = Flying(v)
           /\ Cardinality(Flying(call.wallet)') \in Nat
           /\ Cardinality(Flying(call.wallet)') = Cardinality(Flying(call.wallet)) - 1
<1>1. flying \subseteq Call /\ IsFiniteSet(flying)
    BY DEF CallsInv, TypeOK
<1>2. call.wallet \in Wallets
    BY <1>1 DEF Call
<1>3. /\ \A v \in Wallets \ {call.wallet} : Flying(v)' = Flying(v)
      /\ Flying(call.wallet)' = Flying(call.wallet) \ {call}
      /\ call \in Flying(call.wallet)
    BY <1>2 DEF Flying
<1>4. IsFiniteSet(Flying(call.wallet))
    BY <1>2, Numbers
<1>5. Cardinality(Flying(call.wallet) \ {call}) = Cardinality(Flying(call.wallet)) - 1
    BY <1>3, <1>4, FS_RemoveElement
<1>6. IsFiniteSet(flying') /\ IsFiniteSet(Flying(call.wallet) \ {call})
    BY <1>1, <1>4, FS_RemoveElement
<1>7. Cardinality(Flying(call.wallet) \ {call}) \in Nat
    BY <1>6, FS_CardinalityType
<1> QED
    BY <1>1, <1>2, <1>3, <1>5, <1>6, <1>7

LEMMA BalanceReturnsInv ==
    ASSUME CallsInv, NEW call \in flying, BalanceReturns(call)
    PROVE  CallsInv'
<1> DEFINE w == call.wallet
<1>1. /\ task[w].at = "balances" /\ request.status = 0
      /\ flying' = flying \ {call} /\ UNCHANGED <<request, gets, sends>>
      /\ task' = task \/ Goto(w, "shown")
    BY DEF BalanceReturns, Awaited, At
<1>2. TypeOK
    BY DEF CallsInv
<1>3. /\ w \in Wallets /\ flying' \subseteq Call /\ IsFiniteSet(flying')
      /\ \A v \in Wallets \ {w} : Flying(v)' = Flying(v)
      /\ Cardinality(Flying(w)') \in Nat
      /\ Cardinality(Flying(w)') = Cardinality(Flying(w)) - 1
    BY <1>1, OneCallLess
<1> HIDE DEF w
<1>4. /\ task' \in [Wallets -> Task] /\ \A v \in Wallets \ {w} : task'[v] = task[v]
      /\ task'[w] = task[w] \/ task'[w] = [task[w] EXCEPT !.at = "shown"]
    BY <1>1, <1>2, <1>3, GotoTypes DEF TypeOK
<1>5. task'[w].round = task[w].round /\ task'[w].at \in {"balances", "shown"}
    BY <1>1, <1>2, <1>3, <1>4 DEF TypeOK, Task
<1>6. TypeOK'
    BY <1>1, <1>2, <1>3, <1>4 DEF TypeOK
<1>7. Apart(w)
    BY <1>1, <1>3, <1>4 DEF Apart
<1>8. LooksWithinRounds(w)'
    BY <1>1, <1>3, <1>5 DEF CallsInv, LooksWithinRounds, SignerLook
<1>9. CallsWithinRounds(w)'
    <2>1. /\ Cardinality(Flying(w)) <= task[w].round + 1 /\ Cardinality(Flying(w)) <= M + 1
          /\ Cardinality(Flying(w)) \in Nat /\ M \in Nat /\ task[w].round \in 1..M
        BY <1>1, <1>3, Numbers DEF CallsInv, CallsWithinRounds
    <2> QED
        BY <1>3, <1>5, <2>1 DEF CallsWithinRounds, M
<1>10. WorksForRequest(w)'
    BY <1>1, <1>3, <1>5, AtWork DEF WorksForRequest
<1> QED
    BY <1>1, <1>3, <1>6, <1>7, <1>8, <1>9, <1>10, WalletStep

LEMMA BalanceFailsInv ==
    ASSUME CallsInv, NEW call \in flying, NEW e \in ClientErrors, BalanceFails(call, e)
    PROVE  CallsInv'
<1> DEFINE w == call.wallet
<1>1. /\ task[w].at = "balances" /\ request.status = 0
      /\ flying' = flying \ {call} /\ UNCHANGED <<request, gets, sends>>
      /\ RoundThrows(w, e)
    BY DEF BalanceFails, Awaited, At
<1>2. /\ w \in Wallets /\ flying' \subseteq Call /\ IsFiniteSet(flying')
      /\ \A v \in Wallets \ {w} : Flying(v)' = Flying(v)
      /\ Cardinality(Flying(w)') \in Nat
      /\ Cardinality(Flying(w)') = Cardinality(Flying(w)) - 1
    BY <1>1, OneCallLess
<1> HIDE DEF w
<1>3. gets' \in [Wallets -> Nat] /\ \A v \in Wallets : gets'[v] = gets[v]
    BY <1>1 DEF CallsInv, TypeOK
<1>4. gets'[w] <= task[w].round * M + SignerLook
    BY <1>1, <1>2 DEF CallsInv, LooksWithinRounds
<1>5. Cardinality(Flying(w)') <= task[w].round
    <2>1. /\ Cardinality(Flying(w)) <= task[w].round + 1
          /\ Cardinality(Flying(w)) \in Nat /\ M \in Nat /\ task[w].round \in 1..M
        BY <1>1, <1>2, Numbers DEF CallsInv, CallsWithinRounds
    <2> QED
        BY <1>2, <2>1
<1> QED
    BY <1>1, <1>2, <1>3, <1>4, <1>5, RoundThrowsInv

LEMMA AbandonedEndsInv ==
    ASSUME CallsInv, NEW call \in flying, AbandonedEnds(call)
    PROVE  CallsInv'
<1>1. flying' = flying \ {call} /\ UNCHANGED <<request, task, gets, sends>>
    BY DEF AbandonedEnds
<1>2. /\ call.wallet \in Wallets /\ flying' \subseteq Call /\ IsFiniteSet(flying')
      /\ \A v \in Wallets \ {call.wallet} : Flying(v)' = Flying(v)
      /\ Cardinality(Flying(call.wallet)') \in Nat
      /\ Cardinality(Flying(call.wallet)') = Cardinality(Flying(call.wallet)) - 1
    BY <1>1, OneCallLess
<1>3. TypeOK'
    BY <1>1, <1>2 DEF CallsInv, TypeOK
<1>4. ASSUME NEW v \in Wallets PROVE CallsWithinRounds(v)'
    <2>1. CASE v # call.wallet
        BY <1>1, <1>2, <2>1 DEF CallsInv, CallsWithinRounds
    <2>2. CASE v = call.wallet
        <3>1. CallsWithinRounds(v) /\ task'[v] = task[v]
            BY <1>1 DEF CallsInv
        <3>2. /\ Cardinality(Flying(v)) \in Nat /\ M \in Nat /\ task[v].round \in 1..M
              /\ Cardinality(Flying(v)') <= Cardinality(Flying(v))
              /\ Cardinality(Flying(v)') \in Nat
            BY <1>2, <2>2, Numbers
        <3>3. task[v].at # "signer"
            <4>1. SUFFICES ASSUME task[v].at = "signer" PROVE FALSE
                OBVIOUS
            <4>2. Cardinality(Flying(v)) = 0
                BY <3>1, <4>1 DEF CallsWithinRounds
            <4> QED
                BY <1>2, <2>2, <4>2
        <3> QED
            BY <3>1, <3>2, <3>3 DEF CallsWithinRounds, M
    <2> QED
        BY <2>1, <2>2
<1>5. ASSUME NEW v \in Wallets PROVE LooksWithinRounds(v)' /\ WorksForRequest(v)'
    BY <1>1 DEF CallsInv, LooksWithinRounds, WorksForRequest, SignerLook
<1> QED
    BY <1>1, <1>2, <1>3, <1>4, <1>5 DEF CallsInv, M

LEMMA RespondInv ==
    ASSUME CallsInv, Respond
    PROVE  CallsInv'
<1>1. /\ request' = [request EXCEPT !.status = 200]
      /\ UNCHANGED <<task, flying, gets, sends>>
      /\ \A w \in Wallets : task[w].at \in {"idle", "shown", "bare"}
    BY DEF Respond, Answer
<1>2. request'.kind = request.kind /\ request'.wallet = request.wallet /\ TypeOK'
    BY <1>1 DEF CallsInv, TypeOK
<1>3. ASSUME NEW v \in Wallets
      PROVE  LooksWithinRounds(v)' /\ CallsWithinRounds(v)' /\ WorksForRequest(v)'
    <2>1. LooksWithinRounds(v)'
        BY <1>1, <1>2 DEF CallsInv, LooksWithinRounds, SignerLook
    <2>2. CallsWithinRounds(v)'
        BY <1>1 DEF CallsInv, CallsWithinRounds, Flying
    <2>3. WorksForRequest(v)'
        BY <1>1, <1>2 DEF CallsInv, WorksForRequest
    <2> QED
        BY <2>1, <2>2, <2>3
<1> QED
    BY <1>1, <1>2, <1>3 DEF CallsInv, M

-----------------------------------------------------------------------------
(* ensureWalletServerSigner *)

\* The signer has been looked up: the wallet's balances begin, or the request
\* is answered.
LEMMA SignerInv ==
    ASSUME CallsInv, NEW w \in Wallets, task[w].at = "signer", request.status = 0,
           Looks(w), UNCHANGED <<flying, sends>>,
           NEW s \in Nat \ {0},
           \/ task' = [task EXCEPT ![w] = Begun(w)] /\ UNCHANGED request
           \/ Goto(w, "idle") /\ Answer(s)
    PROVE  CallsInv'
<1>1. TypeOK /\ request.kind = "signing" /\ gets[w] = 0 /\ Cardinality(Flying(w)) = 0
    BY DEF CallsInv, LooksWithinRounds, CallsWithinRounds, WorksForRequest
<1>2. /\ M \in Nat /\ M >= 1 /\ task[w].round \in 1..M /\ SignerLook = 1
    BY <1>1, Numbers DEF SignerLook
<1>3. /\ gets' \in [Wallets -> Nat] /\ gets'[w] <= 1 /\ gets'[w] \in Nat
      /\ \A v \in Wallets \ {w} : gets'[v] = gets[v]
    BY <1>1, LooksTypes
<1>4. /\ task' \in [Wallets -> Task] /\ \A v \in Wallets \ {w} : task'[v] = task[v]
      /\ request'.kind = request.kind /\ request'.wallet = request.wallet
      /\ request' \in [kind : Kinds \cup {"none"}, wallet : Wallets \cup {NoWallet}, status : Nat]
      /\ \/ /\ task'[w].at \in {"wallet", "bare"} /\ task'[w].round = 1 /\ task'[w].attempt = 1
            /\ request' = request
         \/ task'[w].at = "idle"
    <2>1. CASE task' = [task EXCEPT ![w] = Begun(w)] /\ UNCHANGED request
        BY <1>1, <2>1, BegunTypes DEF TypeOK
    <2>2. CASE Goto(w, "idle") /\ Answer(s)
        <3>1. task' \in [Wallets -> Task] /\ \A v \in Wallets \ {w} : task'[v] = task[v]
            BY <1>1, <2>2, GotoTypes
        <3>2. task'[w] = [task[w] EXCEPT !.at = "idle"]
            BY <1>1, <2>2, GotoTypes
        <3>3. task'[w].at = "idle"
            BY <1>1, <3>2 DEF TypeOK, Task
        <3>4. request' = [request EXCEPT !.status = s]
            BY <2>2 DEF Answer
        <3> QED
            BY <1>1, <3>1, <3>3, <3>4 DEF TypeOK
    <2> QED
        BY <2>1, <2>2
<1>5. TypeOK'
    BY <1>1, <1>3, <1>4 DEF TypeOK
<1>6. Apart(w) /\ IsFiniteSet(flying') /\ Flying(w)' = Flying(w)
    BY <1>3, <1>4, SameCalls
<1>7. LooksWithinRounds(w)'
    <2>1. M * M \in Nat /\ (1 - 1) * M = 0
        BY <1>2
    <2>2. gets'[w] <= M * M + 1
        BY <1>3, <2>1
    <2>3. SignerLook' = 1
        BY <1>1, <1>4 DEF SignerLook
    <2>4. task'[w].at = "wallet" =>
             gets'[w] <= (task'[w].round - 1) * M + (task'[w].attempt - 1) + 1
        BY <1>3, <1>4, <2>1
    <2> QED
        BY <1>4, <2>2, <2>3, <2>4 DEF LooksWithinRounds, M
<1>8. CallsWithinRounds(w)'
    BY <1>1, <1>2, <1>4, <1>6 DEF CallsWithinRounds, M
<1>9. request.kind = "list" \/ request.wallet = w
    BY AtWork
<1>10. WorksForRequest(w)'
    BY <1>1, <1>4, <1>9 DEF WorksForRequest
<1> QED
    BY <1>1, <1>5, <1>6, <1>7, <1>8, <1>10, WalletStep

LEMMA SignerReturnsInv ==
    ASSUME CallsInv, NEW w \in Wallets, NEW signable \in BOOLEAN, SignerReturns(w, signable)
    PROVE  CallsInv'
<1>1. /\ task[w].at = "signer" /\ request.status = 0 /\ Looks(w) /\ UNCHANGED <<flying, sends>>
      /\ \/ task' = [task EXCEPT ![w] = Begun(w)] /\ UNCHANGED request
         \/ Goto(w, "idle") /\ Answer(400)
    BY DEF SignerReturns, At
<1> QED
    BY <1>1, SignerInv

LEMMA SignerFailsInv ==
    ASSUME CallsInv, NEW w \in Wallets, NEW e \in ClientErrors, SignerFails(w, e)
    PROVE  CallsInv'
<1>1. /\ task[w].at = "signer" /\ request.status = 0 /\ Looks(w) /\ UNCHANGED <<flying, sends>>
      /\ Goto(w, "idle") /\ Answer(StatusOf(e))
    BY DEF SignerFails, At
<1>2. StatusOf(e) \in Nat \ {0}
    BY ErrorsHaveStatus
<1> QED
    BY <1>1, <1>2, SignerInv

-----------------------------------------------------------------------------
(* mintAaveTestUsdc *)

\* What holds of the wallet the faucet works on.
LEMMA FaucetWork ==
    ASSUME CallsInv, NEW w \in Wallets, task[w].at \in {"signable", "send"}
    PROVE  /\ TypeOK /\ request.kind = "faucet" /\ request.wallet = w
           /\ sends <= task[w].round - 1
           /\ gets[w] <= task[w].round
           /\ Cardinality(Flying(w)) <= M + 1
           /\ SignerLook = 0
<1>1. M \in Nat /\ task[w].round \in 1..M /\ gets[w] \in Nat
    BY Numbers
<1>2. request.kind = "faucet" /\ sends <= task[w].round - 1
    BY DEF CallsInv, WorksForRequest
<1>3. request.wallet = w
    BY <1>2 DEF CallsInv, WorksForRequest
<1>4. gets[w] <= task[w].round - 1 \/ gets[w] <= task[w].round
    BY DEF CallsInv, LooksWithinRounds
<1>5. gets[w] <= task[w].round
    BY <1>1, <1>4
<1> QED
    BY <1>2, <1>3, <1>5 DEF CallsInv, CallsWithinRounds, SignerLook

\* A step of the faucet, from the looks and sends it leaves.
LEMMA FaucetStep ==
    ASSUME CallsInv, NEW w \in Wallets, task[w].at \in {"signable", "send"},
           request.status = 0, UNCHANGED flying,
           task' \in [Wallets -> Task], gets' \in [Wallets -> Nat], sends' \in Nat,
           \A v \in Wallets \ {w} : task'[v] = task[v] /\ gets'[v] = gets[v],
           request'.kind = request.kind, request'.wallet = request.wallet,
           request' \in [kind : Kinds \cup {"none"}, wallet : Wallets \cup {NoWallet}, status : Nat],
           gets'[w] <= M, sends' <= M,
           \/ /\ task'[w].at = "signable" /\ request'.status = 0
              /\ gets'[w] <= task'[w].round - 1 /\ sends' <= task'[w].round - 1
           \/ /\ task'[w].at = "send" /\ request'.status = 0
              /\ gets'[w] <= task'[w].round /\ sends' <= task'[w].round - 1
           \/ task'[w].at = "idle"
    PROVE  CallsInv'
<1>1. /\ TypeOK /\ request.kind = "faucet" /\ request.wallet = w
      /\ Cardinality(Flying(w)) <= M + 1
    BY FaucetWork
<1>2. TypeOK'
    BY <1>1 DEF TypeOK
<1>3. Apart(w) /\ IsFiniteSet(flying') /\ Flying(w)' = Flying(w)
    BY SameCalls
<1>4. LooksWithinRounds(w)'
    <2>1. M \in Nat /\ M * M \in Nat /\ M <= M * M
        BY Attempts, Budget
    <2>2. gets'[w] <= M * M
        BY <2>1
    <2>3. SignerLook' = 0
        BY <1>1 DEF SignerLook
    <2> QED
        BY <2>1, <2>2, <2>3 DEF LooksWithinRounds, M
<1>5. CallsWithinRounds(w)'
    BY <1>1, <1>3 DEF CallsWithinRounds, M
<1>6. WorksForRequest(w)'
    BY <1>1 DEF WorksForRequest
<1> QED
    BY <1>1, <1>2, <1>3, <1>4, <1>5, <1>6, WalletStep

\* The operation throws after it has looked at the signer, or sent, once more.
LEMMA SendThrowsInv ==
    ASSUME CallsInv, NEW w \in Wallets, task[w].at \in {"signable", "send"},
           request.status = 0, UNCHANGED flying,
           NEW e, StatusOf(MapPrivyError(e)) \in Nat \ {0}, SendThrows(w, e),
           gets' \in [Wallets -> Nat], \A v \in Wallets \ {w} : gets'[v] = gets[v],
           gets'[w] <= task[w].round,
           sends' \in Nat, sends' <= task[w].round
    PROVE  CallsInv'
<1>1. TypeOK
    BY DEF CallsInv
<1>2. M \in Nat /\ task[w].round \in 1..M
    BY Numbers
<1>3. /\ task' \in [Wallets -> Task] /\ \A v \in Wallets \ {w} : task'[v] = task[v]
      /\ \/ /\ task[w].round < M /\ request' = request
            /\ task'[w].at = "signable" /\ task'[w].round = task[w].round + 1
         \/ /\ task'[w].at = "idle"
            /\ request' = [request EXCEPT !.status = StatusOf(MapPrivyError(e))]
    BY <1>1, SendThrowsTypes
<1>4. /\ request'.kind = request.kind /\ request'.wallet = request.wallet
      /\ request' \in [kind : Kinds \cup {"none"}, wallet : Wallets \cup {NoWallet}, status : Nat]
    BY <1>1, <1>3 DEF TypeOK
<1>5. gets'[w] <= M /\ sends' <= M /\ gets'[w] \in Nat
    BY <1>2
<1>6. \/ /\ task'[w].at = "signable" /\ request'.status = 0
         /\ gets'[w] <= task'[w].round - 1 /\ sends' <= task'[w].round - 1
      \/ task'[w].at = "idle"
    BY <1>2, <1>3
<1> QED
    BY <1>3, <1>4, <1>5, <1>6, FaucetStep

LEMMA SignableInv ==
    ASSUME CallsInv, NEW w \in Wallets, task[w].at = "signable", Looks(w)
    PROVE  /\ gets' \in [Wallets -> Nat] /\ \A v \in Wallets \ {w} : gets'[v] = gets[v]
           /\ gets'[w] <= task[w].round /\ gets'[w] <= M
           /\ sends \in Nat /\ sends <= task[w].round - 1 /\ sends <= task[w].round /\ sends <= M
<1>1. /\ M \in Nat /\ task[w].round \in 1..M /\ gets[w] \in Nat /\ sends \in Nat
    BY Numbers
<1>2. gets[w] <= task[w].round - 1 /\ sends <= task[w].round - 1
    BY FaucetWork DEF CallsInv, LooksWithinRounds
<1>3. /\ gets' \in [Wallets -> Nat] /\ gets'[w] \in Nat /\ gets'[w] <= gets[w] + 1
      /\ \A v \in Wallets \ {w} : gets'[v] = gets[v]
    BY LooksTypes DEF CallsInv
<1> QED
    BY <1>1, <1>2, <1>3

LEMMA SignableReturnsInv ==
    ASSUME CallsInv, NEW w \in Wallets, NEW signable \in BOOLEAN, SignableReturns(w, signable)
    PROVE  CallsInv'
<1>1. /\ task[w].at = "signable" /\ request.status = 0 /\ Looks(w) /\ UNCHANGED <<flying, sends>>
      /\ (Goto(w, "send") /\ UNCHANGED request) \/ SendThrows(w, Http(400))
    BY DEF SignableReturns, At
<1>2. /\ gets' \in [Wallets -> Nat] /\ \A v \in Wallets \ {w} : gets'[v] = gets[v]
      /\ gets'[w] <= task[w].round /\ gets'[w] <= M
      /\ sends \in Nat /\ sends <= task[w].round - 1 /\ sends <= task[w].round /\ sends <= M
    BY <1>1, SignableInv
<1>3. CASE Goto(w, "send") /\ UNCHANGED request
    <2>1. TypeOK /\ task[w] \in Task
        BY DEF CallsInv, TypeOK
    <2>2. /\ task' \in [Wallets -> Task] /\ \A v \in Wallets \ {w} : task'[v] = task[v]
          /\ task'[w] = [task[w] EXCEPT !.at = "send"]
        BY <1>3, <2>1, GotoTypes
    <2>3. task'[w].at = "send" /\ task'[w].round = task[w].round
        BY <2>1, <2>2 DEF Task
    <2>4. request' \in [kind : Kinds \cup {"none"}, wallet : Wallets \cup {NoWallet}, status : Nat]
        BY <1>3, <2>1 DEF TypeOK
    <2> QED
        BY <1>1, <1>2, <1>3, <2>2, <2>3, <2>4, FaucetStep
<1>4. CASE SendThrows(w, Http(400))
    <2>1. StatusOf(MapPrivyError(Http(400))) \in Nat \ {0}
        BY DEF StatusOf, MapPrivyError, Http, Err
    <2> QED
        BY <1>1, <1>2, <1>4, <2>1, SendThrowsInv
<1> QED
    BY <1>1, <1>3, <1>4

LEMMA SignableFailsInv ==
    ASSUME CallsInv, NEW w \in Wallets, NEW e \in ClientErrors, SignableFails(w, e)
    PROVE  CallsInv'
<1>1. /\ task[w].at = "signable" /\ request.status = 0 /\ Looks(w) /\ UNCHANGED <<flying, sends>>
      /\ SendThrows(w, e)
    BY DEF SignableFails, At
<1>2. StatusOf(MapPrivyError(e)) \in Nat \ {0}
    BY ErrorsHaveStatus
<1>3. /\ gets' \in [Wallets -> Nat] /\ \A v \in Wallets \ {w} : gets'[v] = gets[v]
      /\ gets'[w] <= task[w].round /\ sends \in Nat /\ sends <= task[w].round
    BY <1>1, SignableInv
<1> QED
    BY <1>1, <1>2, <1>3, SendThrowsInv

LEMMA SendInv ==
    ASSUME CallsInv, NEW w \in Wallets, task[w].at = "send", Sends, UNCHANGED gets
    PROVE  /\ gets' \in [Wallets -> Nat] /\ \A v \in Wallets \ {w} : gets'[v] = gets[v]
           /\ gets'[w] <= task[w].round /\ gets'[w] <= M
           /\ sends' \in Nat /\ sends' <= task[w].round /\ sends' <= M
<1>1. /\ M \in Nat /\ task[w].round \in 1..M /\ gets[w] \in Nat /\ sends \in Nat
    BY Numbers
<1>2. TypeOK /\ gets[w] <= task[w].round /\ sends <= task[w].round - 1
    BY FaucetWork
<1>3. sends' \in Nat /\ sends' <= sends + 1
    BY <1>2, SendsTypes
<1>4. gets' \in [Wallets -> Nat]
    BY <1>2 DEF TypeOK
<1> QED
    BY <1>1, <1>2, <1>3, <1>4

LEMMA SendReturnsInv ==
    ASSUME CallsInv, NEW w \in Wallets, SendReturns(w)
    PROVE  CallsInv'
<1>1. /\ task[w].at = "send" /\ request.status = 0 /\ Sends /\ UNCHANGED <<flying, gets>>
      /\ Goto(w, "idle") /\ request' = [request EXCEPT !.status = 201]
    BY DEF SendReturns, At, Answer
<1>2. /\ gets' \in [Wallets -> Nat] /\ \A v \in Wallets \ {w} : gets'[v] = gets[v]
      /\ gets'[w] <= M /\ sends' \in Nat /\ sends' <= M
    BY <1>1, SendInv
<1>3. TypeOK /\ task[w] \in Task
    BY DEF CallsInv, TypeOK
<1>4. /\ task' \in [Wallets -> Task] /\ \A v \in Wallets \ {w} : task'[v] = task[v]
      /\ task'[w] = [task[w] EXCEPT !.at = "idle"]
    BY <1>1, <1>3, GotoTypes
<1>5. task'[w].at = "idle"
    BY <1>3, <1>4 DEF Task
<1>6. /\ request'.kind = request.kind /\ request'.wallet = request.wallet
      /\ request' \in [kind : Kinds \cup {"none"}, wallet : Wallets \cup {NoWallet}, status : Nat]
    BY <1>1, <1>3 DEF TypeOK
<1> QED
    BY <1>1, <1>2, <1>4, <1>5, <1>6, FaucetStep

LEMMA SendFailsInv ==
    ASSUME CallsInv, NEW w \in Wallets, NEW e \in ClientErrors, SendFails(w, e)
    PROVE  CallsInv'
<1>1. /\ task[w].at = "send" /\ request.status = 0 /\ Sends /\ UNCHANGED <<flying, gets>>
      /\ SendThrows(w, e)
    BY DEF SendFails, At
<1>2. StatusOf(MapPrivyError(e)) \in Nat \ {0}
    BY ErrorsHaveStatus
<1>3. /\ gets' \in [Wallets -> Nat] /\ \A v \in Wallets \ {w} : gets'[v] = gets[v]
      /\ gets'[w] <= task[w].round /\ sends' \in Nat /\ sends' <= task[w].round
    BY <1>1, SendInv
<1> QED
    BY <1>1, <1>2, <1>3, SendThrowsInv

-----------------------------------------------------------------------------
(* A request begins with no call of an earlier one on its way. *)

LEMMA AskInv ==
    ASSUME CallsInv, NEW kind \in Kinds, NEW w \in Wallets \cup {NoWallet},
           NEW faucet \in BOOLEAN, NEW signing \in BOOLEAN, Ask(kind, w, faucet, signing)
    PROVE  CallsInv'
<1>1. /\ flying = {} /\ flying' = {} /\ sends' = 0 /\ gets' = [v \in Wallets |-> 0]
      /\ kind = "list" <=> w = NoWallet
      /\ request' = [kind |-> kind, wallet |-> w, status |-> Refusal(kind, w, faucet, signing)]
    BY DEF Ask
<1>2. request'.kind = kind /\ request'.wallet = w
      /\ request' \in [kind : Kinds \cup {"none"}, wallet : Wallets \cup {NoWallet}, status : Nat]
    BY <1>1 DEF Refusal
<1>3. M \in Nat /\ M >= 1 /\ M * M \in Nat /\ IdleTask \in Task
    BY Attempts DEF IdleTask, Task, M
<1>4. ASSUME NEW v \in Wallets
      PROVE  /\ Started(kind, v) \in Task
             /\ Started(kind, v).round = 1 /\ Started(kind, v).attempt = 1
             /\ Started(kind, v).at \in {"wallet", "bare", "signer", "signable"}
             /\ Started(kind, v).at = "signer" => kind = "signing"
             /\ Started(kind, v).at = "signable" => kind = "faucet"
    <2>1. CASE kind \in {"list", "one"}
        BY <2>1, BegunTypes DEF Started
    <2>2. CASE kind = "signing"
        BY <1>3, <2>2 DEF Started, IdleTask, Task
    <2>3. CASE kind = "faucet"
        BY <1>3, <2>3 DEF Started, IdleTask, Task
    <2> QED
        BY <2>1, <2>2, <2>3 DEF Kinds
<1>5. task' \in [Wallets -> Task]
    BY <1>3, <1>4 DEF Ask
<1>6. ASSUME NEW v \in Wallets
      PROVE  \/ /\ task'[v] = Started(kind, v) /\ request'.status = 0
                /\ kind # "list" => v = w
             \/ task'[v] = IdleTask
    BY DEF Ask
<1>7. ASSUME NEW v \in Wallets
      PROVE  /\ task'[v].round = 1 /\ task'[v].attempt = 1
             /\ task'[v].at \in {"idle", "wallet", "bare", "signer", "signable"}
             /\ task'[v].at = "signer" => kind = "signing"
             /\ task'[v].at = "signable" => kind = "faucet"
             /\ task'[v].at # "idle" => request'.status = 0 /\ (kind # "list" => v = w)
    <2>1. CASE task'[v] = Started(kind, v) /\ request'.status = 0 /\ (kind # "list" => v = w)
        BY <1>4, <2>1
    <2>2. CASE task'[v] = IdleTask
        BY <2>2 DEF IdleTask
    <2> QED
        BY <1>6, <2>1, <2>2
<1>8. TypeOK'
    BY <1>1, <1>2, <1>5 DEF TypeOK
<1>9. IsFiniteSet(flying') /\ \A v \in Wallets : Cardinality(Flying(v)') = 0
    BY <1>1, FS_EmptySet DEF Flying
<1>10. ASSUME NEW v \in Wallets PROVE LooksWithinRounds(v)'
    <2>1. SignerLook' \in {0, 1} /\ gets'[v] = 0 /\ (1 - 1) * M = 0
        BY <1>1, <1>3 DEF SignerLook
    <2>2. task'[v].at = "wallet" =>
             0 <= (task'[v].round - 1) * M + (task'[v].attempt - 1) + SignerLook'
        BY <1>7, <2>1
    <2>3. 0 <= M * M + SignerLook'
        <3>1. \A n \in Nat, s \in {0, 1} : 0 <= n + s
            OBVIOUS
        <3> QED
            BY <1>3, <2>1, <3>1, Zenon
    <2>4. task'[v].at = "signable" => 0 <= task'[v].round - 1
        BY <1>7
    <2> QED
        BY <1>7, <2>1, <2>2, <2>3, <2>4 DEF LooksWithinRounds, M
<1>11. ASSUME NEW v \in Wallets PROVE CallsWithinRounds(v)'
    BY <1>3, <1>7, <1>9 DEF CallsWithinRounds, M
<1>12. ASSUME NEW v \in Wallets PROVE WorksForRequest(v)'
    BY <1>1, <1>2, <1>7 DEF WorksForRequest
<1> QED
    BY <1>1, <1>3, <1>8, <1>9, <1>10, <1>11, <1>12 DEF CallsInv, M

-----------------------------------------------------------------------------
(* Theorems *)

LEMMA StutterInv ==
    ASSUME CallsInv, UNCHANGED vars
    PROVE  CallsInv'
BY DEF CallsInv, TypeOK, LooksWithinRounds, CallsWithinRounds, WorksForRequest, SignerLook,
       Flying, vars

LEMMA StepInv == CallsInv /\ [Next]_vars => CallsInv'
<1> SUFFICES ASSUME CallsInv, [Next]_vars PROVE CallsInv'
    OBVIOUS
<1>1. CASE UNCHANGED vars
    BY <1>1, StutterInv
<1>2. ASSUME NEW kind \in Kinds, NEW w \in Wallets \cup {NoWallet}, NEW faucet \in BOOLEAN,
             NEW signing \in BOOLEAN, Ask(kind, w, faucet, signing)
      PROVE  CallsInv'
    BY <1>2, AskInv
<1>3. ASSUME NEW w \in Wallets, WalletEnds(w) PROVE CallsInv'
    <2>1. CASE GetReturns(w)
        BY <2>1, GetReturnsInv
    <2>2. CASE SendReturns(w)
        BY <2>2, SendReturnsInv
    <2>3. ASSUME NEW signable \in BOOLEAN,
                 SignerReturns(w, signable) \/ SignableReturns(w, signable)
          PROVE  CallsInv'
        BY <2>3, SignerReturnsInv, SignableReturnsInv
    <2>4. ASSUME NEW e \in ClientErrors,
                 GetFails(w, e) \/ SignerFails(w, e) \/ SignableFails(w, e) \/ SendFails(w, e)
          PROVE  CallsInv'
        BY <2>4, GetFailsInv, SignerFailsInv, SignableFailsInv, SendFailsInv
    <2> QED
        BY <1>3, <2>1, <2>2, <2>3, <2>4 DEF WalletEnds
<1>4. ASSUME NEW call \in Call, CallEnds(call) PROVE CallsInv'
    <2>1. call \in flying
        BY <1>4 DEF CallEnds, BalanceReturns, AbandonedEnds, BalanceFails
    <2>2. CASE BalanceReturns(call)
        BY <2>1, <2>2, BalanceReturnsInv
    <2>3. CASE AbandonedEnds(call)
        BY <2>1, <2>3, AbandonedEndsInv
    <2>4. ASSUME NEW e \in ClientErrors, BalanceFails(call, e) PROVE CallsInv'
        BY <2>1, <2>4, BalanceFailsInv
    <2> QED
        BY <1>4, <2>2, <2>3, <2>4 DEF CallEnds
<1>5. CASE Respond
    BY <1>5, RespondInv
<1> QED
    BY <1>1, <1>2, <1>3, <1>4, <1>5 DEF Next

\* However the errors of the provider fall, what a request does to each wallet
\* stays within the rounds and attempts it has begun.
THEOREM CallsInvariance == Spec => []CallsInv
<1> QED
    BY InitInv, StepInv, PTL DEF Spec

LEMMA InvImpliesBounded == CallsInv => CallsAreBounded
<1> SUFFICES ASSUME CallsInv PROVE CallsAreBounded
    OBVIOUS
<1>1. ASSUME NEW w \in Wallets
      PROVE  /\ gets[w] <= MaxAttempts * MaxAttempts + (IF request.kind = "signing" THEN 1 ELSE 0)
             /\ Cardinality({call \in flying : call.wallet = w}) <= MaxAttempts + 1
             /\ request.status # 0 => task[w].at \in {"idle", "shown", "bare"}
    BY DEF CallsInv, LooksWithinRounds, CallsWithinRounds, WorksForRequest, SignerLook, Flying, M
<1> QED
    BY <1>1 DEF CallsInv, CallsAreBounded, M

\* One request looks up a wallet at most MaxAttempts times in each of
\* MaxAttempts rounds, sends at most MaxAttempts transactions and leaves few
\* calls abandoned; when it is answered nothing of it is at work.
THEOREM CallsBounded == Spec => []CallsAreBounded
<1> QED
    BY CallsInvariance, InvImpliesBounded, PTL

-----------------------------------------------------------------------------
(* Session: the inductive invariant *)

AnyCard == [owner : Users \cup {None}, id : Nat, primary : BOOLEAN]

Request ==
  [number : Nat, token : Users \cup {None}, answer : {None} \cup Seq(AnyCard), alone : BOOLEAN]

GivenUp == [number : Nat, token : Users, cleared : BOOLEAN]

TabTypes ==
  /\ token \in Users \cup {None} /\ user \in Users \cup {None} /\ abandoned \subseteq GivenUp
  /\ signIns \subseteq Users
  /\ loading \in BOOLEAN /\ effectDue \in BOOLEAN /\ creating \in BOOLEAN
  /\ shown \in Seq(AnyCard)
  /\ creation \in Creation \cup {None}
  /\ lists \subseteq Request
  /\ owned \in [Users -> Nat] /\ primary \in [Users -> SUBSET Nat]
  /\ asked \in [list : Nat, signIn : Nat]
  /\ known \in {"nothing", "wallets", "everything"}
  /\ createdAt \in Nat /\ faults \in Nat

OneSession ==
  /\ loading => token # None /\ user = None /\ signIns = {}
  /\ ~loading => user = token

\* A creation under way has one pending card at most, and no creation has none.
PendingCard ==
  /\ creating <=> creation # None
  /\ \A i, j \in DOMAIN shown : shown[i].id = 0 /\ shown[j].id = 0 => i = j /\ creating

\* An answer holds cards of the user whose token it was asked for with, ...
AnswerIsOwn(r) ==
  r.answer # None =>
    /\ r.token # None
    /\ \A i \in DOMAIN r.answer : r.answer[i].owner = r.token /\ r.answer[i].id # 0

\* ... and is the server's list as long as no creation has come between.
AnswerIsFresh(r) ==
  r.answer # None /\ ~creating /\ r.number > createdAt => r.answer = WalletsOf(r.token)

Answers == \A r \in lists : r.number <= asked.list /\ AnswerIsOwn(r) /\ AnswerIsFresh(r)

\* The wallets of u without the one whose creation has not returned.
Counted(u) ==
  IF creation # None /\ creation.wallet # 0 THEN 1..(owned[u] - 1) ELSE 1..owned[u]

\* What the tab knows of the server, also while a creation is under way.
Knowledge ==
  known # "nothing" =>
    /\ user # None
    /\ creation # None => creation.token = user /\ creation.wallet \in {0, owned[user]}
    /\ \A i \in DOMAIN shown :
         shown[i].id # 0 => shown[i].owner = user /\ shown[i].id \in Counted(user)
    /\ \A n \in Counted(user) : \E i \in DOMAIN shown : shown[i].id = n
    /\ known = "everything" /\ ~creating => shown = WalletsOf(user)

TabInv == TabTypes /\ OneSession /\ PendingCard /\ Answers /\ Knowledge

-----------------------------------------------------------------------------
(* The lists *)

\* The places of the wallets on the list are 1, 2, ..., owned[u].
LEMMA EachHasItsPlace ==
  ASSUME NEW u \in Users, owned[u] \in Nat
  PROVE  /\ \A i \in 1..owned[u] : Place(u, i) \in 1..owned[u]
         /\ \A i, j \in 1..owned[u] : Place(u, i) = Place(u, j) => i = j
         /\ \A k \in 1..owned[u] : \E i \in 1..owned[u] : Place(u, i) = k
  <1> DEFINE n == owned[u]
             E(i) == {j \in 1..n : Before(u, j, i)}
  <1>0. n \in Nat /\ IsFiniteSet(1..n) /\ Cardinality(1..n) = n
    BY FS_Interval
  <1>1. ASSUME NEW i \in 1..n
        PROVE  /\ IsFiniteSet(E(i)) /\ Cardinality(E(i)) \in Nat
               /\ IsFiniteSet(E(i) \cup {i}) /\ Cardinality(E(i) \cup {i}) = Place(u, i)
               /\ Place(u, i) \in 1..n
    <2>1. E(i) \in SUBSET (1..n) /\ i \notin E(i)
      BY DEF Before
    <2>2. IsFiniteSet(E(i)) /\ Cardinality(E(i)) \in Nat
      BY <1>0, <2>1, FS_Subset, FS_CardinalityType
    <2>3. IsFiniteSet(E(i) \cup {i}) /\ Cardinality(E(i) \cup {i}) = Cardinality(E(i)) + 1
      BY <2>1, <2>2, FS_AddElement
    <2>4. E(i) \cup {i} \in SUBSET (1..n)
      BY <2>1
    <2>5. Cardinality(E(i) \cup {i}) <= n
      BY <1>0, <2>4, FS_Subset
    <2>6. Place(u, i) = Cardinality(E(i)) + 1
      BY DEF Place
    <2> QED
      BY <1>0, <2>2, <2>3, <2>5, <2>6
  <1>2. ASSUME NEW i \in 1..n, NEW j \in 1..n, Before(u, i, j) PROVE Place(u, i) < Place(u, j)
    <2>1. E(i) \cup {i} \in SUBSET E(j)
      BY <1>2 DEF Before
    <2>2. Cardinality(E(i) \cup {i}) <= Cardinality(E(j))
      BY <1>1, <2>1, FS_Subset
    <2>3. Place(u, j) = Cardinality(E(j)) + 1
      BY DEF Place
    <2>4. Place(u, i) <= Cardinality(E(j)) /\ Cardinality(E(j)) \in Nat
      BY <1>1, <2>2
    <2>5. Place(u, i) \in 1..n
      BY <1>1
    <2> HIDE DEF n, E
    <2> QED
      BY <1>0, <2>3, <2>4, <2>5
  <1>3. ASSUME NEW i \in 1..n, NEW j \in 1..n, Place(u, i) = Place(u, j) PROVE i = j
    <2>1. i \in Nat /\ j \in Nat /\ (i = j \/ i < j \/ j < i)
      BY <1>0
    <2>2. i = j \/ Before(u, i, j) \/ Before(u, j, i)
      <3>1. CASE i \in primary[u] <=> j \in primary[u]
        BY <2>1, <3>1 DEF Before
      <3>2. CASE ~(i \in primary[u] <=> j \in primary[u])
        BY <3>2, Zenon DEF Before
      <3> QED
        BY <3>1, <3>2
    <2>3. Place(u, i) \in 1..n /\ Place(u, j) \in 1..n
      BY <1>1
    <2>4. ~(Place(u, i) < Place(u, j)) /\ ~(Place(u, j) < Place(u, i))
      <3> HIDE DEF n
      <3> QED
        BY <1>0, <1>3, <2>3
    <2> QED
      BY <1>2, <2>2, <2>4
  <1> DEFINE f == [i \in 1..n |-> Place(u, i)]
  <1>4. f \in Injection(1..n, 1..n)
    BY <1>1, <1>3 DEF Injection, IsInjective
  <1>5. f \in Surjection(1..n, 1..n)
    BY <1>0, <1>4, FS_Injection
  <1>6. ASSUME NEW k \in 1..n PROVE \E i \in 1..n : Place(u, i) = k
    BY <1>5 DEF Surjection
  <1> QED
    BY <1>1, <1>3, <1>6

\* The server lists each wallet of the user once.
LEMMA ServerLists ==
  ASSUME NEW u \in Users, owned[u] \in Nat
  PROVE  /\ WalletsOf(u) \in Seq(AnyCard) /\ DOMAIN WalletsOf(u) = 1..owned[u]
         /\ \A i \in DOMAIN WalletsOf(u) :
              WalletsOf(u)[i].owner = u /\ WalletsOf(u)[i].id \in 1..owned[u]
         /\ \A n \in 1..owned[u] : \E i \in DOMAIN WalletsOf(u) : WalletsOf(u)[i].id = n
  <1>1. \A k \in 1..owned[u] : Ranked(u, k) \in 1..owned[u] /\ Place(u, Ranked(u, k)) = k
    BY EachHasItsPlace DEF Ranked
  <1>2. \A n \in 1..owned[u] : \E k \in 1..owned[u] : Ranked(u, k) = n
    <2> SUFFICES ASSUME NEW n \in 1..owned[u] PROVE \E k \in 1..owned[u] : Ranked(u, k) = n
      OBVIOUS
    <2>1. Place(u, n) \in 1..owned[u]
      BY EachHasItsPlace
    <2>2. Ranked(u, Place(u, n)) = n
      BY <1>1, <2>1, EachHasItsPlace
    <2> QED
      BY <2>1, <2>2
  <1>3. /\ DOMAIN WalletsOf(u) = 1..owned[u]
        /\ \A i \in 1..owned[u] : WalletsOf(u)[i] = Card(u, Ranked(u, i), Ranked(u, i) \in primary[u])
    BY DEF WalletsOf
  <1>4. \A i \in 1..owned[u] : /\ WalletsOf(u)[i] \in AnyCard
                               /\ WalletsOf(u)[i].owner = u /\ WalletsOf(u)[i].id = Ranked(u, i)
    <2> SUFFICES ASSUME NEW i \in 1..owned[u]
                 PROVE  /\ WalletsOf(u)[i] \in AnyCard
                        /\ WalletsOf(u)[i].owner = u /\ WalletsOf(u)[i].id = Ranked(u, i)
      OBVIOUS
    <2>1. WalletsOf(u)[i] =
            [owner |-> u, id |-> Ranked(u, i), primary |-> (Ranked(u, i) \in primary[u])]
      BY <1>3 DEF Card
    <2>2. Ranked(u, i) \in Nat /\ (Ranked(u, i) \in primary[u]) \in BOOLEAN
      BY <1>1
    <2> QED
      BY <2>1, <2>2 DEF AnyCard
  <1>5. WalletsOf(u) \in Seq(AnyCard)
    <2>1. WalletsOf(u) = [i \in 1..owned[u] |-> Card(u, Ranked(u, i), Ranked(u, i) \in primary[u])]
      BY DEF WalletsOf
    <2>2. \A i \in 1..owned[u] : Card(u, Ranked(u, i), Ranked(u, i) \in primary[u]) \in AnyCard
      BY <1>3, <1>4
    <2> QED
      BY <2>1, <2>2
  <1>6. \A i \in DOMAIN WalletsOf(u) :
          WalletsOf(u)[i].owner = u /\ WalletsOf(u)[i].id \in 1..owned[u]
    BY <1>1, <1>3, <1>4
  <1>7. \A n \in 1..owned[u] : \E i \in DOMAIN WalletsOf(u) : WalletsOf(u)[i].id = n
    <2> SUFFICES ASSUME NEW n \in 1..owned[u]
                 PROVE  \E i \in DOMAIN WalletsOf(u) : WalletsOf(u)[i].id = n
      OBVIOUS
    <2>1. PICK i \in 1..owned[u] : Ranked(u, i) = n
      BY <1>2
    <2> QED
      BY <1>3, <1>4, <2>1
  <1> QED
    BY <1>3, <1>5, <1>6, <1>7

\* The pending card becomes the wallet ...
LEMMA CardIsReplaced ==
  ASSUME shown \in Seq(AnyCard), NEW c \in AnyCard
  PROVE  /\ WithCreated(c) \in Seq(AnyCard) /\ DOMAIN WithCreated(c) = DOMAIN shown
         /\ \A i \in DOMAIN shown :
              WithCreated(c)[i] = IF shown[i].id = 0 THEN c ELSE shown[i]
  <1>1. DOMAIN shown = 1..Len(shown) /\ Len(shown) \in Nat
    OBVIOUS
  <1>2. \A i \in 1..Len(shown) : (IF shown[i].id = 0 THEN c ELSE shown[i]) \in AnyCard
    OBVIOUS
  <1>3. WithCreated(c) = [i \in 1..Len(shown) |-> IF shown[i].id = 0 THEN c ELSE shown[i]]
    BY <1>1 DEF WithCreated
  <1> QED
    BY <1>1, <1>2, <1>3

LEMMA BothSequences ==
  ASSUME NEW S, NEW a \in Seq(S), NEW b \in Seq(S)
  PROVE  /\ a \o b \in Seq(S) /\ Len(a \o b) = Len(a) + Len(b)
         /\ \A i \in 1..Len(a) : (a \o b)[i] = a[i]
         /\ \A i \in 1..Len(b) : (a \o b)[Len(a) + i] = b[i]
OBVIOUS

\* ... or goes, and the others stay.
LEMMA CardIsRemoved ==
  ASSUME shown \in Seq(AnyCard),
         \A i, j \in DOMAIN shown : shown[i].id = 0 /\ shown[j].id = 0 => i = j,
         NEW t, t = RemoveFirstMatch(shown, LAMBDA c : c.id = 0)
  PROVE  /\ t \in Seq(AnyCard)
         /\ \A i \in DOMAIN t : t[i].id # 0 /\ \E j \in DOMAIN shown : t[i] = shown[j]
  <1>0. DOMAIN shown = 1..Len(shown) /\ Len(shown) \in Nat
    OBVIOUS
  <1>1. CASE \A i \in 1..Len(shown) : shown[i].id # 0
    <2>1. t = shown
      BY <1>1 DEF RemoveFirstMatch
    <2> QED
      BY <1>0, <1>1, <2>1
  <1>2. CASE \E i \in 1..Len(shown) : shown[i].id = 0
    <2>1. PICK k \in 1..Len(shown) : shown[k].id = 0
      BY <1>2
    <2>2. {i \in 1..Len(shown) : shown[i].id = 0} = {k}
      BY <1>0, <2>1
    <2>3. Min({k}) = k
      BY DEF Min
    <2>4. SelectInSeq(shown, LAMBDA c : c.id = 0) = k
      BY <2>2, <2>3 DEF SelectInSeq
    <2>5. t = RemoveAt(shown, k)
      BY <1>2, <2>4 DEF RemoveFirstMatch
    <2> DEFINE a == SubSeq(shown, 1, k - 1)
               b == SubSeq(shown, k + 1, Len(shown))
    <2>6. t = a \o b
      BY <2>5 DEF RemoveAt
    <2>7. /\ a \in Seq(AnyCard) /\ Len(a) = k - 1
          /\ \A i \in 1..(k - 1) : a[i] = shown[i]
      BY <1>0
    <2>8. /\ b \in Seq(AnyCard) /\ Len(b) = Len(shown) - k
          /\ \A i \in 1..(Len(shown) - k) : b[i] = shown[k + i]
      BY <1>0
    <2> HIDE DEF a, b
    <2>9. /\ t \in Seq(AnyCard) /\ Len(t) = Len(shown) - 1
          /\ \A i \in 1..(k - 1) : t[i] = shown[i]
          /\ \A i \in k..(Len(shown) - 1) : t[i] = shown[i + 1]
      <3>0. /\ t \in Seq(AnyCard) /\ Len(t) = Len(a) + Len(b)
            /\ \A i \in 1..Len(a) : t[i] = a[i]
            /\ \A i \in 1..Len(b) : t[Len(a) + i] = b[i]
        <4>1. a \in Seq(AnyCard) /\ b \in Seq(AnyCard)
          BY <2>7, <2>8
        <4>2. /\ a \o b \in Seq(AnyCard) /\ Len(a \o b) = Len(a) + Len(b)
              /\ \A i \in 1..Len(a) : (a \o b)[i] = a[i]
              /\ \A i \in 1..Len(b) : (a \o b)[Len(a) + i] = b[i]
          BY ONLY <4>1, BothSequences
        <4> QED
          BY ONLY <2>6, <4>2
      <3>1. t \in Seq(AnyCard) /\ Len(t) = Len(shown) - 1
        <4>1. Len(t) = Len(a) + Len(b) /\ Len(a) = k - 1 /\ Len(b) = Len(shown) - k /\ k \in Nat
          BY <1>0, <2>1, <2>7, <2>8, <3>0
        <4>2. (k - 1) + (Len(shown) - k) = Len(shown) - 1
          BY <1>0, <4>1
        <4> QED
          BY <3>0, <4>1, <4>2
      <3>2. \A i \in 1..(k - 1) : t[i] = shown[i]
        BY <2>7, <3>0
      <3>3. ASSUME NEW i \in k..(Len(shown) - 1) PROVE t[i] = shown[i + 1]
        <4>0. Len(shown) \in Nat /\ k \in 1..Len(shown) /\ i \in k..(Len(shown) - 1)
          BY <1>0
        <4>1. i - (k - 1) \in 1..(Len(shown) - k) /\ (k - 1) + (i - (k - 1)) = i
              /\ k + (i - (k - 1)) = i + 1
          BY ONLY <4>0
        <4>2. t[(k - 1) + (i - (k - 1))] = b[i - (k - 1)]
          BY <2>7, <2>8, <3>0, <4>1
        <4>3. b[i - (k - 1)] = shown[k + (i - (k - 1))]
          BY <2>8, <4>1
        <4> QED
          BY <4>1, <4>2, <4>3
      <3> QED
        BY <3>1, <3>2, <3>3
    <2>10. ASSUME NEW i \in DOMAIN t
           PROVE  \E j \in 1..Len(shown) : t[i] = shown[j] /\ j # k
      <3>1. i \in 1..(Len(shown) - 1)
        BY <2>9
      <3>2. CASE i < k
        <4>1. t[i] = shown[i] /\ i \in 1..Len(shown) /\ i # k
          BY <1>0, <2>9, <3>1, <3>2
        <4> QED
          BY <4>1
      <3>3. CASE i >= k
        <4>1. t[i] = shown[i + 1] /\ i + 1 \in 1..Len(shown) /\ i + 1 # k
          BY <1>0, <2>9, <3>1, <3>3
        <4> QED
          BY <4>1
      <3>4. i < k \/ i >= k
        BY <3>1
      <3> QED
        BY <3>2, <3>3, <3>4
    <2>11. \A j \in 1..Len(shown) : j # k => shown[j].id # 0
      BY <2>2
    <2> QED
      BY <1>0, <2>9, <2>10, <2>11
  <1> QED
    BY <1>1, <1>2


-----------------------------------------------------------------------------
(* Types *)

LEMMA RequestIsSent ==
  ASSUME TabTypes, Send
  PROVE  lists' \subseteq Request /\ asked' \in [list : Nat, signIn : Nat]
  <1>1. /\ asked.list \in Nat /\ asked.signIn \in Nat /\ token \in Users \cup {None}
        /\ (~creating) \in BOOLEAN
    BY DEF TabTypes
  <1>2. [number |-> asked.list + 1, token |-> token, answer |-> None, alone |-> ~creating]
          \in Request
    BY <1>1 DEF Request
  <1>3. asked' = [asked EXCEPT !.list = @ + 1]
    BY DEF Send
  <1>4. asked' \in [list : Nat, signIn : Nat]
    <2>1. asked \in [list : Nat, signIn : Nat] /\ asked.list + 1 \in Nat
      BY <1>1 DEF TabTypes
    <2> QED
      BY <1>3, <2>1
  <1> QED
    BY <1>2, <1>4 DEF TabTypes, Send

\* A wallet is stored.
LEMMA InsertTypes ==
  ASSUME TabTypes, NEW u \in Users, Insert(u)
  PROVE  /\ owned' \in [Users -> Nat] /\ owned'[u] = owned[u] + 1 /\ owned'[u] \in Nat
         /\ primary' \in [Users -> SUBSET Nat]
  <1>1. owned \in [Users -> Nat] /\ owned[u] \in Nat /\ primary \in [Users -> SUBSET Nat]
    BY DEF TabTypes
  <1>2. owned' = [owned EXCEPT ![u] = owned[u] + 1] /\ owned[u] + 1 \in Nat
    BY <1>1 DEF Insert
  <1>3. owned' \in [Users -> Nat] /\ owned'[u] = owned[u] + 1 /\ owned'[u] \in Nat
    BY <1>1, <1>2
  <1>4. primary' = [primary EXCEPT ![u] = primary[u] \cup {owned'[u]}]
    BY DEF Insert
  <1>5. primary[u] \cup {owned'[u]} \in SUBSET Nat
    BY <1>1, <1>3
  <1> QED
    BY <1>1, <1>3, <1>4, <1>5

LEMMA TabTypesInit == SessionInit => TabTypes
  <1> SUFFICES ASSUME SessionInit PROVE TabTypes
    OBVIOUS
  <1>1. owned \in [Users -> Nat] /\ primary \in [Users -> SUBSET Nat]
    BY DEF SessionInit
  <1>2. asked \in [list : Nat, signIn : Nat]
    BY DEF SessionInit
  <1>3. shown \in Seq(AnyCard)
    BY DEF SessionInit
  <1> QED
    BY <1>1, <1>2, <1>3 DEF SessionInit, TabTypes

LEMMA TabTypesStep ==
  TabTypes /\ PendingCard /\ OneSession /\ [SessionNext]_sessionVars => TabTypes'
  <1> SUFFICES ASSUME TabTypes, PendingCard, OneSession, [SessionNext]_sessionVars PROVE TabTypes'
    OBVIOUS
  <1>1. CASE GetMeReturns
    <2>1. CASE SignedInAs(token) /\ UNCHANGED <<token, faults>>
      BY <1>1, <2>1 DEF GetMeReturns, SignedInAs, serverVars, TabTypes
    <2>2. CASE Fault /\ token' = None /\ UNCHANGED <<user, effectDue, known>>
      <3>1. faults' \in Nat /\ UNCHANGED <<user, effectDue, known>> /\ token' = None
        BY <2>2 DEF Fault, TabTypes
      <3> QED
        BY <1>1, <3>1 DEF GetMeReturns, serverVars, TabTypes
    <2> QED
      BY <1>1, <2>1, <2>2 DEF GetMeReturns
  <1>2. CASE Logout
    <2>1. shown' \in Seq(AnyCard)
      BY <1>2 DEF Logout
    <2> QED
      BY <1>2, <2>1 DEF Logout, serverVars, TabTypes
  <1>3. ASSUME NEW u \in Users, SubmitSignIn(u) PROVE TabTypes'
    <2>1. asked' \in [list : Nat, signIn : Nat]
      <3>1. asked \in [list : Nat, signIn : Nat] /\ asked.signIn + 1 \in Nat
        BY DEF TabTypes
      <3>2. asked' = [asked EXCEPT !.signIn = asked.signIn + 1]
        BY <1>3 DEF SubmitSignIn
      <3> QED
        BY <3>1, <3>2
    <2> QED
      BY <1>3, <2>1 DEF SubmitSignIn, serverVars, TabTypes
  <1>4. ASSUME NEW u \in Users, SignInReturns(u) PROVE TabTypes'
    BY <1>4 DEF SignInReturns, SignedInAs, serverVars, TabTypes
  <1>5. ASSUME NEW u \in Users, SignInFails(u) PROVE TabTypes'
    BY <1>5 DEF SignInFails, Fault, serverVars, TabTypes
  <1>6. CASE UserEffect
    BY <1>6, RequestIsSent DEF UserEffect, authVars, serverVars, TabTypes
  <1>7. CASE Retry
    BY <1>7, RequestIsSent DEF Retry, authVars, serverVars, TabTypes
  <1>8. ASSUME NEW r \in lists, AnswerList(r) PROVE TabTypes'
    <2>1. r \in Request /\ r.token \in Users
      BY <1>8 DEF AnswerList, TabTypes, Request
    <2>2. WalletsOf(r.token) \in Seq(AnyCard)
      BY <2>1, ServerLists DEF TabTypes
    <2>3. [r EXCEPT !.answer = WalletsOf(r.token)] \in Request
      BY <2>1, <2>2 DEF Request
    <2>4. lists' \subseteq Request
      BY <1>8, <2>3 DEF AnswerList, ServerList, TabTypes
    <2> QED
      BY <1>8, <2>4 DEF AnswerList, authVars, serverVars, TabTypes
  <1>9. ASSUME NEW r \in lists, Deliver(r) PROVE TabTypes'
    <2>1. shown' \in Seq(AnyCard)
      BY <1>9 DEF Deliver, TabTypes, Request
    <2> QED
      BY <1>9, <2>1 DEF Deliver, authVars, serverVars, TabTypes
  <1>10. ASSUME NEW r \in lists, ListFails(r) PROVE TabTypes'
    BY <1>10 DEF ListFails, Fault, authVars, serverVars, TabTypes
  <1>11. CASE CallWallet
    BY <1>11 DEF CallWallet, authVars, serverVars, TabTypes
  <1>12. CASE CallReturns
    BY <1>12, RequestIsSent DEF CallReturns, authVars, serverVars, TabTypes
  <1>13. CASE CallFails
    BY <1>13 DEF CallFails, Fault, authVars, serverVars, TabTypes
  <1>14. CASE CreateWallet
    <2>1. token \in Users
      BY <1>14 DEF CreateWallet, OneSession, TabTypes
    <2>2. creation' \in Creation
      BY <1>14, <2>1 DEF CreateWallet, Creation
    <2>3. Pending(shown = <<>>) \in AnyCard
      BY DEF Pending, Card, AnyCard
    <2>4. shown' \in Seq(AnyCard)
      BY <1>14, <2>3 DEF CreateWallet, TabTypes
    <2> QED
      BY <1>14, <2>2, <2>4 DEF CreateWallet, authVars, serverVars, TabTypes
  <1>15. CASE ServerClears
    <2>1. creation \in Creation
      BY <1>15 DEF ServerClears, TabTypes
    <2>2. creation' \in Creation
      BY <1>15, <2>1 DEF ServerClears, Creation
    <2>3. primary' \in [Users -> SUBSET Nat]
      BY <1>15 DEF ServerClears, ClearPrimary, TabTypes
    <2> QED
      BY <1>15, <2>2, <2>3 DEF ServerClears, authVars, TabTypes
  <1>16. CASE ServerInserts
    <2>1. creation \in Creation /\ creation.token \in Users
      BY <1>16 DEF ServerInserts, TabTypes, Creation
    <2>2. /\ owned' \in [Users -> Nat] /\ primary' \in [Users -> SUBSET Nat]
          /\ owned'[creation.token] \in Nat
      BY <1>16, <2>1, InsertTypes DEF ServerInserts
    <2>3. creation' \in Creation
      BY <1>16, <2>1, <2>2 DEF ServerInserts, Creation
    <2> QED
      BY <1>16, <2>2, <2>3 DEF ServerInserts, authVars, TabTypes
  <1>17. CASE CreateReturns
    <2>1. creation.token \in Users /\ creation.wallet \in Nat /\ asked.list \in Nat
      BY <1>17 DEF CreateReturns, TabTypes, Creation
    <2>2. Card(creation.token, creation.wallet, TRUE) \in AnyCard
      BY <2>1 DEF Card, AnyCard
    <2>3. shown' \in Seq(AnyCard)
      BY <1>17, <2>2, CardIsReplaced DEF CreateReturns, TabTypes
    <2> QED
      BY <1>17, <2>1, <2>3 DEF CreateReturns, EndCreation, authVars, serverVars, TabTypes
  <1>18. CASE CreateFails
    <2>1. creation.token \in Users /\ asked.list \in Nat
      BY <1>18 DEF CreateFails, TabTypes, Creation
    <2>2. shown' \in Seq(AnyCard)
      BY <1>18, CardIsRemoved DEF CreateFails, PendingCard, TabTypes
    <2>3. /\ faults' \in Nat /\ creation.cleared \in BOOLEAN
      BY <1>18 DEF CreateFails, Fault, TabTypes, Creation
    <2>4. [number |-> faults', token |-> creation.token, cleared |-> creation.cleared] \in GivenUp
      BY <2>1, <2>3 DEF GivenUp
    <2>5. abandoned' \subseteq GivenUp
      BY <1>18, <2>4 DEF CreateFails, TabTypes
    <2> QED
      BY <1>18, <2>1, <2>2, <2>3, <2>5
      DEF CreateFails, EndCreation, authVars, serverVars, TabTypes
  <1>19. CASE UNCHANGED sessionVars
    BY <1>19 DEF sessionVars, authVars, serverVars, TabTypes
  <1>23. ASSUME NEW a \in abandoned, ClearsLate(a) PROVE TabTypes'
    <2>1. a \in GivenUp /\ asked.list \in Nat
      BY DEF TabTypes
    <2>2. [a EXCEPT !.cleared = TRUE] \in GivenUp
      BY <2>1 DEF GivenUp
    <2>3. abandoned' \subseteq GivenUp
      BY <1>23, <2>2 DEF ClearsLate, TabTypes
    <2>4. primary' \in [Users -> SUBSET Nat]
      BY <1>23 DEF ClearsLate, ClearPrimary, TabTypes
    <2> QED
      BY <1>23, <2>1, <2>3, <2>4 DEF ClearsLate, authVars, TabTypes
  <1>24. ASSUME NEW a \in abandoned, InsertsLate(a) PROVE TabTypes'
    <2>1. a \in GivenUp /\ a.token \in Users /\ asked.list \in Nat
      BY DEF TabTypes, GivenUp
    <2>2. owned' \in [Users -> Nat] /\ primary' \in [Users -> SUBSET Nat]
      BY <1>24, <2>1, InsertTypes DEF InsertsLate
    <2> QED
      BY <1>24, <2>1, <2>2 DEF InsertsLate, authVars, TabTypes
  <1>25. CASE \E a \in abandoned : ClearsLate(a) \/ InsertsLate(a)
    BY <1>23, <1>24, <1>25
  <1>20. CASE \E u \in Users : SubmitSignIn(u) \/ SignInReturns(u) \/ SignInFails(u)
    BY <1>3, <1>4, <1>5, <1>20
  <1>21. CASE \E r \in lists : AnswerList(r) \/ Deliver(r) \/ ListFails(r)
    BY <1>8, <1>9, <1>10, <1>21
  <1>22. CASE SessionNext
    BY <1>1, <1>2, <1>6, <1>7, <1>11, <1>12, <1>13, <1>14, <1>15, <1>16, <1>17, <1>18, <1>20,
       <1>21, <1>22, <1>25 DEF SessionNext
  <1> QED
    BY <1>19, <1>22


-----------------------------------------------------------------------------
(* One session, one pending card *)

LEMMA OneSessionStep ==
  TabTypes /\ OneSession /\ [SessionNext]_sessionVars => OneSession'
  <1> SUFFICES ASSUME TabTypes, OneSession, [SessionNext]_sessionVars PROVE OneSession'
    OBVIOUS
  <1>0. loading \in BOOLEAN /\ None \notin Users
    BY BoundsAssumption DEF TabTypes
  <1>1. CASE GetMeReturns
    BY <1>0, <1>1 DEF GetMeReturns, SignedInAs, OneSession
  <1>2. CASE Logout
    BY <1>0, <1>2 DEF Logout, OneSession
  <1>3. ASSUME NEW u \in Users, SubmitSignIn(u) PROVE OneSession'
    BY <1>0, <1>3 DEF SubmitSignIn, MaySignIn, OneSession
  <1>4. ASSUME NEW u \in Users, SignInReturns(u) PROVE OneSession'
    BY <1>0, <1>4 DEF SignInReturns, SignedInAs, OneSession
  <1>5. ASSUME NEW u \in Users, SignInFails(u) PROVE OneSession'
    BY <1>0, <1>5 DEF SignInFails, OneSession
  <1>6. ASSUME UNCHANGED authVars PROVE OneSession'
    BY <1>6 DEF authVars, OneSession
  <1>7. ASSUME NEW r \in lists, AnswerList(r) \/ Deliver(r) \/ ListFails(r) PROVE OneSession'
    BY <1>6, <1>7 DEF AnswerList, Deliver, ListFails
  <1>8. CASE UserEffect \/ Retry \/ CallWallet \/ CallReturns \/ CallFails
    BY <1>6, <1>8 DEF UserEffect, Retry, CallWallet, CallReturns, CallFails
  <1>9. CASE CreateWallet \/ ServerClears \/ ServerInserts \/ CreateReturns \/ CreateFails
    BY <1>6, <1>9 DEF CreateWallet, ServerClears, ServerInserts, CreateReturns, CreateFails
  <1>12. ASSUME NEW a \in abandoned, ClearsLate(a) \/ InsertsLate(a) PROVE OneSession'
    BY <1>6, <1>12 DEF ClearsLate, InsertsLate
  <1>10. CASE UNCHANGED sessionVars
    BY <1>6, <1>10 DEF sessionVars
  <1>11. CASE SessionNext
    BY <1>1, <1>2, <1>3, <1>4, <1>5, <1>7, <1>8, <1>9, <1>11, <1>12 DEF SessionNext
  <1> QED
    BY <1>10, <1>11

LEMMA PendingCardStep ==
  TabTypes /\ OneSession /\ PendingCard /\ Answers /\ [SessionNext]_sessionVars
    => PendingCard'
  <1> SUFFICES ASSUME TabTypes, OneSession, PendingCard, Answers, [SessionNext]_sessionVars
               PROVE  PendingCard'
    OBVIOUS
  <1>0. shown \in Seq(AnyCard) /\ creating \in BOOLEAN
    BY DEF TabTypes
  <1>1. ASSUME UNCHANGED <<shown, creating, creation>> PROVE PendingCard'
    BY <1>1 DEF PendingCard
  <1>2. CASE GetMeReturns \/ UserEffect \/ Retry \/ CallWallet \/ CallReturns \/ CallFails
    BY <1>1, <1>2 DEF GetMeReturns, UserEffect, Retry, CallWallet, CallReturns, CallFails
  <1>3. ASSUME NEW u \in Users, SubmitSignIn(u) \/ SignInReturns(u) \/ SignInFails(u)
        PROVE  PendingCard'
    BY <1>1, <1>3 DEF SubmitSignIn, SignInReturns, SignInFails
  <1>4. CASE Logout
    <2>1. shown' = <<>> /\ DOMAIN shown' = {} /\ creating' = creating /\ creation' = creation
      BY <1>4 DEF Logout
    <2> QED
      BY <2>1 DEF PendingCard
  <1>5. ASSUME NEW r \in lists, AnswerList(r) \/ ListFails(r) PROVE PendingCard'
    BY <1>1, <1>5 DEF AnswerList, ListFails
  <1>6. ASSUME NEW r \in lists, Deliver(r) PROVE PendingCard'
    <2>1. /\ shown' = r.answer /\ creating' = creating /\ creation' = creation
          /\ \A i \in DOMAIN r.answer : r.answer[i].id # 0
      BY <1>6 DEF Deliver, Answers, AnswerIsOwn
    <2> QED
      BY <2>1 DEF PendingCard
  <1>7. CASE CreateWallet
    <2>1. /\ shown' = Append(shown, Pending(shown = <<>>)) /\ creating' = TRUE
          /\ \A i \in DOMAIN shown : shown[i].id # 0
      BY <1>7 DEF CreateWallet, PendingCard
    <2>2. creation' # None
      <3>1. token \in Users
        BY <1>7 DEF CreateWallet, OneSession, TabTypes
      <3>2. creation' \in Creation
        BY <1>7, <3>1 DEF CreateWallet, Creation
      <3> QED
        BY <3>2, BoundsAssumption
    <2>3. /\ DOMAIN shown' = 1..(Len(shown) + 1) /\ DOMAIN shown = 1..Len(shown)
          /\ Len(shown) \in Nat
          /\ \A i \in 1..Len(shown) : shown'[i] = shown[i]
      BY <1>0, <2>1
    <2>4. \A i \in DOMAIN shown' : shown'[i].id = 0 => i = Len(shown) + 1
      BY <2>1, <2>3
    <2> QED
      BY <2>1, <2>2, <2>4 DEF PendingCard
  <1>8. CASE ServerClears \/ ServerInserts
    <2>1. /\ creation \in Creation /\ shown' = shown /\ creating' = creating
      BY <1>8 DEF ServerClears, ServerInserts, TabTypes
    <2>2. creation' \in Creation
      <3>1. CASE ServerClears
        BY <2>1, <3>1 DEF ServerClears, Creation
      <3>2. CASE ServerInserts
        <4>1. creation.token \in Users
          BY <2>1 DEF Creation
        <4>2. owned'[creation.token] \in Nat
          BY <3>2, <4>1, InsertTypes DEF ServerInserts
        <4> QED
          BY <2>1, <3>2, <4>2 DEF ServerInserts, Creation
      <3> QED
        BY <1>8, <3>1, <3>2
    <2>3. creation # None
      BY <1>8 DEF ServerClears, ServerInserts
    <2> QED
      BY <2>1, <2>2, <2>3, BoundsAssumption DEF PendingCard
  <1>9. ASSUME NEW a \in abandoned, ClearsLate(a) \/ InsertsLate(a) PROVE PendingCard'
    BY <1>1, <1>9 DEF ClearsLate, InsertsLate
  <1>10. CASE CreateReturns
    <2>1. creation.token \in Users /\ creation.wallet \in Nat \ {0}
      BY <1>10 DEF CreateReturns, TabTypes, Creation
    <2> DEFINE c == Card(creation.token, creation.wallet, TRUE)
    <2>2. c \in AnyCard /\ c.id # 0
      BY <2>1 DEF Card, AnyCard
    <2>3. shown' = WithCreated(c) /\ creating' = FALSE /\ creation' = None
      BY <1>10 DEF CreateReturns, EndCreation
    <2> HIDE DEF c
    <2>4. \A i \in DOMAIN shown' : shown'[i].id # 0
      BY <1>0, <2>2, <2>3, CardIsReplaced
    <2> QED
      BY <2>3, <2>4 DEF PendingCard
  <1>11. CASE CreateFails
    <2>1. /\ shown' = RemoveFirstMatch(shown, LAMBDA c : c.id = 0)
          /\ creating' = FALSE /\ creation' = None
      BY <1>11 DEF CreateFails, EndCreation
    <2>2. \A i \in DOMAIN shown' : shown'[i].id # 0
      BY <1>0, <2>1, CardIsRemoved DEF PendingCard
    <2> QED
      BY <2>1, <2>2 DEF PendingCard
  <1>12. CASE UNCHANGED sessionVars
    BY <1>1, <1>12 DEF sessionVars
  <1>13. CASE SessionNext
    BY <1>2, <1>3, <1>4, <1>5, <1>6, <1>7, <1>8, <1>9, <1>10, <1>11, <1>13 DEF SessionNext
  <1> QED
    BY <1>12, <1>13

-----------------------------------------------------------------------------
(* The answers *)

\* A request that is sent has no answer yet, and has the highest number.
LEMMA AnswersSend ==
  ASSUME TabTypes, Answers, Send, createdAt' = createdAt, creating' = creating,
         UNCHANGED serverVars
  PROVE  Answers'
  <1> DEFINE new == [number |-> asked.list + 1, token |-> token, answer |-> None,
                     alone |-> ~creating]
  <1>1. /\ lists' = lists \cup {new} /\ asked.list \in Nat
        /\ asked'.list = asked.list + 1
    BY DEF Send, TabTypes
  <1>2. new.number <= asked'.list /\ new.answer = None
    BY <1>1
  <1>3. \A r \in lists : r.number \in Nat
    BY DEF TabTypes, Request
  <1>4. owned' = owned /\ primary' = primary
    BY DEF serverVars
  <1>5. \A u : WalletsOf(u)' = WalletsOf(u)
    BY <1>4 DEF WalletsOf, Ranked, Place, Before
  <1> HIDE DEF new
  <1>6. ASSUME NEW r \in lists' PROVE r.number <= asked'.list /\ AnswerIsOwn(r) /\ AnswerIsFresh(r)'
    <2>1. CASE r \in lists
      <3>1. r.number <= asked.list /\ r.number \in Nat /\ AnswerIsOwn(r) /\ AnswerIsFresh(r)
        BY <1>3, <2>1 DEF Answers
      <3>2. r.number <= asked'.list
        BY <1>1, <3>1
      <3>3. AnswerIsFresh(r)'
        BY <1>5, <3>1 DEF AnswerIsFresh
      <3> QED
        BY <3>1, <3>2, <3>3
    <2>2. CASE r = new
      BY <1>2, <2>2 DEF AnswerIsOwn, AnswerIsFresh
    <2> QED
      BY <1>1, <2>1, <2>2
  <1> QED
    BY <1>6 DEF Answers, AnswerIsOwn

\* Some requests go.
LEMMA AnswersKept ==
  ASSUME Answers, lists' \subseteq lists, asked'.list = asked.list, createdAt' = createdAt,
         creating' = creating, UNCHANGED serverVars
  PROVE  Answers'
  <1>1. \A u : WalletsOf(u)' = WalletsOf(u)
    BY DEF WalletsOf, Ranked, Place, Before, serverVars
  <1> QED
    BY <1>1 DEF Answers, AnswerIsOwn, AnswerIsFresh

\* While a creation is under way no answer counts as fresh, nor does one to a
\* request that was asked for before its end.
LEMMA AnswersStale ==
  ASSUME TabTypes, Answers, lists' = lists, asked' = asked, creating' \/ createdAt' = asked.list
  PROVE  Answers'
  <1>1. \A r \in lists : r.number \in Nat /\ asked.list \in Nat /\ r.number <= asked.list
    BY DEF TabTypes, Request, Answers
  <1>2. \A r \in lists : ~creating' => ~(r.number > createdAt')
    BY <1>1
  <1> QED
    BY <1>2 DEF Answers, AnswerIsOwn, AnswerIsFresh

LEMMA AnswersStep ==
  TabTypes /\ PendingCard /\ Answers /\ [SessionNext]_sessionVars => Answers'
  <1> SUFFICES ASSUME TabTypes, PendingCard, Answers, [SessionNext]_sessionVars PROVE Answers'
    OBVIOUS
  <1>1. CASE GetMeReturns \/ Logout \/ CallWallet \/ CallFails
    BY <1>1, AnswersKept DEF GetMeReturns, Logout, CallWallet, CallFails
  <1>2. ASSUME NEW u \in Users, SubmitSignIn(u) \/ SignInReturns(u) \/ SignInFails(u)
        PROVE  Answers'
    <2>1. asked'.list = asked.list
      BY <1>2 DEF SubmitSignIn, SignInReturns, SignInFails, TabTypes
    <2> QED
      BY <1>2, <2>1, AnswersKept DEF SubmitSignIn, SignInReturns, SignInFails
  <1>3. CASE UserEffect \/ Retry \/ CallReturns
    BY <1>3, AnswersSend DEF UserEffect, Retry, CallReturns
  <1>4. ASSUME NEW r \in lists, AnswerList(r) PROVE Answers'
    <2>0. PICK new : new = [r EXCEPT !.answer = WalletsOf(r.token)]
      OBVIOUS
    <2>1. /\ lists' = (lists \ {r}) \cup {new} /\ asked' = asked /\ createdAt' = createdAt
          /\ creating' = creating /\ owned' = owned /\ primary' = primary
      BY <1>4, <2>0 DEF AnswerList, ServerList, serverVars
    <2>2. \A u : WalletsOf(u)' = WalletsOf(u)
      BY <2>1 DEF WalletsOf, Ranked, Place, Before
    <2>3. r \in Request /\ r.token \in Users /\ r.token # None /\ r.number <= asked.list
      BY <1>4 DEF AnswerList, TabTypes, Request, Answers
    <2>4. new.number = r.number /\ new.token = r.token /\ new.answer = WalletsOf(r.token)
      BY <2>0, <2>3 DEF Request
    <2>5. \A i \in DOMAIN WalletsOf(r.token) :
            WalletsOf(r.token)[i].owner = r.token /\ WalletsOf(r.token)[i].id # 0
      <3>1. owned[r.token] \in Nat
        BY <2>3 DEF TabTypes
      <3>2. \A i \in DOMAIN WalletsOf(r.token) :
              /\ WalletsOf(r.token)[i].owner = r.token
              /\ WalletsOf(r.token)[i].id \in 1..owned[r.token]
        BY <2>3, <3>1, ServerLists
      <3> QED
        BY <3>1, <3>2
    <2>6. new.number <= asked'.list /\ AnswerIsOwn(new) /\ AnswerIsFresh(new)'
      BY <2>1, <2>2, <2>3, <2>4, <2>5 DEF AnswerIsOwn, AnswerIsFresh
    <2>7. \A q \in lists : q.number <= asked'.list /\ AnswerIsOwn(q) /\ AnswerIsFresh(q)'
      BY <2>1, <2>2 DEF Answers, AnswerIsFresh
    <2> QED
      BY <2>1, <2>6, <2>7 DEF Answers, AnswerIsOwn
  <1>5. ASSUME NEW r \in lists, Deliver(r) \/ ListFails(r) PROVE Answers'
    <2>1. lists' \subseteq lists /\ asked' = asked /\ createdAt' = createdAt
          /\ creating' = creating /\ UNCHANGED serverVars
      BY <1>5 DEF Deliver, ListFails
    <2> QED
      BY <2>1, AnswersKept
  <1>6. CASE CreateWallet
    BY <1>6, AnswersStale DEF CreateWallet
  <1>7. CASE ServerClears \/ ServerInserts
    <2>1. creating' = TRUE
      BY <1>7 DEF ServerClears, ServerInserts, PendingCard, TabTypes
    <2> QED
      BY <1>7, <2>1, AnswersStale DEF ServerClears, ServerInserts
  <1>8. ASSUME NEW a \in abandoned, ClearsLate(a) \/ InsertsLate(a) PROVE Answers'
    BY <1>8, AnswersStale DEF ClearsLate, InsertsLate
  <1>9. CASE CreateReturns \/ CreateFails
    BY <1>9, AnswersStale DEF CreateReturns, CreateFails, EndCreation
  <1>10. CASE UNCHANGED sessionVars
    BY <1>10, AnswersKept DEF sessionVars
  <1>11. CASE SessionNext
    BY <1>1, <1>2, <1>3, <1>4, <1>5, <1>6, <1>7, <1>8, <1>9, <1>11 DEF SessionNext
  <1> QED
    BY <1>10, <1>11


-----------------------------------------------------------------------------
(* What the tab knows *)

\* Nothing of it changes.
LEMMA KnowledgeKept ==
  ASSUME Knowledge, known' = "nothing" \/ known' = known,
         UNCHANGED <<user, shown, creating, creation>>, UNCHANGED serverVars
  PROVE  Knowledge'
  <1>1. /\ user' = user /\ shown' = shown /\ creating' = creating /\ creation' = creation
        /\ owned' = owned /\ primary' = primary
    BY DEF serverVars
  <1>2. WalletsOf(user)' = WalletsOf(user) /\ Counted(user)' = Counted(user)
    BY <1>1 DEF WalletsOf, Ranked, Place, Before, Counted
  <1>3. CASE known' = "nothing"
    BY <1>3 DEF Knowledge
  <1>4. CASE known' = known
    BY <1>1, <1>2, <1>4 DEF Knowledge
  <1> QED
    BY <1>3, <1>4

LEMMA KnowledgeLost ==
  ASSUME known' = "nothing"
  PROVE  Knowledge'
BY DEF Knowledge

\* An answer that tells the truth is the server's list.
LEMMA KnowledgeDelivered ==
  ASSUME TabTypes, PendingCard, Answers, NEW r \in lists, Deliver(r)
  PROVE  Knowledge'
  <1> SUFFICES ASSUME known' # "nothing" PROVE Knowledge'
    BY KnowledgeLost
  <1>1. /\ TellsTheTruth(r) /\ known' = "everything" /\ shown' = r.answer /\ r.answer # None
        /\ user' = user /\ creating' = creating /\ creation' = creation
        /\ owned' = owned /\ primary' = primary
    BY DEF Deliver, authVars, serverVars
  <1>2. /\ user = r.token /\ user # None /\ user \in Users /\ ~creating /\ creation = None
        /\ r.answer = WalletsOf(user)
    BY <1>1 DEF TellsTheTruth, Answers, AnswerIsOwn, AnswerIsFresh, PendingCard, TabTypes
  <1>3. owned[user] \in Nat
    BY <1>2 DEF TabTypes
  <1>4. /\ \A i \in DOMAIN shown' : shown'[i].owner = user /\ shown'[i].id \in 1..owned[user]
        /\ \A n \in 1..owned[user] : \E i \in DOMAIN shown' : shown'[i].id = n
    BY <1>1, <1>2, <1>3, ServerLists
  <1>5. Counted(user)' = 1..owned[user] /\ WalletsOf(user)' = WalletsOf(user)
    BY <1>1, <1>2 DEF Counted, WalletsOf, Ranked, Place, Before
  <1> QED
    BY <1>1, <1>2, <1>4, <1>5 DEF Knowledge

\* The pending card is added, and counts for nothing.
LEMMA KnowledgePending ==
  ASSUME TabTypes, OneSession, PendingCard, Knowledge, CreateWallet
  PROVE  Knowledge'
  <1> SUFFICES ASSUME known' # "nothing" PROVE Knowledge'
    BY KnowledgeLost
  <1>1. /\ known' = known /\ user' = user /\ owned' = owned /\ creating' = TRUE /\ ~creating
        /\ creation' = [token |-> token, cleared |-> FALSE, wallet |-> 0]
        /\ shown' = Append(shown, Pending(shown = <<>>))
    BY DEF CreateWallet, authVars, serverVars
  <1>2. user # None /\ user \in Users /\ token = user /\ creation = None
    BY DEF CreateWallet, OneSession, PendingCard, TabTypes
  <1>3. Counted(user) = 1..owned[user] /\ Counted(user)' = 1..owned[user]
    BY <1>1, <1>2 DEF Counted
  <1>4. Pending(shown = <<>>).id = 0
    BY DEF Pending, Card
  <1>5. /\ shown \in Seq(AnyCard) /\ Len(shown) \in Nat
        /\ DOMAIN shown = 1..Len(shown) /\ DOMAIN shown' = 1..(Len(shown) + 1)
        /\ \A i \in 1..Len(shown) : shown'[i] = shown[i]
        /\ shown'[Len(shown) + 1].id = 0
    <2>1. shown \in Seq(AnyCard)
      BY DEF TabTypes
    <2> QED
      BY <1>1, <1>4, <2>1
  <1>6. /\ \A i \in DOMAIN shown :
             shown[i].id # 0 => shown[i].owner = user /\ shown[i].id \in 1..owned[user]
        /\ \A n \in 1..owned[user] : \E i \in DOMAIN shown : shown[i].id = n
    BY <1>1, <1>3 DEF Knowledge
  <1>7. \A i \in DOMAIN shown' :
          shown'[i].id # 0 => shown'[i].owner = user /\ shown'[i].id \in 1..owned[user]
    <2> SUFFICES ASSUME NEW i \in DOMAIN shown', shown'[i].id # 0
                 PROVE  shown'[i].owner = user /\ shown'[i].id \in 1..owned[user]
      OBVIOUS
    <2>1. i \in 1..Len(shown)
      BY <1>5
    <2> QED
      BY <1>5, <1>6, <2>1
  <1>8. \A n \in 1..owned[user] : \E i \in DOMAIN shown' : shown'[i].id = n
    <2> SUFFICES ASSUME NEW n \in 1..owned[user] PROVE \E i \in DOMAIN shown' : shown'[i].id = n
      OBVIOUS
    <2>1. PICK i \in DOMAIN shown : shown[i].id = n
      BY <1>6
    <2>2. i \in DOMAIN shown' /\ shown'[i].id = n
      BY <1>5, <2>1
    <2> QED
      BY <2>2
  <1> QED
    BY <1>1, <1>2, <1>3, <1>7, <1>8 DEF Knowledge

\* The flags on the server are nothing the tab counts on while it creates.
LEMMA KnowledgeCleared ==
  ASSUME TabTypes, PendingCard, Knowledge, PendingCard', ServerClears
  PROVE  Knowledge'
  <1> SUFFICES ASSUME known' # "nothing" PROVE Knowledge'
    BY KnowledgeLost
  <1>1. /\ known' = known /\ user' = user /\ creating' = creating /\ shown' = shown
        /\ owned' = owned /\ creation \in Creation /\ creation # None
        /\ creation' = [creation EXCEPT !.cleared = TRUE]
    BY DEF ServerClears, authVars, TabTypes
  <1>2. creation'.wallet = creation.wallet /\ creation'.token = creation.token /\ creating
    BY <1>1 DEF Creation, PendingCard
  <1>3. creation' # None
    BY <1>1, <1>2 DEF PendingCard
  <1>4. Counted(user)' = Counted(user)
    BY <1>1, <1>2, <1>3 DEF Counted
  <1> QED
    BY <1>1, <1>2, <1>4 DEF Knowledge

\* The server has one wallet more than those that count.
LEMMA KnowledgeCreated ==
  ASSUME TabTypes, PendingCard, Knowledge, PendingCard', ServerInserts
  PROVE  Knowledge'
  <1> SUFFICES ASSUME known' # "nothing" PROVE Knowledge'
    BY KnowledgeLost
  <1>1. /\ known' = known /\ user' = user /\ creating' = creating /\ shown' = shown
        /\ creation \in Creation /\ creation # None /\ creation.wallet = 0
        /\ creation' = [creation EXCEPT !.wallet = owned'[creation.token]]
        /\ owned' = [owned EXCEPT ![creation.token] = owned[creation.token] + 1]
    BY DEF ServerInserts, Insert, authVars, TabTypes
  <1>2. user # None /\ user \in Users /\ creation.token = user /\ creating
    BY <1>1 DEF Knowledge, PendingCard, TabTypes
  <1>3. owned[user] \in Nat /\ owned \in [Users -> Nat]
    BY <1>2 DEF TabTypes
  <1>4. owned'[user] = owned[user] + 1
    BY <1>1, <1>2, <1>3
  <1>5. creation'.wallet = owned'[user] /\ creation'.token = user
    BY <1>1, <1>2 DEF Creation
  <1>6. creation' # None
    BY <1>1, <1>2 DEF PendingCard
  <1>7. Counted(user) = 1..owned[user] /\ Counted(user)' = 1..owned[user]
    <2>1. owned'[user] - 1 = owned[user] /\ owned'[user] # 0
      BY <1>3, <1>4
    <2> QED
      BY <1>1, <1>5, <1>6, <2>1 DEF Counted
  <1> QED
    BY <1>1, <1>2, <1>5, <1>6, <1>7 DEF Knowledge

\* The creation returns: the wallet takes the place of the pending card.
LEMMA KnowledgeReturned ==
  ASSUME TabTypes, PendingCard, Knowledge, CreateReturns
  PROVE  Knowledge'
  <1> SUFFICES ASSUME known' # "nothing" PROVE Knowledge'
    BY KnowledgeLost
  <1>1. /\ known # "nothing" /\ known' = "wallets" /\ user' = user /\ owned' = owned
        /\ creation # None /\ creation.wallet # 0 /\ creation' = None /\ creating' = FALSE
        /\ shown' = WithCreated(Card(creation.token, creation.wallet, TRUE))
        /\ \E c \in Cards : c.id = 0
    BY DEF CreateReturns, EndCreation, authVars, serverVars
  <1>2. PICK p \in DOMAIN shown : shown[p].id = 0
    BY <1>1 DEF Cards
  <1>3. user # None /\ user \in Users /\ creation.token = user /\ creation.wallet = owned[user]
    BY <1>1 DEF Knowledge, TabTypes
  <1>4. owned[user] \in Nat /\ owned[user] # 0
    BY <1>1, <1>3 DEF TabTypes
  <1> DEFINE c == Card(user, owned[user], TRUE)
  <1>5. c \in AnyCard /\ c.owner = user /\ c.id = owned[user]
    BY <1>3, <1>4 DEF Card, AnyCard
  <1>6. /\ DOMAIN shown' = DOMAIN shown
        /\ \A i \in DOMAIN shown : shown'[i] = IF shown[i].id = 0 THEN c ELSE shown[i]
    <2>1. shown' = WithCreated(c) /\ shown \in Seq(AnyCard)
      BY <1>1, <1>3 DEF TabTypes
    <2> HIDE DEF c
    <2> QED
      BY <1>5, <2>1, CardIsReplaced
  <1> HIDE DEF c
  <1>7. Counted(user) = 1..(owned[user] - 1) /\ Counted(user)' = 1..owned[user]
    BY <1>1, <1>3 DEF Counted
  <1>8. /\ \A i \in DOMAIN shown :
             shown[i].id # 0 => shown[i].owner = user /\ shown[i].id \in 1..(owned[user] - 1)
        /\ \A n \in 1..(owned[user] - 1) : \E i \in DOMAIN shown : shown[i].id = n
    BY <1>1, <1>7 DEF Knowledge
  <1>9. \A i \in DOMAIN shown' :
          shown'[i].id # 0 => shown'[i].owner = user /\ shown'[i].id \in 1..owned[user]
    <2> SUFFICES ASSUME NEW i \in DOMAIN shown
                 PROVE  shown'[i].owner = user /\ shown'[i].id \in 1..owned[user]
      BY <1>6
    <2>1. CASE shown[i].id = 0
      BY <1>4, <1>5, <1>6, <2>1
    <2>2. CASE shown[i].id # 0
      BY <1>4, <1>6, <1>8, <2>2
    <2> QED
      BY <2>1, <2>2
  <1>10. \A n \in 1..owned[user] : \E i \in DOMAIN shown' : shown'[i].id = n
    <2> SUFFICES ASSUME NEW n \in 1..owned[user] PROVE \E i \in DOMAIN shown' : shown'[i].id = n
      OBVIOUS
    <2>1. CASE n = owned[user]
      BY <1>2, <1>5, <1>6, <2>1
    <2>2. CASE n # owned[user]
      <3>1. n \in 1..(owned[user] - 1) /\ n # 0
        BY <1>4, <2>2
      <3>2. PICK i \in DOMAIN shown : shown[i].id = n
        BY <1>8, <3>1
      <3> QED
        BY <1>6, <3>1, <3>2
    <2> QED
      BY <2>1, <2>2
  <1> QED
    BY <1>1, <1>3, <1>7, <1>9, <1>10 DEF Knowledge

LEMMA KnowledgeStep ==
  TabInv /\ PendingCard' /\ [SessionNext]_sessionVars => Knowledge'
  <1> SUFFICES ASSUME TabTypes, OneSession, PendingCard, Answers, Knowledge,
                      PendingCard', [SessionNext]_sessionVars
               PROVE  Knowledge'
    BY DEF TabInv
  <1>1. CASE GetMeReturns
    <2>1. CASE known' = "nothing"
      BY <2>1, KnowledgeLost
    <2>2. CASE known' # "nothing"
      BY <1>1, <2>2, KnowledgeKept DEF GetMeReturns, SignedInAs
    <2> QED
      BY <2>1, <2>2
  <1>2. CASE Logout \/ CreateFails
    BY <1>2, KnowledgeLost DEF Logout, CreateFails
  <1>13. ASSUME NEW a \in abandoned, ClearsLate(a) \/ InsertsLate(a) PROVE Knowledge'
    BY <1>13, KnowledgeLost DEF ClearsLate, InsertsLate
  <1>3. ASSUME NEW u \in Users, SubmitSignIn(u) \/ SignInFails(u) PROVE Knowledge'
    BY <1>3, KnowledgeKept DEF SubmitSignIn, SignInFails
  <1>4. ASSUME NEW u \in Users, SignInReturns(u) PROVE Knowledge'
    BY <1>4, KnowledgeLost DEF SignInReturns, SignedInAs
  <1>5. CASE UserEffect \/ Retry \/ CallWallet \/ CallReturns \/ CallFails
    BY <1>5, KnowledgeKept DEF UserEffect, Retry, CallWallet, CallReturns, CallFails, authVars
  <1>6. ASSUME NEW r \in lists, AnswerList(r) \/ ListFails(r) PROVE Knowledge'
    BY <1>6, KnowledgeKept DEF AnswerList, ListFails, authVars
  <1>7. ASSUME NEW r \in lists, Deliver(r) PROVE Knowledge'
    BY <1>7, KnowledgeDelivered
  <1>8. CASE CreateWallet
    BY <1>8, KnowledgePending
  <1>9. CASE ServerClears \/ ServerInserts
    BY <1>9, KnowledgeCleared, KnowledgeCreated
  <1>10. CASE CreateReturns
    BY <1>10, KnowledgeReturned
  <1>11. CASE UNCHANGED sessionVars
    BY <1>11, KnowledgeKept DEF sessionVars, authVars
  <1>12. CASE SessionNext
    BY <1>1, <1>2, <1>3, <1>4, <1>5, <1>6, <1>7, <1>8, <1>9, <1>10, <1>12, <1>13
    DEF SessionNext
  <1> QED
    BY <1>11, <1>12


-----------------------------------------------------------------------------
(* The session, the list on the screen and the cards that come late *)

LEMMA TabInit ==
  ASSUME SessionInit
  PROVE  TabInv
  <1>1. TabTypes
    BY TabTypesInit
  <1>2. OneSession
    BY DEF SessionInit, OneSession
  <1>3. PendingCard
    <2>1. shown = <<>> /\ creating = FALSE /\ creation = None
      BY DEF SessionInit
    <2>2. DOMAIN shown = {}
      BY <2>1
    <2> QED
      BY <2>1, <2>2 DEF PendingCard
  <1>4. Answers
    BY DEF SessionInit, Answers
  <1>5. Knowledge
    BY DEF SessionInit, Knowledge
  <1> QED
    BY <1>1, <1>2, <1>3, <1>4, <1>5 DEF TabInv

LEMMA TabStep ==
  ASSUME TabInv, [SessionNext]_sessionVars
  PROVE  TabInv'
  <1>1. TabTypes /\ PendingCard /\ OneSession /\ Answers
    BY DEF TabInv
  <1>2. TabTypes'
    BY <1>1, TabTypesStep
  <1>3. OneSession'
    BY <1>1, OneSessionStep
  <1>4. PendingCard'
    BY <1>1, PendingCardStep
  <1>5. Answers'
    BY <1>1, <1>4, AnswersStep
  <1>6. Knowledge'
    BY <1>4, KnowledgeStep
  <1> QED
    BY <1>2, <1>3, <1>4, <1>5, <1>6 DEF TabInv

LEMMA TabInvariance ==
  SessionSpec => []TabInv
  <1>1. SessionInit => TabInv
    BY TabInit
  <1>2. TabInv /\ [SessionNext]_sessionVars => TabInv'
    BY TabStep
  <1> QED
    BY <1>1, <1>2, PTL DEF SessionSpec

\* AuthContext and WalletContext: whoever is shown as signed in is the one whose
\* token the requests carry, and a pending card stands on the screen once at most,
\* while its creation is under way.
THEOREM SessionInvariance ==
  SessionSpec => []SessionInv
  <1>1. TabInv => SessionInv
    BY DEF TabInv, OneSession, PendingCard, SessionInv
  <1> QED
    BY <1>1, TabInvariance, PTL

\* What the tab knows makes the list on the screen the server's.
LEMMA KnowledgeIsRight ==
  ASSUME TabInv
  PROVE  ShownMatchesServer
  <1> SUFFICES ASSUME user # None, ~creating, known # "nothing"
               PROVE  /\ known = "everything" => shown = WalletsOf(user)
                      /\ {c.id : c \in Cards} = 1 .. owned[user]
                      /\ \A c \in Cards : c.owner = user
    BY DEF ShownMatchesServer
  <1>1. creation = None /\ \A i \in DOMAIN shown : shown[i].id # 0
    BY DEF TabInv, PendingCard
  <1>2. Counted(user) = 1..owned[user]
    BY <1>1 DEF Counted
  <1>3. /\ \A i \in DOMAIN shown : shown[i].owner = user /\ shown[i].id \in 1..owned[user]
        /\ \A n \in 1..owned[user] : \E i \in DOMAIN shown : shown[i].id = n
        /\ known = "everything" => shown = WalletsOf(user)
    BY <1>1, <1>2 DEF TabInv, Knowledge
  <1>4. \A c \in Cards : c.owner = user /\ c.id \in 1..owned[user]
    BY <1>3 DEF Cards
  <1>5. \A n \in 1..owned[user] : \E c \in Cards : c.id = n
    BY <1>3 DEF Cards
  <1> QED
    BY <1>3, <1>4, <1>5

\* WalletContext: after an answer that tells the truth the list on the screen is the
\* server's list, and stays it through the creations of this tab, until the server
\* takes another step of a creation this tab has given up.
THEOREM ShownMatchesTheServer ==
  SessionSpec => []ShownMatchesServer
  <1>1. TabInv => ShownMatchesServer
    BY KnowledgeIsRight
  <1> QED
    BY <1>1, TabInvariance, PTL

\* A step that adds no card of another user.
LEMMA NoForeignCard ==
  ASSUME user' = user, ~Foreign,
         \A i \in DOMAIN shown' : \/ shown'[i].owner \in {user, None}
                                  \/ \E j \in DOMAIN shown : shown'[i] = shown[j]
  PROVE  ~Foreign'
  <1> SUFFICES ASSUME NEW i \in DOMAIN shown' PROVE shown'[i].owner \in {user, None}
    BY DEF Foreign, Cards
  <1>1. CASE \E j \in DOMAIN shown : shown'[i] = shown[j]
    BY <1>1 DEF Foreign, Cards
  <1> QED
    BY <1>1

\* One step, without the brackets of ForeignCardsComeLate.
ComesLate ==
  Foreign' /\ ~Foreign =>
    \/ user' # user
    \/ \E r \in lists : r \notin lists' /\ r.token # user
    \/ creation # None /\ creation' = None /\ creation.token # user

LEMMA ComesLateDelivered ==
  ASSUME TabInv, NEW r \in lists, Deliver(r)
  PROVE  ComesLate
  <1>1. /\ shown' = r.answer /\ r.answer # None /\ user' = user /\ r \notin lists'
    BY DEF Deliver, authVars
  <1>2. CASE r.token = user
    <2>1. \A i \in DOMAIN shown' : shown'[i].owner \in {user, None}
      BY <1>1, <1>2 DEF TabInv, Answers, AnswerIsOwn
    <2> QED
      BY <1>1, <2>1, NoForeignCard DEF ComesLate
  <1>3. CASE r.token # user
    BY <1>1, <1>3 DEF ComesLate
  <1> QED
    BY <1>2, <1>3

LEMMA ComesLatePending ==
  ASSUME TabInv, CreateWallet
  PROVE  ComesLate
  <1>1. user' = user /\ shown' = Append(shown, Pending(shown = <<>>)) /\ shown \in Seq(AnyCard)
    BY DEF CreateWallet, authVars, TabInv, TabTypes
  <1>2. Pending(shown = <<>>).owner = None
    BY DEF Pending, Card
  <1> DEFINE p == Pending(shown = <<>>)
  <1>3. p.owner = None /\ shown' = Append(shown, p)
    BY <1>1, <1>2
  <1> HIDE DEF p
  <1>4. ASSUME NEW i \in DOMAIN shown'
        PROVE  \/ shown'[i].owner \in {user, None}
               \/ \E j \in DOMAIN shown : shown'[i] = shown[j]
    <2>1. i \in 1..(Len(shown) + 1) /\ Len(shown) \in Nat /\ DOMAIN shown = 1..Len(shown)
      BY <1>1, <1>3, <1>4
    <2>2. CASE i = Len(shown) + 1
      BY <1>1, <1>3, <2>2
    <2>3. CASE i # Len(shown) + 1
      <3>1. i \in DOMAIN shown /\ shown'[i] = shown[i]
        BY <1>1, <1>3, <2>1, <2>3
      <3> QED
        BY <3>1
    <2> QED
      BY <2>2, <2>3
  <1> QED
    BY <1>1, <1>4, NoForeignCard DEF ComesLate

LEMMA ComesLateReturned ==
  ASSUME TabInv, CreateReturns
  PROVE  ComesLate
  <1>1. /\ user' = user /\ shown \in Seq(AnyCard)
        /\ creation # None /\ creation \in Creation /\ creation' = None
        /\ shown' = WithCreated(Card(creation.token, creation.wallet, TRUE))
    BY DEF CreateReturns, EndCreation, authVars, TabInv, TabTypes
  <1> DEFINE c == Card(creation.token, creation.wallet, TRUE)
  <1>2. c \in AnyCard /\ c.owner = creation.token
    BY <1>1 DEF Card, AnyCard, Creation
  <1>3. shown' = WithCreated(c)
    BY <1>1
  <1> HIDE DEF c
  <1>4. /\ DOMAIN shown' = DOMAIN shown
        /\ \A i \in DOMAIN shown : shown'[i] = IF shown[i].id = 0 THEN c ELSE shown[i]
    BY <1>1, <1>2, <1>3, CardIsReplaced
  <1>5. CASE creation.token = user
    <2>1. \A i \in DOMAIN shown' : \/ shown'[i].owner \in {user, None}
                                   \/ \E j \in DOMAIN shown : shown'[i] = shown[j]
      BY <1>2, <1>4, <1>5
    <2> QED
      BY <1>1, <2>1, NoForeignCard DEF ComesLate
  <1>6. CASE creation.token # user
    BY <1>1, <1>6 DEF ComesLate
  <1> QED
    BY <1>5, <1>6

LEMMA ComesLateFailed ==
  ASSUME TabInv, CreateFails
  PROVE  ComesLate
  <1>1. /\ user' = user /\ shown \in Seq(AnyCard)
        /\ shown' = RemoveFirstMatch(shown, LAMBDA c : c.id = 0)
    BY DEF CreateFails, authVars, TabInv, TabTypes
  <1>2. \A i, j \in DOMAIN shown : shown[i].id = 0 /\ shown[j].id = 0 => i = j
    BY DEF TabInv, PendingCard
  <1>3. \A i \in DOMAIN shown' : \E j \in DOMAIN shown : shown'[i] = shown[j]
    BY <1>1, <1>2, CardIsRemoved
  <1> QED
    BY <1>1, <1>3, NoForeignCard DEF ComesLate

LEMMA ComesLateStep ==
  TabInv /\ [SessionNext]_sessionVars => [ComesLate]_<<shown, user>>
  <1> SUFFICES ASSUME TabInv, [SessionNext]_sessionVars, ~(UNCHANGED <<shown, user>>)
               PROVE  ComesLate
    OBVIOUS
  <1>1. CASE UNCHANGED sessionVars
    BY <1>1 DEF sessionVars, authVars
  <1>2. CASE SessionNext
    <2>1. CASE GetMeReturns \/ Logout
      <3>1. CASE user' = user
        BY <2>1, <3>1 DEF GetMeReturns, Logout, ComesLate
      <3>2. CASE user' # user
        BY <3>2 DEF ComesLate
      <3> QED
        BY <3>1, <3>2
    <2>2. ASSUME NEW u \in Users, SubmitSignIn(u) \/ SignInReturns(u) \/ SignInFails(u)
          PROVE  ComesLate
      <3>1. shown' = shown
        BY <2>2 DEF SubmitSignIn, SignInReturns, SignInFails
      <3> QED
        BY <3>1 DEF ComesLate
    <2>3. CASE \/ UserEffect \/ Retry \/ CallWallet \/ CallReturns \/ CallFails
               \/ ServerClears \/ ServerInserts
      BY <2>3 DEF UserEffect, Retry, CallWallet, CallReturns, CallFails, ServerClears,
                  ServerInserts, authVars
    <2>6. ASSUME NEW a \in abandoned, ClearsLate(a) \/ InsertsLate(a)
          PROVE  ComesLate
      BY <2>6 DEF ClearsLate, InsertsLate, authVars
    <2>4. ASSUME NEW r \in lists, AnswerList(r) \/ ListFails(r)
          PROVE  ComesLate
      BY <2>4 DEF AnswerList, ListFails, authVars
    <2>5. ASSUME NEW r \in lists, Deliver(r)
          PROVE  ComesLate
      BY <2>5, ComesLateDelivered
    <2> QED
      BY <1>2, <2>1, <2>2, <2>3, <2>4, <2>5, <2>6, ComesLatePending, ComesLateReturned,
         ComesLateFailed
      DEF SessionNext
  <1> QED
    BY <1>1, <1>2

\* WalletContext and client.ts: a card of somebody else comes onto the screen only
\* when the user changes or by an answer that was asked for with another token.
THEOREM ForeignCardsAreLate ==
  SessionSpec => ForeignCardsComeLate
  <1>1. TabInv /\ [SessionNext]_sessionVars => [ComesLate]_<<shown, user>>
    BY ComesLateStep
  <1> QED
    BY <1>1, TabInvariance, PTL DEF SessionSpec, ForeignCardsComeLate, ComesLate
==============================================================================
