--------------------------- MODULE ClientsProofs ---------------------------
(***************************************************************************)
(* The proofs about Clients, for every set of vaults and amounts, whatever *)
(* the wallet holds and has approved at the start, and every bound.        *)
(*                                                                         *)
(* ClientsInv is inductive.  The set of calls changes in six ways: one     *)
(* call moves on, one goes, one comes, one is answered and leaves its      *)
(* transaction behind, all of a page are unmounted, or those under way are *)
(* raced by a transaction.  A lemma for each way says what it owes to      *)
(* every part of the invariant, so that an action is looked at only for    *)
(* the call it is about.                                                   *)
(***************************************************************************)
EXTENDS Clients, Sums, TLAPS

USE VaultsAssumption, AmountsAssumption

-----------------------------------------------------------------------------
(* What may still be added to the allowance *)

LEMMA ToApproveType ==
  ASSUME NEW S, \A c \in S : CallType(c)
  PROVE  \A c \in S : ToApprove(c) \in Nat
BY DEF CallType, ToApprove

\* ToApproveOf is a sum in the sense of Sums.
LEMMA ToApproveIsTotal ==
  ASSUME NEW S, NEW T, S \subseteq T, IsFiniteSet(S)
  PROVE  ToApproveOf(S) = Total([c \in T |-> ToApprove(c)], S)
<1> DEFINE num == [c \in S |-> ToApprove(c)]
           mun == [c \in T |-> ToApprove(c)]
<1>1. ToApproveOf(S) = Total(num, S)
  BY DEF ToApproveOf, Total
<1>2. \A c \in S : num[c] = mun[c]
  OBVIOUS
<1> HIDE DEF num, mun
<1>3. Total(num, S) = Total(mun, S)
  BY <1>2, TotalEqual
<1> QED
  BY <1>1, <1>3 DEF mun

\* Fewer calls have less to add.
LEMMA ToApproveOfFewer ==
  ASSUME NEW T, NEW S \in SUBSET T, IsFiniteSet(T), \A c \in T : CallType(c)
  PROVE  /\ IsFiniteSet(S)
         /\ ToApproveOf(S) \in Nat /\ ToApproveOf(T) \in Nat
         /\ ToApproveOf(S) <= ToApproveOf(T)
<1> DEFINE num == [c \in T |-> ToApprove(c)]
<1>1. \A c \in T : num[c] \in Nat
  BY ToApproveType
<1>2. IsFiniteSet(S)
  BY FS_Subset
<1>3. ToApproveOf(S) = Total(num, S) /\ ToApproveOf(T) = Total(num, T)
  BY <1>2, ToApproveIsTotal
<1> HIDE DEF num
<1>4. Total(num, T) \in Nat /\ Total(num, S) \in Nat /\ Total(num, S) <= Total(num, T)
  BY <1>1, TotalOfNaturals
<1> QED
  BY <1>2, <1>3, <1>4

\* A call goes with what it had to add, ...
LEMMA ToApproveOfOthers ==
  ASSUME NEW S, IsFiniteSet(S), \A c \in S : CallType(c), NEW c \in S
  PROVE  ToApproveOf(S \ {c}) = ToApproveOf(S) - ToApprove(c)
<1> DEFINE num == [d \in S |-> ToApprove(d)]
<1>1. \A d \in S : num[d] \in Nat
  BY ToApproveType
<1>2. IsFiniteSet(S \ {c})
  BY FS_Subset
<1>3. ToApproveOf(S \ {c}) = Total(num, S \ {c}) /\ ToApproveOf(S) = Total(num, S)
  BY <1>2, ToApproveIsTotal
<1>4. num[c] = ToApprove(c)
  OBVIOUS
<1> HIDE DEF num
<1>5. Total(num, S) = num[c] + Total(num, S \ {c})
  BY <1>1, TotalRemove
<1>6. Total(num, S \ {c}) \in Nat
  BY <1>1, TotalOfNaturals
<1> QED
  BY <1>1, <1>3, <1>4, <1>5, <1>6

\* ... and comes with what it has to add, ...
LEMMA ToApproveOfMore ==
  ASSUME NEW S, IsFiniteSet(S), \A c \in S : CallType(c), NEW d, CallType(d)
  PROVE  /\ IsFiniteSet(S \cup {d})
         /\ ToApproveOf(S \cup {d}) \in Nat
         /\ ToApproveOf(S \cup {d}) <= ToApproveOf(S) + ToApprove(d)
<1> DEFINE T == S \cup {d}
           num == [c \in T |-> ToApprove(c)]
<1>1. IsFiniteSet(T)
  BY FS_AddElement
<1>2. \A c \in T : CallType(c)
  OBVIOUS
<1>3. \A c \in T : num[c] \in Nat
  BY <1>2, ToApproveType
<1>4. ToApproveOf(S) = Total(num, S) /\ ToApproveOf(T) = Total(num, T)
  BY <1>1, ToApproveIsTotal
<1>5. num[d] = ToApprove(d) /\ d \in T /\ S \in SUBSET T
  OBVIOUS
<1>6. Total(num, T) \in Nat /\ Total(num, S) \in Nat
  <2> HIDE DEF num, T
  <2> QED
    BY <1>1, <1>3, <1>5, TotalOfNaturals
<1>7. Total(num, T) <= num[d] + Total(num, S)
  <2>1. CASE d \in S
    <3>1. T = S
      BY <2>1
    <3>2. num[d] \in Nat
      BY <1>3, <1>5
    <3> HIDE DEF num, T
    <3> QED
      BY <1>6, <3>1, <3>2
  <2>2. CASE d \notin S
    <3> HIDE DEF num
    <3>1. \A c \in S \cup {d} : num[c] \in Int
      BY <1>3
    <3>2. Total(num, S \cup {d}) = num[d] + Total(num, S)
      BY <2>2, <3>1, TotalAdd
    <3>3. num[d] \in Nat
      BY <1>3
    <3> QED
      BY <1>6, <3>2, <3>3
  <2> QED
    BY <2>1, <2>2
<1> HIDE DEF num
<1>8. ToApproveOf(T) \in Nat /\ ToApproveOf(T) <= ToApproveOf(S) + ToApprove(d)
  <2> HIDE DEF T
  <2>1. Total(num, T) <= ToApprove(d) + Total(num, S) /\ ToApprove(d) \in Nat
    BY <1>3, <1>5, <1>7
  <2> QED
    BY <1>4, <1>6, <2>1
<1> QED
  BY <1>1, <1>8

\* ... and a change of all calls that leaves it to each adds nothing.
LEMMA ToApproveOfChanged ==
  ASSUME NEW S, IsFiniteSet(S), NEW f, \A c \in S : CallType(c) /\ CallType(f[c]),
         \A c \in S : ToApprove(f[c]) = ToApprove(c)
  PROVE  /\ IsFiniteSet({f[c] : c \in S})
         /\ ToApproveOf({f[c] : c \in S}) <= ToApproveOf(S)
<1> DEFINE T == {f[c] : c \in S}
           num == [c \in S |-> ToApprove(c)]
           mun == [c \in T |-> ToApprove(c)]
<1>1. \A c \in S : num[c] \in Nat /\ mun[f[c]] = num[c]
  BY ToApproveType
<1>2. \A c \in S : num[c] \in Nat /\ mun[f[c]] \in Nat /\ mun[f[c]] <= num[c]
  <2> HIDE DEF num, mun
  <2> QED
    BY <1>1
<1>3. IsFiniteSet(T) /\ Total(mun, T) <= Total(num, S)
  <2> HIDE DEF num, mun
  <2> QED
    BY <1>2, TotalOfImage
<1>4. ToApproveOf(T) = Total(mun, T) /\ ToApproveOf(S) = Total(num, S)
  <2> HIDE DEF T
  <2> QED
    BY <1>3, ToApproveIsTotal
<1> QED
  BY <1>3, <1>4

-----------------------------------------------------------------------------
(* What becomes of a call *)

Results == {None, "refused", "failed", "approve", "deposit", "success", "reverted",
            "outOfGas", "CONFIRMED", "REVERTED"}

\* d is what has become of c.
Heir(d, c) ==
  /\ CallType(d)
  /\ d.kind = c.kind /\ d.by = c.by /\ d.vault = c.vault /\ d.amount = c.amount
  /\ d.live => c.live

\* It has not moved on, but it may have been raced or unmounted.
Aged(d, c) ==
  /\ Heir(d, c)
  /\ d.pc = c.pc /\ d.result = c.result /\ d.read = c.read
  /\ c.raced => d.raced

OneScriptCall(S) == \A c, d \in S : c.by = "script" /\ d.by = "script" => c = d

LEMMA SelfHeir ==
  ASSUME NEW c, CallType(c)
  PROVE  Aged(c, c)
BY DEF Aged, Heir

\* A call that has not moved on knows what it knew.
LEMMA AgedKnows ==
  ASSUME NEW c, NEW d, Aged(d, c), CallKnown(c)
  PROVE  CallKnown(d)
BY DEF Aged, Heir, CallKnown

LEMMA AgedChecks ==
  ASSUME NEW c, CallType(c), NEW d, Aged(d, c), ChecksHold(c)
  PROVE  /\ ChecksHold(d)
         /\ UNCHANGED <<balance, allowance, supplied>> => ChecksHold(d)'
<1>1. CallType(d) /\ (d.raced = TRUE \/ (d.raced = FALSE /\ c.raced = FALSE))
  BY DEF Aged, Heir, CallType
<1>2. ChecksHold(d)
  BY <1>1 DEF Aged, Heir, ChecksHold
<1>3. ASSUME UNCHANGED <<balance, allowance, supplied>>
      PROVE  ChecksHold(d)'
  BY <1>2, <1>3 DEF ChecksHold
<1> QED
  BY <1>2, <1>3

LEMMA AgedToApprove ==
  ASSUME NEW c, NEW d, Aged(d, c)
  PROVE  ToApprove(d) = ToApprove(c)
BY DEF Aged, Heir, ToApprove

\* As long as the form keeps its step, heirs of the calls leave it its amount; ...
LEMMA HeirsLeaveFlow ==
  ASSUME FlowHasAmount, flow'.step = flow.step, flow'.amount = flow.amount,
         \A d \in calls' : \E c \in calls : Heir(d, c)
  PROVE  FlowHasAmount'
<1> SUFFICES ASSUME NEW d \in calls', d.by = "tab", d.kind = "approve", d.live
             PROVE  flow.amount > 0
  BY DEF FlowHasAmount
<1>1. PICK c \in calls : Heir(d, c)
  OBVIOUS
<1> QED
  BY <1>1 DEF FlowHasAmount, Heir

\* ... and as long as the page stays, they are loads of it.
LEMMA HeirsLeavePage ==
  ASSUME LoadsOfPage, UNCHANGED <<url, page>>, \A d \in calls' : \E c \in calls : Heir(d, c)
  PROVE  LoadsOfPage'
<1>1. ASSUME NEW d \in calls'
      PROVE  /\ d.kind = "vaults" => OnVaultsPage(url) /\ d.vault = VaultInUrl
             /\ d.kind = "positions" => ~OnVaultsPage(url)
  <2>1. PICK c \in calls : Heir(d, c)
    BY <1>1
  <2> QED
    BY <2>1 DEF LoadsOfPage, Heir
<1>2. VaultInUrl' = VaultInUrl
  BY DEF VaultInUrl
<1> QED
  BY <1>1, <1>2 DEF LoadsOfPage

\* The script's call is what the script waits for.
LEMMA HeirsLeaveScript ==
  ASSUME ScriptKnows, script' = script, confirmed \subseteq confirmed', OneScriptCall(calls'),
         \A d \in calls' :
           \/ \E c \in calls : Aged(d, c)
           \/ /\ \E c \in calls : Heir(d, c)
              /\ d.by = "script" /\ d.pc = "answered" /\ d.result = "CONFIRMED"
                   /\ d.kind \in {"deposit", "withdraw"} => d.kind \in confirmed'
  PROVE  ScriptKnows'
<1>1. ASSUME NEW d \in calls', d.by = "script"
      PROVE  /\ d.kind = script
             /\ d.pc = "answered" /\ d.result = "CONFIRMED" /\ d.kind \in {"deposit", "withdraw"}
                  => d.kind \in confirmed'
  <2>1. ASSUME NEW c \in calls, Aged(d, c)
        PROVE  /\ d.kind = script
               /\ d.pc = "answered" /\ d.result = "CONFIRMED" /\ d.kind \in {"deposit", "withdraw"}
                    => d.kind \in confirmed'
    <3>1. c \in ScriptCalls
      BY <1>1, <2>1 DEF Aged, Heir, ScriptCalls
    <3> QED
      BY <2>1, <3>1 DEF ScriptKnows, Aged, Heir
  <2>2. ASSUME NEW c \in calls, Heir(d, c)
        PROVE  d.kind = script
    <3>1. c \in ScriptCalls
      BY <1>1, <2>2 DEF Heir, ScriptCalls
    <3> QED
      BY <2>2, <3>1 DEF ScriptKnows, Heir
  <2> QED
    BY <1>1, <2>1, <2>2
<1>2. \A c, d \in ScriptCalls' : c = d
  BY DEF ScriptCalls, OneScriptCall
<1>3. \A c \in ScriptCalls' :
        /\ c.kind = script
        /\ c.pc = "answered" /\ c.result = "CONFIRMED" /\ c.kind \in {"deposit", "withdraw"}
             => c.kind \in confirmed'
  BY <1>1 DEF ScriptCalls
<1> QED
  BY <1>2, <1>3 DEF ScriptKnows

-----------------------------------------------------------------------------
(* The server *)

LEMMA OthersOfOne ==
  ASSUME TypeOK, NEW c \in calls
  PROVE  /\ IsFiniteSet(calls \ {c}) /\ \A e \in calls \ {c} : CallType(e)
         /\ ToApproveOf(calls \ {c}) = ToApproveOf(calls) - ToApprove(c)
         /\ {ToApprove(c), ToApproveOf(calls), ToApproveOf(calls \ {c})} \subseteq Nat
<1>1. IsFiniteSet(calls) /\ \A e \in calls : CallType(e)
  BY DEF TypeOK
<1>2. ToApproveOf(calls \ {c}) = ToApproveOf(calls) - ToApprove(c)
  BY <1>1, ToApproveOfOthers
<1>3. /\ IsFiniteSet(calls \ {c}) /\ ToApproveOf(calls \ {c}) \in Nat
      /\ ToApproveOf(calls) \in Nat
  <2>1. calls \ {c} \in SUBSET calls
    OBVIOUS
  <2> QED
    BY <1>1, <2>1, ToApproveOfFewer
<1>4. ToApprove(c) \in Nat
  BY <1>1, ToApproveType
<1> QED
  BY <1>1, <1>2, <1>3, <1>4

\* A call moves on to d, or goes.
LEMMA OneCallMoves ==
  ASSUME TypeOK, NEW c \in calls, NEW d, Heir(d, c), ToApprove(d) <= ToApprove(c),
         calls' = calls \ {c} \/ calls' = (calls \ {c}) \cup {d}
  PROVE  /\ IsFiniteSet(calls') /\ \A e \in calls' : CallType(e)
         /\ ToApproveOf(calls') \in Nat /\ ToApproveOf(calls') <= ToApproveOf(calls)
         /\ ToApproveOf(calls) \in Nat
         /\ OneScriptCall(calls) => OneScriptCall(calls')
         /\ \A e \in calls' : e = d \/ (e \in calls /\ Aged(e, e))
<1>1. \A e \in calls : CallType(e) /\ Aged(e, e)
  BY SelfHeir DEF TypeOK
<1>2. CallType(d) /\ ToApprove(d) \in Nat
  <2>1. CallType(d)
    BY DEF Heir
  <2> QED
    BY <2>1 DEF CallType, ToApprove
<1>3. /\ IsFiniteSet(calls \ {c})
      /\ ToApproveOf(calls \ {c}) = ToApproveOf(calls) - ToApprove(c)
      /\ {ToApprove(c), ToApproveOf(calls), ToApproveOf(calls \ {c})} \subseteq Nat
  BY OthersOfOne
<1>4. OneScriptCall(calls) => OneScriptCall(calls')
  BY DEF OneScriptCall, Heir
<1>5. CASE calls' = calls \ {c}
  <2>1. ToApproveOf(calls') <= ToApproveOf(calls)
    BY <1>3, <1>5
  <2> QED
    BY <1>1, <1>3, <1>4, <1>5, <2>1
<1>6. CASE calls' = (calls \ {c}) \cup {d}
  <2>1. /\ IsFiniteSet(calls') /\ ToApproveOf(calls') \in Nat
        /\ ToApproveOf(calls') <= ToApproveOf(calls \ {c}) + ToApprove(d)
    <3>1. \A e \in calls \ {c} : CallType(e)
      BY <1>1
    <3> QED
      BY <1>2, <1>3, <1>6, <3>1, ToApproveOfMore
  <2>2. ToApproveOf(calls') <= ToApproveOf(calls)
    BY <1>2, <1>3, <2>1
  <2> QED
    BY <1>1, <1>2, <1>3, <1>4, <1>6, <2>1, <2>2
<1> QED
  BY <1>5, <1>6

\* What the server does for one call, the tab and the chain being left alone.
LEMMA ServerStep ==
  ASSUME ClientsInv, NEW c \in calls, NEW d, Heir(d, c), CallKnown(d), ChecksHold(d),
         calls' = calls \ {c} \/ calls' = (calls \ {c}) \cup {d},
         ToApprove(d) <= ToApprove(c),
         UNCHANGED <<tabVars, script, chainVars>>,
         rows' \in Nat, faults' \in Nat, position' \in Position, position'.shares >= 0,
         confirmed \subseteq confirmed', confirmed' \subseteq Mutations,
         d.by = "script" /\ d.pc = "answered" /\ d.result = "CONFIRMED"
           /\ d.kind \in {"deposit", "withdraw"} => d.kind \in confirmed'
  PROVE  ClientsInv'
<1> USE DEF tabVars, chainVars
<1>1. /\ IsFiniteSet(calls') /\ \A e \in calls' : CallType(e)
      /\ ToApproveOf(calls') \in Nat /\ ToApproveOf(calls') <= ToApproveOf(calls)
      /\ ToApproveOf(calls) \in Nat
      /\ OneScriptCall(calls')
      /\ \A e \in calls' : e = d \/ (e \in calls /\ Aged(e, e))
  <2>1. OneScriptCall(calls)
    BY DEF ClientsInv, ScriptKnows, OneScriptCall, ScriptCalls
  <2> QED
    BY <2>1, OneCallMoves DEF ClientsInv
<1>2. TypeOK'
  <2>1. TypeOK
    BY DEF ClientsInv
  <2>2. PageData' = PageData
    BY DEF PageData
  <2> QED
    BY <1>1, <2>1, <2>2 DEF TypeOK
<1>3. \A e \in calls' : CallKnown(e) /\ ChecksHold(e)'
  <2>1. \A e \in calls' : CallKnown(e) /\ ChecksHold(e)
    BY <1>1 DEF ClientsInv
  <2> QED
    BY <2>1 DEF ChecksHold
<1>4. \A e \in calls' : \E b \in calls : Heir(e, b)
  BY <1>1 DEF Aged
<1>5. FlowHasAmount'
  BY <1>4, HeirsLeaveFlow DEF ClientsInv
<1>6. LoadsOfPage'
  BY <1>4, HeirsLeavePage DEF ClientsInv
<1>7. ScriptKnows'
  BY <1>1, HeirsLeaveScript DEF ClientsInv
<1>8. WithinApproval'
  <2>1. /\ allowance \in Nat /\ unspent \in Int /\ resent \in Nat
        /\ unspent + resent >= allowance + ToApproveOf(calls)
    BY DEF ClientsInv, TypeOK, WithinApproval
  <2>2. unspent' + resent' >= allowance' + ToApproveOf(calls')
    BY <1>1, <2>1
  <2> QED
    BY <2>2 DEF WithinApproval
<1> QED
  BY <1>2, <1>3, <1>5, <1>6, <1>7, <1>8 DEF ClientsInv, CallKnown

LEMMA AnsweredHeir ==
  ASSUME NEW c, CallType(c), NEW result \in Results
  PROVE  LET d == [c EXCEPT !.pc = "answered", !.result = result, !.isNew = FALSE,
                            !.read = NoPosition, !.raced = FALSE]
         IN  Heir(d, c) /\ d.pc = "answered" /\ d.result = result /\ d.read.shares = 0
<1> DEFINE d == [c EXCEPT !.pc = "answered", !.result = result, !.isNew = FALSE,
                          !.read = NoPosition, !.raced = FALSE]
<1>1. /\ d.id = c.id /\ d.kind = c.kind /\ d.by = c.by /\ d.vault = c.vault
      /\ d.amount = c.amount /\ d.live = c.live
      /\ d.pc = "answered" /\ d.result = result /\ d.read = NoPosition
  BY DEF CallType
<1>2. NoPosition \in Position /\ NoPosition.shares = 0
  BY DEF NoPosition, Position, PositionStatus
<1>3. CallType(d)
  <2>1. d \in [id : {c.id}, kind : Kinds, by : {"tab", "script", "provider"},
               vault : Vaults \cup {None}, amount : Nat,
               pc : {"sent", "checked", "open", "pending", "stray", "mined", "answered"},
               result : Results,
               isNew : BOOLEAN, read : Position, awaited : BOOLEAN, live : BOOLEAN,
               raced : BOOLEAN]
    BY <1>2 DEF CallType, Results
  <2> HIDE DEF d
  <2> QED
    BY <1>1, <2>1 DEF CallType, Results
<1> HIDE DEF d
<1>4. Heir(d, c) /\ d.pc = "answered" /\ d.result = result /\ d.read.shares = 0
  BY <1>1, <1>2, <1>3 DEF Heir
<1> QED
  BY <1>4 DEF d

\* An answer knows nothing any more that could become wrong.
LEMMA AnsweredStep ==
  ASSUME ClientsInv, NEW c \in calls, NEW result \in Results, Answered(c, result),
         c.kind = "preview" => result \in {"refused", "approve", "deposit"},
         UNCHANGED <<tabVars, script, chainVars>>,
         rows' \in Nat, faults' \in Nat, position' \in Position, position'.shares >= 0,
         confirmed \subseteq confirmed', confirmed' \subseteq Mutations,
         c.by = "script" /\ result = "CONFIRMED" /\ c.kind \in {"deposit", "withdraw"}
           => c.kind \in confirmed'
  PROVE  ClientsInv'
<1> DEFINE d == [c EXCEPT !.pc = "answered", !.result = result, !.isNew = FALSE,
                          !.read = NoPosition, !.raced = FALSE]
<1>1. CallType(c) /\ CallKnown(c)
  BY DEF ClientsInv, TypeOK
<1>2. Heir(d, c) /\ d.pc = "answered" /\ d.result = result /\ d.read.shares = 0
  BY <1>1, AnsweredHeir
<1>3. calls' = calls \ {c} \/ calls' = (calls \ {c}) \cup {d}
  BY DEF Answered, Answer
<1> HIDE DEF d
<1>4. CallKnown(d)
  BY <1>1, <1>2 DEF CallKnown, Heir
<1>5. ChecksHold(d)
  BY <1>2 DEF ChecksHold, Underway
<1>6. ToApprove(d) <= ToApprove(c)
  BY <1>1, <1>2 DEF ToApprove, CallType
<1>7. d.by = "script" /\ d.pc = "answered" /\ d.result = "CONFIRMED"
        /\ d.kind \in {"deposit", "withdraw"} => d.kind \in confirmed'
  BY <1>2 DEF Heir
<1> QED
  BY <1>2, <1>3, <1>4, <1>5, <1>6, <1>7, ServerStep

\* The writes to the position keep it a position of at least 0 shares.
LEMMA PositionWrites ==
  ASSUME NEW p \in Position, p.shares >= 0
  PROVE  /\ \A q \in {CreatePending, MarkWithdrawing(p), MarkActive(p), MarkPositionFailed(p)} :
              q \in Position /\ q.shares >= 0
         /\ \A n \in Nat : \A q \in {Activate(p, n, n), AddDeposit(p, n, n)} :
              q \in Position /\ q.shares >= 0
         /\ \A read \in Position : LET q == SubtractWithdraw(p, read.current, read.shares)
                                   IN  q \in Position /\ q.shares >= 0
<1> USE DEF Position, PositionStatus, NoPosition
<1>1. ASSUME NEW status \in {"ACTIVE", "WITHDRAWING", "FAILED"}
      PROVE  [p EXCEPT !.status = status] \in Position
             /\ [p EXCEPT !.status = status].shares >= 0
  OBVIOUS
<1>2. CreatePending \in Position /\ CreatePending.shares >= 0
  BY DEF CreatePending
<1>3. ASSUME NEW n \in Nat, NEW q \in {Activate(p, n, n), AddDeposit(p, n, n)}
      PROVE  q \in Position /\ q.shares >= 0
  BY <1>3 DEF Activate, AddDeposit
<1>4. ASSUME NEW read \in Position
      PROVE  /\ SubtractWithdraw(p, read.current, read.shares) \in Position
             /\ SubtractWithdraw(p, read.current, read.shares).shares >= 0
  <2>1. CASE p.shares - read.shares <= 0
    BY <2>1 DEF SubtractWithdraw
  <2>2. CASE ~(p.shares - read.shares <= 0)
    BY <2>2 DEF SubtractWithdraw
  <2> QED
    BY <2>1, <2>2
<1> QED
  BY <1>1, <1>2, <1>3, <1>4 DEF MarkWithdrawing, MarkActive, MarkPositionFailed

LEMMA GivenBackType ==
  ASSUME TypeOK, NEW c
  PROVE  GivenBack(c) \in Position /\ GivenBack(c).shares >= 0
BY PositionWrites DEF TypeOK, GivenBack

LEMMA BookedType ==
  ASSUME TypeOK, NEW c, CallType(c), c.kind \in Mutations
  PROVE  Booked(c) \in Position /\ Booked(c).shares >= 0
<1>1. c.amount \in Nat /\ c.read \in Position
  BY DEF CallType
<1> QED
  BY <1>1, PositionWrites DEF TypeOK, Booked, Mutations

\* What the parts of the invariant say of the rest.
LEMMA Known ==
  ASSUME ClientsInv
  PROVE  /\ TypeOK
         /\ \A c \in calls : CallType(c) /\ CallKnown(c) /\ ChecksHold(c)
         /\ rows \in Nat /\ faults \in Nat /\ confirmed \subseteq Mutations
         /\ position \in Position /\ position.shares >= 0
         /\ balance \in Nat /\ allowance \in Nat /\ supplied \in Nat /\ unspent \in Int
         /\ resent \in Nat
BY DEF ClientsInv, TypeOK

\* A call that is neither sent nor answered is a mutation.
LEMMA UnderwayIsMutation ==
  ASSUME ClientsInv, NEW c \in calls, c.pc \notin {"sent", "answered"}
  PROVE  c.kind \in Mutations
BY Known DEF CallKnown

LEMMA AnswerPreviewStep ==
  ASSUME ClientsInv, NEW c \in calls, AnswerPreview(c)
  PROVE  ClientsInv'
<1>1. PICK result \in {"refused", "approve", "deposit"} : Answered(c, result)
  BY DEF AnswerPreview
<1>2. c.kind = "preview" /\ UNCHANGED <<tabVars, script, chainVars, rows, position, confirmed, faults>>
  BY DEF AnswerPreview, dbVars
<1> QED
  BY <1>1, <1>2, Known, AnsweredStep DEF Results

LEMMA AnswerPositionsStep ==
  ASSUME ClientsInv, NEW c \in calls, AnswerPositions(c)
  PROVE  ClientsInv'
<1> DEFINE d == [c EXCEPT !.pc = "answered", !.read = position]
<1>1. /\ c.kind = "positions" /\ calls' = (calls \ {c}) \cup {d}
      /\ UNCHANGED <<tabVars, script, chainVars, rows, position, confirmed, faults>>
  BY DEF AnswerPositions, Change, dbVars
<1>2. CallType(c) /\ CallKnown(c) /\ ChecksHold(c) /\ position \in Position /\ position.shares >= 0
  BY Known
<1>3. /\ d.kind = c.kind /\ d.by = c.by /\ d.vault = c.vault /\ d.amount = c.amount
      /\ d.live = c.live /\ d.pc = "answered" /\ d.read = position /\ d.id = c.id
  BY <1>2 DEF CallType
<1>4. CallType(d)
  BY <1>2, <1>3 DEF CallType
<1> HIDE DEF d
<1>5. Heir(d, c) /\ CallKnown(d) /\ ChecksHold(d) /\ ToApprove(d) <= ToApprove(c)
  BY <1>1, <1>2, <1>3, <1>4 DEF Heir, CallKnown, ChecksHold, Underway, ToApprove, Mutations
<1>6. d.kind \notin {"deposit", "withdraw"}
  BY <1>1, <1>3
<1> QED
  BY <1>1, <1>5, <1>6, Known, ServerStep

LEMMA RefuseStep ==
  ASSUME ClientsInv, NEW c \in calls, Refuse(c)
  PROVE  ClientsInv'
<1>1. /\ Answered(c, "refused")
      /\ UNCHANGED <<tabVars, script, chainVars, rows, position, confirmed>>
  BY DEF Refuse, dbVars
<1>2. faults' \in Nat
  BY Known DEF Refuse, Fault
<1> QED
  BY <1>1, <1>2, Known, AnsweredStep DEF Results

\* A call whose row is inserted.
LEMMA InsertedStep ==
  ASSUME ClientsInv, NEW c \in calls, NEW isNew \in BOOLEAN, Inserted(c, isNew),
         \/ c.pc = "sent" /\ c.kind = "approve"
         \/ c.pc = "checked" /\ c.kind \in {"deposit", "withdraw"},
         UNCHANGED <<tabVars, script, chainVars, confirmed, faults>>,
         position' \in Position, position'.shares >= 0
  PROVE  ClientsInv'
<1> DEFINE d == [c EXCEPT !.pc = "open", !.isNew = isNew]
<1>1. calls' = (calls \ {c}) \cup {d} /\ rows' = rows + 1
  BY DEF Inserted, Change
<1>2. CallType(c) /\ CallKnown(c) /\ ChecksHold(c)
  BY Known
<1>3. /\ d.kind = c.kind /\ d.by = c.by /\ d.vault = c.vault /\ d.amount = c.amount
      /\ d.live = c.live /\ d.raced = c.raced /\ d.pc = "open" /\ d.read = c.read /\ d.id = c.id
      /\ CallType(d)
  BY <1>2 DEF CallType
<1> HIDE DEF d
<1>4. Heir(d, c) /\ CallKnown(d)
  BY <1>2, <1>3 DEF Heir, CallKnown, Mutations
<1>5. ChecksHold(d)
  BY <1>2, <1>3 DEF ChecksHold, Underway
<1>6. ToApprove(d) <= ToApprove(c)
  BY <1>2, <1>3 DEF ToApprove, CallType
<1> QED
  BY <1>1, <1>3, <1>4, <1>5, <1>6, Known, ServerStep

LEMMA ApproveRowStep ==
  ASSUME ClientsInv, NEW c \in calls, ApproveRow(c)
  PROVE  ClientsInv'
<1>1. /\ c.kind = "approve" /\ c.pc = "sent"
      /\ UNCHANGED <<tabVars, script, position, confirmed, chainVars, faults>>
  BY DEF ApproveRow
<1>2. CASE Inserted(c, FALSE)
  <2>1. position' \in Position /\ position'.shares >= 0
    BY <1>1, Known
  <2>2. UNCHANGED <<tabVars, script, chainVars, confirmed, faults>>
    BY <1>1
  <2>3. FALSE \in BOOLEAN
    OBVIOUS
  <2> QED
    BY <1>1, <1>2, <2>1, <2>2, <2>3, InsertedStep
<1>3. CASE rows' = rows + 1 /\ Answered(c, "CONFIRMED")
  BY <1>1, <1>3, Known, AnsweredStep DEF Results
<1> QED
  BY <1>2, <1>3 DEF ApproveRow

LEMMA AdmitDepositStep ==
  ASSUME ClientsInv, NEW c \in calls, AdmitDeposit(c)
  PROVE  ClientsInv'
<1>1. /\ c.kind = "deposit" /\ c.pc = "checked"
      /\ UNCHANGED <<tabVars, script, confirmed, chainVars, faults>>
  BY DEF AdmitDeposit
<1>2. CASE Answered(c, "refused") /\ UNCHANGED <<rows, position>>
  BY <1>1, <1>2, Known, AnsweredStep DEF Results
<1>3. CASE \E isNew \in BOOLEAN : /\ Inserted(c, isNew)
                                  /\ position' = IF isNew THEN CreatePending ELSE position
  <2>1. PICK isNew \in BOOLEAN : /\ Inserted(c, isNew)
                                 /\ position' = IF isNew THEN CreatePending ELSE position
    BY <1>3
  <2>2. position' \in Position /\ position'.shares >= 0
    BY <2>1, Known, PositionWrites
  <2> QED
    BY <1>1, <2>1, <2>2, InsertedStep
<1> QED
  BY <1>2, <1>3 DEF AdmitDeposit

LEMMA AdmitWithdrawStep ==
  ASSUME ClientsInv, NEW c \in calls, AdmitWithdraw(c)
  PROVE  ClientsInv'
<1>1. /\ c.kind = "withdraw" /\ c.pc = "checked"
      /\ UNCHANGED <<tabVars, script, confirmed, chainVars, faults>>
  BY DEF AdmitWithdraw
<1>2. CASE Answered(c, "refused") /\ UNCHANGED <<rows, position>>
  BY <1>1, <1>2, Known, AnsweredStep DEF Results
<1>3. CASE Inserted(c, FALSE) /\ position' = MarkWithdrawing(position)
  <2>1. position' \in Position /\ position'.shares >= 0
    BY <1>3, Known, PositionWrites
  <2> QED
    BY <1>1, <1>3, <2>1, InsertedStep
<1> QED
  BY <1>2, <1>3 DEF AdmitWithdraw

\* A deposit or a withdrawal that has been checked.
LEMMA CheckDepositStep ==
  ASSUME ClientsInv, NEW c \in calls, CheckDeposit(c)
  PROVE  ClientsInv'
<1> DEFINE d == [c EXCEPT !.pc = "checked"]
<1>1. /\ c.kind = "deposit" /\ c.pc = "sent"
      /\ UNCHANGED <<tabVars, script, chainVars, rows, position, confirmed, faults>>
  BY DEF CheckDeposit, dbVars
<1>2. CASE Answered(c, "refused")
  BY <1>1, <1>2, Known, AnsweredStep DEF Results
<1>3. CASE Affordable(c) /\ Change(c, d)
  <2>1. CallType(c) /\ CallKnown(c) /\ calls' = (calls \ {c}) \cup {d}
    BY <1>3, Known DEF Change
  <2>2. /\ d.kind = c.kind /\ d.by = c.by /\ d.vault = c.vault /\ d.amount = c.amount
        /\ d.live = c.live /\ d.pc = "checked" /\ d.read = c.read /\ d.id = c.id
        /\ CallType(d)
    BY <2>1 DEF CallType
  <2> HIDE DEF d
  <2>3. balance >= c.amount /\ allowance >= c.amount
    <3>1. c.amount \in Nat /\ c.amount > 0
      BY <1>1, <2>1 DEF CallType, CallKnown
    <3> QED
      BY <1>3, <3>1 DEF Affordable, BalanceOf, AllowanceOf
  <2>4. Heir(d, c) /\ CallKnown(d) /\ ChecksHold(d) /\ ToApprove(d) <= ToApprove(c)
    BY <1>1, <2>1, <2>2, <2>3 DEF Heir, CallKnown, ChecksHold, Underway, ToApprove, Mutations
  <2> QED
    BY <1>1, <2>1, <2>2, <2>4, Known, ServerStep
<1> QED
  BY <1>2, <1>3 DEF CheckDeposit

LEMMA CheckWithdrawStep ==
  ASSUME ClientsInv, NEW c \in calls, CheckWithdraw(c)
  PROVE  ClientsInv'
<1> DEFINE d == [c EXCEPT !.pc = "checked", !.read = position]
<1>1. /\ c.kind = "withdraw" /\ c.pc = "sent"
      /\ UNCHANGED <<tabVars, script, chainVars, rows, position, confirmed, faults>>
  BY DEF CheckWithdraw, dbVars
<1>2. CASE Answered(c, "refused")
  BY <1>1, <1>2, Known, AnsweredStep DEF Results
<1>3. CASE position.shares <= supplied /\ Change(c, d)
  <2>1. CallType(c) /\ CallKnown(c) /\ calls' = (calls \ {c}) \cup {d}
    BY <1>3, Known DEF Change
  <2>2. /\ d.kind = c.kind /\ d.by = c.by /\ d.vault = c.vault /\ d.amount = c.amount
        /\ d.live = c.live /\ d.pc = "checked" /\ d.read = position /\ d.id = c.id
        /\ CallType(d)
    BY <2>1, Known DEF CallType
  <2> HIDE DEF d
  <2>3. position.shares >= 0
    BY Known
  <2>4. Heir(d, c) /\ CallKnown(d) /\ ChecksHold(d) /\ ToApprove(d) <= ToApprove(c)
    BY <1>1, <1>3, <2>1, <2>2, <2>3 DEF Heir, CallKnown, ChecksHold, Underway, ToApprove, Mutations
  <2> QED
    BY <1>1, <2>1, <2>2, <2>4, Known, ServerStep
<1> QED
  BY <1>2, <1>3 DEF CheckWithdraw

LEMMA BroadcastStep ==
  ASSUME ClientsInv, NEW c \in calls, Broadcast(c)
  PROVE  ClientsInv'
<1> DEFINE d == [c EXCEPT !.pc = "pending"]
<1>1. /\ c.pc = "open" /\ calls' = (calls \ {c}) \cup {d}
      /\ UNCHANGED <<tabVars, script, chainVars, rows, position, confirmed, faults>>
  BY DEF Broadcast, Change, dbVars
<1>2. CallType(c) /\ CallKnown(c) /\ ChecksHold(c)
  BY Known
<1>3. /\ d.kind = c.kind /\ d.by = c.by /\ d.vault = c.vault /\ d.amount = c.amount
      /\ d.live = c.live /\ d.raced = c.raced /\ d.pc = "pending" /\ d.read = c.read /\ d.id = c.id
      /\ CallType(d)
  BY <1>2 DEF CallType
<1> HIDE DEF d
<1>4. Heir(d, c) /\ CallKnown(d)
  BY <1>1, <1>2, <1>3 DEF Heir, CallKnown
<1>5. ChecksHold(d)
  BY <1>1, <1>2, <1>3 DEF ChecksHold, Underway
<1>6. ToApprove(d) <= ToApprove(c)
  BY <1>1, <1>2, <1>3 DEF ToApprove, CallType
<1> QED
  BY <1>1, <1>3, <1>4, <1>5, <1>6, Known, ServerStep

LEMMA BroadcastFailsStep ==
  ASSUME ClientsInv, NEW c \in calls, BroadcastFails(c)
  PROVE  ClientsInv'
<1>1. /\ c.pc = "open" /\ Answered(c, "failed")
      /\ UNCHANGED <<tabVars, script, chainVars, rows, confirmed>>
  BY DEF BroadcastFails
<1>2. position' \in Position /\ position'.shares >= 0
  BY Known, GivenBackType DEF BroadcastFails
<1>3. faults' \in Nat
  BY Known DEF BroadcastFails, Fault
<1>4. c.kind # "preview"
  BY <1>1, UnderwayIsMutation DEF Mutations
<1> QED
  BY <1>1, <1>2, <1>3, <1>4, Known, AnsweredStep DEF Results

LEMMA SettleStep ==
  ASSUME ClientsInv, NEW c \in calls, Settle(c)
  PROVE  ClientsInv'
<1> DEFINE result == IF c.result = "success" THEN "CONFIRMED" ELSE "REVERTED"
<1>1. /\ c.pc = "mined" /\ Answered(c, result) /\ result \in Results
      /\ UNCHANGED <<tabVars, script, chainVars, rows, faults>>
  BY DEF Settle, Results
<1>2. c.kind \in Mutations
  BY <1>1, UnderwayIsMutation
<1>3. position' \in Position /\ position'.shares >= 0
  <2>1. CallType(c) /\ TypeOK
    BY Known
  <2>2. position' = Booked(c) \/ position' = GivenBack(c)
    BY DEF Settle
  <2> QED
    BY <1>2, <2>1, <2>2, BookedType, GivenBackType
<1>4. confirmed \subseteq confirmed' /\ confirmed' \subseteq Mutations
  BY <1>2, Known DEF Settle
<1>5. c.by = "script" /\ result = "CONFIRMED" => c.kind \in confirmed'
  BY DEF Settle
<1>6. c.kind # "preview"
  BY <1>2 DEF Mutations
<1> HIDE DEF result
<1> QED
  BY <1>1, <1>3, <1>4, <1>5, <1>6, Known, AnsweredStep

-----------------------------------------------------------------------------
(* The chain *)

\* A transaction is mined: c has its receipt, and what was under way is raced.
LEMMA MinedCalls ==
  ASSUME ClientsInv, NEW c \in calls, NEW result \in {"success", "reverted", "outOfGas"},
         Mined(c, result)
  PROVE  /\ IsFiniteSet(calls') /\ \A e \in calls' : CallType(e)
         /\ ToApproveOf(calls') \in Nat /\ ToApproveOf(calls) \in Nat /\ ToApprove(c) \in Nat
         /\ ToApproveOf(calls') <= ToApproveOf(calls) - ToApprove(c)
         /\ OneScriptCall(calls')
         /\ \A e \in calls' :
              \/ \E b \in calls : /\ Aged(e, b)
                                  /\ b.pc \in Underway => e.raced
              \/ /\ Heir(e, c) /\ c.pc = "pending" /\ e.pc = "mined" /\ e.result = result
                 /\ e.read = c.read /\ e.raced = c.raced
<1> DEFINE f == [d \in calls \ {c} |->
                   [d EXCEPT !.raced = d.raced \/ d.pc \in {"checked", "open", "pending"}]]
           others == {f[d] : d \in calls \ {c}}
           m == [c EXCEPT !.pc = "mined", !.result = result]
<1>1. /\ c.pc \in {"pending", "stray"}
      /\ calls' = others \cup (IF c.pc = "stray" THEN {} ELSE {m})
  <2>1. \A d \in calls \ {c} :
          f[d] = [d EXCEPT !.raced = d.raced \/ d.pc \in {"checked", "open", "pending"}]
    OBVIOUS
  <2> QED
    BY <2>1 DEF Mined
<1>2. ASSUME NEW d \in calls \ {c}
      PROVE  Aged(f[d], d) /\ (d.pc \in Underway => f[d].raced)
  <2>1. CallType(d) /\ (d.raced \/ d.pc \in {"checked", "open", "pending"}) \in BOOLEAN
    BY Known DEF CallType
  <2> DEFINE new == (d.raced \/ d.pc \in {"checked", "open", "pending"})
             g == [d EXCEPT !.raced = new]
  <2>2. f[d] = g
    OBVIOUS
  <2>3. (new \in BOOLEAN) /\ (d.raced => new) /\ (d.pc \in Underway => new)
    BY <2>1 DEF Underway
  <2> HIDE DEF new
  <2>4. /\ g.kind = d.kind /\ g.by = d.by /\ g.vault = d.vault /\ g.amount = d.amount
        /\ g.live = d.live /\ g.pc = d.pc /\ g.read = d.read /\ g.id = d.id /\ g.result = d.result
        /\ g.raced = new
        /\ CallType(g)
    BY <2>1, <2>3 DEF CallType
  <2> HIDE DEF f, g
  <2> QED
    BY <2>2, <2>3, <2>4 DEF Aged, Heir
<1>3. /\ m.kind = c.kind /\ m.by = c.by /\ m.vault = c.vault /\ m.amount = c.amount
      /\ m.live = c.live /\ m.pc = "mined" /\ m.read = c.read /\ m.id = c.id /\ m.result = result
      /\ m.raced = c.raced
      /\ CallType(m)
  <2>1. CallType(c)
    BY Known
  <2> QED
    BY <2>1 DEF CallType
<1> HIDE DEF f, m
<1>4. Heir(m, c) /\ ToApprove(m) = 0
  BY <1>3 DEF Heir, ToApprove
<1>5. /\ IsFiniteSet(calls \ {c}) /\ \A d \in calls \ {c} : CallType(d)
      /\ ToApproveOf(calls \ {c}) = ToApproveOf(calls) - ToApprove(c)
      /\ {ToApprove(c), ToApproveOf(calls), ToApproveOf(calls \ {c})} \subseteq Nat
  BY Known, OthersOfOne
<1>6. \A d \in calls \ {c} : CallType(f[d]) /\ ToApprove(f[d]) = ToApprove(d)
  BY <1>2, AgedToApprove DEF Aged, Heir
<1>7. IsFiniteSet(others) /\ ToApproveOf(others) <= ToApproveOf(calls \ {c})
  BY <1>5, <1>6, ToApproveOfChanged
<1>8. \A e \in others : CallType(e)
  BY <1>6
<1>9. \A e \in calls' :
        \/ \E b \in calls \ {c} : e = f[b]
        \/ e = m /\ c.pc = "pending"
  BY <1>1
<1>10. OneScriptCall(calls')
  <2>1. \A d, e \in calls : d.by = "script" /\ e.by = "script" => d = e
    BY DEF ClientsInv, ScriptKnows, ScriptCalls
  <2>2. \A d \in calls \ {c} : f[d].by = d.by
    BY <1>2 DEF Aged, Heir
  <2>3. \A d \in calls \ {c}, e \in calls \ {c} :
          f[d].by = "script" /\ f[e].by = "script" => f[d] = f[e]
    BY <2>1, <2>2
  <2>4. \A d \in calls \ {c} : f[d].by = "script" => m.by # "script"
    BY <2>1, <2>2, <1>3
  <2> QED
    BY <1>9, <2>3, <2>4 DEF OneScriptCall
<1>11. \A e \in calls' :
         \/ \E b \in calls : Aged(e, b) /\ (b.pc \in Underway => e.raced)
         \/ /\ Heir(e, c) /\ c.pc = "pending" /\ e.pc = "mined" /\ e.result = result
            /\ e.read = c.read /\ e.raced = c.raced
  BY <1>1, <1>2, <1>3, <1>4, <1>9
<1> HIDE DEF others
<1>12. ToApproveOf(others) \in Nat
  <2>1. others \in SUBSET others
    OBVIOUS
  <2> QED
    BY <1>7, <1>8, <2>1, ToApproveOfFewer
<1>13. /\ IsFiniteSet(calls') /\ ToApproveOf(calls') \in Nat
       /\ ToApproveOf(calls') <= ToApproveOf(others) + ToApprove(m)
  <2>1. CASE c.pc = "stray"
    <3>1. calls' = others
      BY <1>1, <2>1
    <3> QED
      BY <1>4, <1>7, <1>12, <3>1
  <2>2. CASE c.pc = "pending"
    <3>1. calls' = others \cup {m}
      BY <1>1, <2>2
    <3> QED
      BY <1>3, <1>7, <1>8, <3>1, ToApproveOfMore
  <2> QED
    BY <1>1, <2>1, <2>2
<1>14. ToApproveOf(calls') <= ToApproveOf(calls) - ToApprove(c)
  BY <1>4, <1>5, <1>7, <1>12, <1>13
<1>15. \A e \in calls' : CallType(e)
  BY <1>11 DEF Aged, Heir
<1> QED
  BY <1>5, <1>10, <1>11, <1>13, <1>14, <1>15

\* A transaction that is refused had been raced, or withdraws nothing.
LEMMA MinedStep ==
  ASSUME ClientsInv, NEW c \in calls, NEW result \in {"success", "reverted", "outOfGas"},
         Mined(c, result),
         result = "reverted" => ~Possible(c),
         balance' \in Nat, allowance' \in Nat, supplied' \in Nat, unspent' \in Int,
         resent' = resent, faults' \in Nat,
         unspent' - allowance' >= unspent - allowance - ToApprove(c)
  PROVE  ClientsInv'
<1>0. UNCHANGED <<tabVars, script, dbVars>>
  BY DEF Mined
<1> USE DEF tabVars, dbVars
<1>1. /\ IsFiniteSet(calls') /\ \A e \in calls' : CallType(e)
      /\ ToApproveOf(calls') \in Nat /\ ToApproveOf(calls) \in Nat /\ ToApprove(c) \in Nat
      /\ ToApproveOf(calls') <= ToApproveOf(calls) - ToApprove(c)
      /\ OneScriptCall(calls')
      /\ \A e \in calls' :
           \/ \E b \in calls : Aged(e, b) /\ (b.pc \in Underway => e.raced)
           \/ /\ Heir(e, c) /\ c.pc = "pending" /\ e.pc = "mined" /\ e.result = result
              /\ e.read = c.read /\ e.raced = c.raced
  BY MinedCalls
<1>2. TypeOK'
  <2>1. TypeOK
    BY Known
  <2>2. PageData' = PageData
    BY <1>0 DEF PageData
  <2> QED
    BY <1>0, <1>1, <2>1, <2>2 DEF TypeOK
<1>3. ASSUME NEW e \in calls'
      PROVE  CallKnown(e) /\ ChecksHold(e)'
  <2>1. ASSUME NEW b \in calls, Aged(e, b), b.pc \in Underway => e.raced
        PROVE  CallKnown(e) /\ ChecksHold(e)'
    <3>1. CallType(b) /\ CallKnown(b) /\ ChecksHold(b)
      BY Known
    <3>2. CallKnown(e) /\ ChecksHold(e)
      BY <2>1, <3>1, AgedKnows, AgedChecks
    <3>3. e.pc \in Underway => e.raced
      BY <2>1 DEF Aged
    <3> QED
      BY <3>2, <3>3 DEF ChecksHold
  <2>2. ASSUME Heir(e, c), c.pc = "pending", e.pc = "mined", e.result = result,
               e.read = c.read, e.raced = c.raced
        PROVE  CallKnown(e) /\ ChecksHold(e)'
    <3>1. CallType(c) /\ CallKnown(c) /\ ChecksHold(c) /\ c.kind \in Mutations
      BY <2>2, Known, UnderwayIsMutation
    <3>2. CallKnown(e)
      BY <2>2, <3>1 DEF Heir, CallKnown
    <3>3. ASSUME result = "reverted", ~c.raced
          PROVE  c.kind = "withdraw" /\ c.read.shares = 0
      <4>1. /\ c.kind = "deposit" => balance >= c.amount /\ allowance >= c.amount
            /\ c.kind = "withdraw" => c.read.shares <= supplied
        BY <2>2, <3>1, <3>3 DEF ChecksHold, Underway
      <4>2. c.kind = "withdraw" /\ ~(supplied > 0)
        BY <3>1, <3>3, <4>1 DEF Possible, Mutations
      <4>3. c.read.shares \in Int /\ c.read.shares >= 0 /\ supplied \in Nat
        BY <3>1, Known DEF CallType, Position, CallKnown
      <4> QED
        BY <4>1, <4>2, <4>3
    <3> QED
      BY <2>2, <3>2, <3>3 DEF ChecksHold, Underway, Heir
  <2> QED
    BY <1>1, <2>1, <2>2
<1>4. \A e \in calls' : \E b \in calls : Heir(e, b)
  BY <1>1 DEF Aged
<1>5. FlowHasAmount'
  BY <1>0, <1>4, HeirsLeaveFlow DEF ClientsInv
<1>6. LoadsOfPage'
  BY <1>0, <1>4, HeirsLeavePage DEF ClientsInv
<1>7. ScriptKnows'
  <2>1. \A e \in calls' :
          \/ \E b \in calls : Aged(e, b)
          \/ (\E b \in calls : Heir(e, b)) /\ e.pc # "answered"
    BY <1>1
  <2> QED
    BY <1>0, <1>1, <2>1, HeirsLeaveScript DEF ClientsInv
<1>8. WithinApproval'
  <2>1. /\ allowance \in Nat /\ unspent \in Int /\ resent \in Nat
        /\ unspent + resent >= allowance + ToApproveOf(calls)
    BY DEF ClientsInv, TypeOK, WithinApproval
  <2>2. unspent' + resent' >= allowance' + ToApproveOf(calls')
    BY <1>1, <2>1
  <2> QED
    BY <2>2 DEF WithinApproval
<1> QED
  BY <1>2, <1>3, <1>5, <1>6, <1>7, <1>8 DEF ClientsInv, CallKnown

LEMMA MineStep ==
  ASSUME ClientsInv, NEW c \in calls, Mine(c)
  PROVE  ClientsInv'
<1>1. /\ c.amount \in Nat /\ balance \in Nat /\ allowance \in Nat /\ supplied \in Nat
      /\ unspent \in Int /\ faults \in Nat
  BY Known DEF CallType
<1>2. ToApprove(c) \in Nat
  BY Known DEF CallType, ToApprove
<1>3. CASE MineApprove(c)
  <2>1. ToApprove(c) = c.amount /\ allowance' = c.amount
    BY <1>3 DEF MineApprove, Mined, ToApprove, ApprovedAmount
  <2>2. unspent' - allowance' >= unspent - allowance - ToApprove(c)
    BY <1>1, <1>3, <2>1 DEF MineApprove
  <2> QED
    BY <1>1, <1>3, <2>1, <2>2, MinedStep DEF MineApprove
<1>4. CASE MineDeposit(c)
  <2>1. balance - c.amount \in Nat /\ allowance - c.amount \in Nat
    BY <1>1, <1>4 DEF MineDeposit, Possible
  <2>2. unspent' - allowance' >= unspent - allowance - ToApprove(c)
    BY <1>1, <1>2, <1>4 DEF MineDeposit
  <2> QED
    BY <1>1, <1>4, <2>1, <2>2, MinedStep DEF MineDeposit
<1>5. CASE MineWithdraw(c)
  <2>1. unspent' - allowance' >= unspent - allowance - ToApprove(c)
    BY <1>1, <1>2, <1>5 DEF MineWithdraw
  <2> QED
    BY <1>1, <1>5, <2>1, MinedStep DEF MineWithdraw
<1>6. CASE MineRevert(c)
  <2>1. UNCHANGED <<balance, allowance, supplied, unspent, resent>> /\ faults' \in Nat
    BY <1>1, <1>6 DEF MineRevert, chainVars, Fault
  <2>2. unspent' - allowance' >= unspent - allowance - ToApprove(c)
    BY <1>1, <1>2, <2>1
  <2>3. CASE ~Possible(c) /\ Mined(c, "reverted")
    BY <1>1, <2>1, <2>2, <2>3, MinedStep
  <2>4. CASE Mined(c, "outOfGas")
    BY <1>1, <2>1, <2>2, <2>4, MinedStep
  <2> QED
    BY <1>6, <2>3, <2>4 DEF MineRevert
<1> QED
  BY <1>3, <1>4, <1>5, <1>6 DEF Mine

-----------------------------------------------------------------------------
(* The page *)

LEMMA NewCall ==
  ASSUME NEW kind \in Kinds, NEW by \in {"tab", "script", "provider"},
         NEW vault \in Vaults \cup {None}, NEW amount \in Nat
  PROVE  LET c == Call(kind, by, vault, amount)
         IN  /\ CallType(c)
             /\ c.kind = kind /\ c.by = by /\ c.vault = vault /\ c.amount = amount
             /\ c.pc = "sent" /\ c.read.shares = 0
<1> DEFINE i == CHOOSE i \in Ids(kind, by) : \A j \in Ids(kind, by) : i <= j
           c == Call(kind, by, vault, amount)
<1>1. NoPosition \in Position /\ NoPosition.shares = 0
  BY DEF NoPosition, Position, PositionStatus
<1>2. c = [id |-> i, kind |-> kind, by |-> by, vault |-> vault, amount |-> amount,
           pc |-> "sent", result |-> None, isNew |-> FALSE, read |-> NoPosition,
           awaited |-> TRUE, live |-> TRUE, raced |-> FALSE]
  BY DEF Call
<1> HIDE DEF i, c
<1>3. /\ c.kind = kind /\ c.by = by /\ c.vault = vault /\ c.amount = amount
      /\ c.pc = "sent" /\ c.read.shares = 0 /\ c.id = i
  BY <1>1, <1>2
<1>4. CallType(c)
  BY <1>1, <1>2, <1>3 DEF CallType
<1> QED
  BY <1>3, <1>4 DEF c

\* The dialogs of a page are gone; the script has not noticed.
LEMMA UnmountedCalls ==
  ASSUME ClientsInv, NEW S \in SUBSET calls, NEW leaves \in BOOLEAN
  PROVE  LET U == Unmounted(S, leaves)
         IN  /\ IsFiniteSet(U) /\ ToApproveOf(U) <= ToApproveOf(calls)
             /\ OneScriptCall(U)
             /\ \A e \in U : /\ CallType(e)
                             /\ \E b \in S : Aged(e, b)
                             /\ e.by = "tab" /\ e.kind \notin Loads => ~e.live
<1> DEFINE R == {d \in S : d.by = "script" \/ d.kind # "preview"}
           F(c) == IF c.by = "script" \/ c.kind \in Loads THEN c
                   ELSE [c EXCEPT !.live = FALSE,
                                  !.awaited = @ /\ Matters(c.kind, leaves)]
           f == [c \in R |-> F(c)]
           U == {f[c] : c \in R}
<1>1. Unmounted(S, leaves) = U
  <2>1. Unmounted(S, leaves) = {F(c) : c \in R}
    BY DEF Unmounted
  <2>2. \A c \in R : f[c] = F(c)
    OBVIOUS
  <2> HIDE DEF f, F, R
  <2> QED
    BY <2>1, <2>2
<1>2. IsFiniteSet(calls) /\ \A c \in calls : CallType(c)
  BY DEF ClientsInv, TypeOK
<1>3. ASSUME NEW c \in R
      PROVE  /\ Aged(f[c], c)
             /\ f[c].by = "tab" /\ f[c].kind \notin Loads => ~f[c].live
  <2>1. CallType(c)
    BY <1>2
  <2>2. CASE c.by = "script" \/ c.kind \in Loads
    <3>1. f[c] = c
      BY <2>2
    <3> HIDE DEF f
    <3> QED
      BY <2>1, <2>2, <3>1, SelfHeir DEF CallType
  <2>3. CASE ~(c.by = "script" \/ c.kind \in Loads)
    <3> DEFINE a == c.awaited /\ Matters(c.kind, leaves)
               g == [c EXCEPT !.live = FALSE, !.awaited = a]
    <3>1. f[c] = g
      BY <2>1, <2>3 DEF CallType
    <3>2. a \in BOOLEAN
      BY <2>1 DEF CallType, Matters
    <3> HIDE DEF a, f
    <3>3. /\ g.kind = c.kind /\ g.by = c.by /\ g.vault = c.vault /\ g.amount = c.amount
          /\ g.live = FALSE /\ g.pc = c.pc /\ g.read = c.read /\ g.id = c.id
          /\ g.result = c.result /\ g.raced = c.raced
          /\ CallType(g)
      BY <2>1, <3>2 DEF CallType
    <3> HIDE DEF g
    <3> QED
      BY <3>1, <3>3 DEF Aged, Heir
  <2> QED
    BY <2>2, <2>3
<1> HIDE DEF f
<1>4. R \in SUBSET calls
  OBVIOUS
<1>5. IsFiniteSet(R) /\ ToApproveOf(R) <= ToApproveOf(calls) /\ ToApproveOf(R) \in Nat
      /\ ToApproveOf(calls) \in Nat
  <2> HIDE DEF R
  <2> QED
    BY <1>2, <1>4, ToApproveOfFewer
<1>6. \A c \in R : CallType(c) /\ CallType(f[c]) /\ ToApprove(f[c]) = ToApprove(c)
  BY <1>2, <1>3, AgedToApprove DEF Aged, Heir
<1>7. IsFiniteSet(U) /\ ToApproveOf(U) <= ToApproveOf(R)
  <2> HIDE DEF R
  <2> QED
    BY <1>5, <1>6, ToApproveOfChanged
<1>8. \A e \in U : CallType(e)
  BY <1>6
<1>9. ToApproveOf(U) \in Nat
  <2> HIDE DEF U
  <2> QED
    BY <1>7, <1>8, ToApproveOfFewer
<1>10. ToApproveOf(U) <= ToApproveOf(calls)
  BY <1>5, <1>7, <1>9
<1>11. OneScriptCall(U)
  <2>1. \A d, e \in calls : d.by = "script" /\ e.by = "script" => d = e
    BY DEF ClientsInv, ScriptKnows, ScriptCalls
  <2>2. \A d \in R : f[d].by = d.by
    BY <1>3 DEF Aged, Heir
  <2>3. \A d, e \in R : f[d].by = "script" /\ f[e].by = "script" => f[d] = f[e]
    BY <2>1, <2>2
  <2> QED
    BY <2>3 DEF OneScriptCall
<1>12. \A e \in U : /\ \E b \in S : Aged(e, b)
                    /\ e.by = "tab" /\ e.kind \notin Loads => ~e.live
  BY <1>3
<1> HIDE DEF U
<1> QED
  BY <1>1, <1>7, <1>8, <1>10, <1>11, <1>12

LEMMA LoadIsOfPage ==
  ASSUME NEW u
  PROVE  /\ CallType(Load(u)) /\ CallKnown(Load(u)) /\ Load(u).pc = "sent"
         /\ Load(u).by = "tab" /\ Load(u).kind \in Loads
         /\ Load(u).kind = "vaults" => OnVaultsPage(u) /\ Load(u).vault = IF u \in Vaults THEN u ELSE None
         /\ Load(u).kind = "positions" => ~OnVaultsPage(u)
<1>1. CASE OnVaultsPage(u)
  <2> DEFINE vault == IF u \in Vaults THEN u ELSE None
             c == Call("vaults", "tab", vault, 0)
  <2>1. Load(u) = c /\ vault \in Vaults \cup {None}
    BY <1>1 DEF Load
  <2> HIDE DEF vault
  <2>2. /\ CallType(c) /\ c.kind = "vaults" /\ c.by = "tab" /\ c.vault = vault
        /\ c.pc = "sent" /\ c.read.shares = 0
    <3>1. "vaults" \in Kinds /\ "tab" \in {"tab", "script"} /\ 0 \in Nat
      BY DEF Kinds, Loads
    <3> QED
      BY <2>1, <3>1, NewCall
  <2> HIDE DEF c
  <2> QED
    BY <1>1, <2>1, <2>2 DEF CallKnown, Loads, Mutations, vault
<1>2. CASE ~OnVaultsPage(u)
  <2> DEFINE c == Call("positions", "tab", None, 0)
  <2>1. Load(u) = c
    BY <1>2 DEF Load
  <2>2. /\ CallType(c) /\ c.kind = "positions" /\ c.by = "tab"
        /\ c.pc = "sent" /\ c.read.shares = 0
    <3>1. /\ "positions" \in Kinds /\ "tab" \in {"tab", "script"} /\ 0 \in Nat
          /\ None \in Vaults \cup {None}
      BY DEF Kinds, Loads
    <3> QED
      BY <3>1, NewCall
  <2> HIDE DEF c
  <2> QED
    BY <1>2, <2>1, <2>2 DEF CallKnown, Loads, Mutations
<1> QED
  BY <1>1, <1>2

\* A page that loads anew has one load, its own, and dialogs that wait for nothing.
LEMMA RefreshStep ==
  ASSUME ClientsInv, NEW u \in {"list", "portfolio"} \cup Vaults, NEW S \in SUBSET calls,
         Refresh(u, S), url' = u, UNCHANGED <<script, dbVars, chainVars, faults>>
  PROVE  ClientsInv'
<1> USE DEF dbVars, chainVars
<1> DEFINE leaves == OnVaultsPage(u) # OnVaultsPage(url)
           C == Cancelled(S)
           U == Unmounted(C, leaves)
           K == {c \in U : c.awaited \/ c.pc # "answered"}
           n == Load(u)
<1>1. /\ page' = [loading |-> TRUE, failed |-> FALSE, data |-> IF leaves THEN None ELSE page.data]
      /\ flow' = FreshFlow /\ modal' = ClosedModal
      /\ calls' = K \cup {n}
  BY DEF Refresh, Sent
<1>2. C \in SUBSET calls /\ leaves \in BOOLEAN
  BY DEF Cancelled
<1>3. /\ IsFiniteSet(U) /\ ToApproveOf(U) <= ToApproveOf(calls)
      /\ OneScriptCall(U)
      /\ \A e \in U : /\ CallType(e)
                      /\ \E b \in C : Aged(e, b)
                      /\ e.by = "tab" /\ e.kind \notin Loads => ~e.live
  <2> HIDE DEF C, leaves
  <2> QED
    BY <1>2, UnmountedCalls
<1>4. /\ CallType(n) /\ CallKnown(n) /\ n.pc = "sent" /\ n.by = "tab" /\ n.kind \in Loads
      /\ n.kind = "vaults" => OnVaultsPage(u) /\ n.vault = IF u \in Vaults THEN u ELSE None
      /\ n.kind = "positions" => ~OnVaultsPage(u)
  BY LoadIsOfPage
<1>5. \A c \in C : c.kind \in Loads => c.by = "script"
  BY DEF Cancelled
<1> HIDE DEF n, U, C
<1>6. /\ IsFiniteSet(calls') /\ \A e \in calls' : CallType(e)
      /\ ToApproveOf(calls') \in Nat /\ ToApproveOf(calls) \in Nat
      /\ ToApproveOf(calls') <= ToApproveOf(calls)
  <2>1. /\ IsFiniteSet(K) /\ ToApproveOf(K) \in Nat /\ ToApproveOf(U) \in Nat
        /\ ToApproveOf(K) <= ToApproveOf(U) /\ \A e \in K : CallType(e)
    <3>1. K \in SUBSET U
      OBVIOUS
    <3> HIDE DEF K
    <3> QED
      BY <1>3, <3>1, ToApproveOfFewer
  <2>2. ToApproveOf(calls) \in Nat
    <3>1. calls \in SUBSET calls
      OBVIOUS
    <3> QED
      BY <3>1, ToApproveOfFewer DEF ClientsInv, TypeOK
  <2>3. ToApprove(n) = 0
    BY <1>4 DEF ToApprove, Loads
  <2> HIDE DEF K
  <2>4. /\ IsFiniteSet(calls') /\ ToApproveOf(calls') \in Nat
        /\ ToApproveOf(calls') <= ToApproveOf(K) + ToApprove(n)
    BY <1>1, <1>4, <2>1, ToApproveOfMore
  <2>5. ToApproveOf(calls') <= ToApproveOf(calls)
    BY <1>3, <2>1, <2>2, <2>3, <2>4
  <2>6. \A e \in calls' : CallType(e)
    BY <1>1, <1>4, <2>1
  <2> QED
    BY <2>2, <2>4, <2>5, <2>6
<1>7. \A e \in calls' :
        \/ e = n
        \/ /\ \E b \in C : Aged(e, b)
           /\ e.by = "tab" /\ e.kind \notin Loads => ~e.live
  BY <1>1, <1>3
<1>8. TypeOK'
  <2>1. TypeOK
    BY Known
  <2>2. page' \in [loading : BOOLEAN, failed : BOOLEAN, data : PageData']
    <3>1. page.data \in PageData
      BY <2>1 DEF TypeOK
    <3>2. (IF leaves THEN None ELSE page.data) \in PageData'
      BY <3>1 DEF PageData
    <3> HIDE DEF leaves
    <3> QED
      BY <1>1, <3>2
  <2>3. flow' \in [step : {"amount", "approve", "deposit"}, amount : Nat, busy : BOOLEAN]
    BY <1>1 DEF FreshFlow
  <2>4. modal' \in [open : BOOLEAN, busy : BOOLEAN]
    BY <1>1 DEF ClosedModal
  <2> QED
    BY <1>6, <2>1, <2>2, <2>3, <2>4 DEF TypeOK
<1>9. ASSUME NEW e \in calls'
      PROVE  CallKnown(e) /\ ChecksHold(e)'
  <2>1. CASE e = n
    BY <1>4, <2>1 DEF ChecksHold, Underway
  <2>2. ASSUME NEW b \in C, Aged(e, b)
        PROVE  CallKnown(e) /\ ChecksHold(e)'
    <3>1. b \in calls /\ CallType(b) /\ CallKnown(b) /\ ChecksHold(b)
      BY <1>2, Known
    <3> QED
      BY <2>2, <3>1, AgedKnows, AgedChecks
  <2> QED
    BY <1>7, <2>1, <2>2
<1>10. FlowHasAmount'
  <2>1. flow'.step = "amount"
    BY <1>1 DEF FreshFlow
  <2>2. \A e \in calls' : e.by = "tab" /\ e.kind = "approve" => ~e.live
    BY <1>4, <1>7 DEF Loads
  <2> QED
    BY <2>1, <2>2 DEF FlowHasAmount
<1>11. \A e \in calls' : e.kind \in Loads => e = n
  <2>1. script \notin Loads
    BY Known DEF TypeOK, Loads, Mutations
  <2>2. \A b \in C : b.kind \notin Loads
    BY <1>2, <1>5, <2>1 DEF ClientsInv, ScriptKnows, ScriptCalls
  <2> QED
    BY <1>7, <2>2 DEF Aged, Heir
<1>12. LoadsOfPage'
  <2>1. page'.loading
    BY <1>1
  <2>2. VaultInUrl' = IF u \in Vaults THEN u ELSE None
    BY DEF VaultInUrl
  <2> QED
    BY <1>4, <1>11, <2>1, <2>2 DEF LoadsOfPage, Loads
<1>13. ScriptKnows'
  <2>1. \A e \in ScriptCalls' : e.by = "script" /\ e \in calls' /\ e \in U
    BY <1>1, <1>4 DEF ScriptCalls
  <2>2. \A d, e \in ScriptCalls' : d = e
    BY <1>3, <2>1 DEF OneScriptCall
  <2>3. \A e \in ScriptCalls' :
          /\ e.kind = script
          /\ e.pc = "answered" /\ e.result = "CONFIRMED" /\ e.kind \in {"deposit", "withdraw"}
               => e.kind \in confirmed
    <3>1. ASSUME NEW e \in ScriptCalls'
          PROVE  \E b \in ScriptCalls : Aged(e, b)
      <4>1. PICK b \in C : Aged(e, b)
        BY <1>3, <2>1
      <4> QED
        BY <1>2, <2>1, <4>1 DEF Aged, Heir, ScriptCalls
    <3> QED
      BY <3>1 DEF ClientsInv, ScriptKnows, Aged, Heir
  <2> QED
    BY <2>2, <2>3 DEF ClientsInv, ScriptKnows
<1>14. WithinApproval'
  <2>1. /\ allowance \in Nat /\ unspent \in Int /\ resent \in Nat
        /\ unspent + resent >= allowance + ToApproveOf(calls)
    BY DEF ClientsInv, TypeOK, WithinApproval
  <2>2. unspent' + resent' >= allowance' + ToApproveOf(calls')
    BY <1>6, <2>1
  <2> QED
    BY <2>2 DEF WithinApproval
<1> QED
  BY <1>8, <1>9, <1>10, <1>12, <1>13, <1>14 DEF ClientsInv, CallKnown

-----------------------------------------------------------------------------
(* Requests of the tab and the script *)

FlowType == [step : {"amount", "approve", "deposit"}, amount : Nat, busy : BOOLEAN]
ModalType == [open : BOOLEAN, busy : BOOLEAN]

\* A new request has checked nothing yet, and a stray transaction has no handler; an
\* approval is counted when it is sent.
LEMMA SentStep ==
  ASSUME ClientsInv, NEW n, CallType(n), CallKnown(n), n.pc \in {"sent", "stray"},
         n.kind \notin Loads,
         calls' = calls \cup {n},
         UNCHANGED <<url, page, script, dbVars, balance, allowance, supplied>>,
         unspent' \in Int, resent' \in Nat, faults' \in Nat,
         unspent' + resent' >= unspent + resent + ToApprove(n),
         flow' \in FlowType, flow'.step = flow.step, flow'.amount = flow.amount,
         modal' \in ModalType,
         n.by = "tab" /\ n.kind = "approve" => flow.amount > 0,
         n.by = "script" => n.kind = script /\ ~Waiting
  PROVE  ClientsInv'
<1> USE DEF dbVars
<1>1. \A e \in calls' : e = n \/ e \in calls
  OBVIOUS
<1>2. /\ IsFiniteSet(calls) /\ \A e \in calls : CallType(e)
      /\ ToApproveOf(calls) \in Nat /\ ToApprove(n) \in Nat
  <2>1. IsFiniteSet(calls) /\ \A e \in calls : CallType(e)
    BY Known DEF TypeOK
  <2>2. ToApproveOf(calls) \in Nat
    <3>1. calls \in SUBSET calls
      OBVIOUS
    <3> QED
      BY <2>1, <3>1, ToApproveOfFewer
  <2>3. ToApprove(n) \in Nat
    BY DEF CallType, ToApprove
  <2> QED
    BY <2>1, <2>2, <2>3
<1>3. /\ IsFiniteSet(calls') /\ ToApproveOf(calls') \in Nat
      /\ ToApproveOf(calls') <= ToApproveOf(calls) + ToApprove(n)
  BY <1>2, ToApproveOfMore
<1>4. TypeOK'
  <2>1. TypeOK
    BY Known
  <2>2. PageData' = PageData
    BY DEF PageData
  <2> QED
    BY <1>1, <1>3, <2>1, <2>2 DEF TypeOK, FlowType, ModalType
<1>5. \A e \in calls' : CallKnown(e) /\ ChecksHold(e)'
  <2>1. \A e \in calls' : CallKnown(e) /\ ChecksHold(e)
    BY <1>1, Known DEF ChecksHold, Underway
  <2> QED
    BY <2>1 DEF ChecksHold
<1>6. FlowHasAmount'
  BY <1>1 DEF ClientsInv, FlowHasAmount
<1>7. LoadsOfPage'
  <2>1. VaultInUrl' = VaultInUrl
    BY DEF VaultInUrl
  <2>2. n.kind \notin {"vaults", "positions"}
    BY DEF Loads
  <2> QED
    BY <1>1, <2>1, <2>2 DEF ClientsInv, LoadsOfPage
<1>8. ScriptKnows'
  <2>1. CASE n.by = "script"
    <3>1. ScriptCalls' = {n}
      BY <2>1 DEF ScriptCalls, Waiting
    <3> QED
      BY <2>1, <3>1 DEF ClientsInv, ScriptKnows
  <2>2. CASE n.by # "script"
    <3>1. ScriptCalls' = ScriptCalls
      BY <2>2 DEF ScriptCalls
    <3> QED
      BY <3>1 DEF ClientsInv, ScriptKnows
  <2> QED
    BY <2>1, <2>2
<1>9. WithinApproval'
  <2>1. /\ allowance \in Nat /\ unspent \in Int /\ resent \in Nat
        /\ unspent + resent >= allowance + ToApproveOf(calls)
    BY DEF ClientsInv, TypeOK, WithinApproval
  <2>2. unspent' + resent' >= allowance' + ToApproveOf(calls')
    BY <1>2, <1>3, <2>1
  <2> QED
    BY <2>2 DEF WithinApproval
<1> QED
  BY <1>4, <1>5, <1>6, <1>7, <1>8, <1>9 DEF ClientsInv, CallKnown

\* What the form asks for is about the vault of its page.
LEMMA ClickStep ==
  ASSUME ClientsInv, NEW step \in {"amount", "approve", "deposit"},
         NEW kind \in {"preview", "approve", "deposit"}, NEW amount \in Nat \ {0},
         Click(step, kind, amount),
         kind = "approve" => amount = flow.amount /\ unspent' = unspent + amount,
         kind # "approve" => unspent' = unspent
  PROVE  ClientsInv'
<1> DEFINE n == Call(kind, "tab", page.data, amount)
<1>1. /\ flow' = [flow EXCEPT !.busy = TRUE] /\ calls' = calls \cup {n}
      /\ UNCHANGED <<url, page, modal, script, dbVars, balance, allowance, supplied, resent, faults>>
  BY DEF Click, Sent
<1>2. page.data \in Vaults \cup {None}
  BY Known DEF Click, FlowShown, TypeOK, PageData
<1>3. /\ CallType(n) /\ n.kind = kind /\ n.by = "tab" /\ n.amount = amount
      /\ n.pc = "sent" /\ n.read.shares = 0
  <2>1. kind \in Kinds /\ "tab" \in {"tab", "script", "provider"} /\ amount \in Nat
    BY DEF Kinds, Mutations
  <2> QED
    BY <1>2, <2>1, NewCall
<1> HIDE DEF n
<1>4. CallKnown(n) /\ n.kind \notin Loads
  BY <1>3 DEF CallKnown, Loads
<1>5. /\ flow' \in FlowType /\ flow'.step = flow.step /\ flow'.amount = flow.amount
      /\ modal' \in ModalType
  BY <1>1, Known DEF TypeOK, FlowType, ModalType
<1>6. /\ unspent' \in Int /\ resent' \in Nat /\ faults' \in Nat
      /\ unspent' + resent' >= unspent + resent + ToApprove(n)
  BY <1>1, <1>3, Known DEF ToApprove
<1>7. n.by = "tab" /\ n.kind = "approve" => flow.amount > 0
  BY <1>3
<1> QED
  BY <1>1, <1>3, <1>4, <1>5, <1>6, <1>7, SentStep

LEMMA ClickSteps ==
  ASSUME ClientsInv, HandleApprove \/ HandleDeposit \/ \E a \in Amounts : HandlePreview(a)
  PROVE  ClientsInv'
<1>1. flow \in FlowType /\ (flow.step # "amount" => flow.amount > 0)
  BY Known DEF ClientsInv, TypeOK, FlowHasAmount, FlowType
<1>2. CASE HandleApprove
  <2>1. flow.amount \in Nat \ {0}
    BY <1>1, <1>2 DEF HandleApprove, Click, FlowType
  <2> QED
    BY <1>2, <2>1, ClickStep DEF HandleApprove
<1>3. CASE HandleDeposit
  <2>1. flow.amount \in Nat \ {0}
    BY <1>1, <1>3 DEF HandleDeposit, Click, FlowType
  <2> QED
    BY <1>3, <2>1, ClickStep DEF HandleDeposit
<1>4. ASSUME NEW a \in Amounts, HandlePreview(a)
      PROVE  ClientsInv'
  <2>1. a \in Nat \ {0}
    OBVIOUS
  <2> QED
    BY <1>4, <2>1, ClickStep DEF HandlePreview
<1> QED
  BY <1>2, <1>3, <1>4

LEMMA HandleFullWithdrawStep ==
  ASSUME ClientsInv, HandleFullWithdraw
  PROVE  ClientsInv'
<1> DEFINE n == Call("withdraw", "tab", Home, 0)
<1>1. /\ modal' = [modal EXCEPT !.busy = TRUE] /\ calls' = calls \cup {n}
      /\ UNCHANGED <<url, page, flow, script, dbVars, chainVars, faults>>
  BY DEF HandleFullWithdraw, Sent
<1>2. /\ CallType(n) /\ n.kind = "withdraw" /\ n.by = "tab" /\ n.pc = "sent" /\ n.read.shares = 0
  <2>1. /\ "withdraw" \in Kinds /\ "tab" \in {"tab", "script", "provider"} /\ 0 \in Nat
        /\ Home \in Vaults \cup {None}
    BY DEF Kinds, Mutations
  <2> QED
    BY <2>1, NewCall
<1> HIDE DEF n
<1>3. CallKnown(n) /\ n.kind \notin Loads /\ ToApprove(n) = 0
  BY <1>2 DEF CallKnown, Loads, Mutations, ToApprove
<1>4. flow' \in FlowType /\ modal' \in ModalType
  BY <1>1, Known DEF TypeOK, FlowType, ModalType
<1>5. /\ unspent' \in Int /\ resent' \in Nat /\ faults' \in Nat
      /\ unspent' + resent' >= unspent + resent + ToApprove(n)
  BY <1>1, <1>3, Known DEF chainVars
<1> QED
  BY <1>1, <1>2, <1>3, <1>4, <1>5, SentStep DEF chainVars

LEMMA ScriptSendsStep ==
  ASSUME ClientsInv, ScriptSends
  PROVE  ClientsInv'
<1> DEFINE n == Call(script, "script", Home, ScriptAmount)
<1>1. /\ script \in {"preview"} \cup Mutations /\ ~Waiting /\ calls' = calls \cup {n}
      /\ unspent' = IF script = "approve" THEN unspent + ScriptAmount ELSE unspent
      /\ UNCHANGED <<tabVars, script, dbVars, balance, allowance, supplied, resent, faults>>
  BY DEF ScriptSends, Sent
<1>2. /\ CallType(n) /\ n.kind = script /\ n.by = "script" /\ n.pc = "sent" /\ n.read.shares = 0
      /\ n.amount = ScriptAmount
  <2>1. /\ script \in Kinds /\ "script" \in {"tab", "script", "provider"} /\ ScriptAmount \in Nat
        /\ Home \in Vaults \cup {None}
    BY <1>1 DEF Kinds
  <2> QED
    BY <2>1, NewCall
<1> HIDE DEF n
<1>3. ScriptAmount \in Nat \ {0}
  OBVIOUS
<1>4. CallKnown(n) /\ n.kind \notin Loads
  BY <1>1, <1>2, <1>3 DEF CallKnown, Loads, Mutations
<1>5. flow' \in FlowType /\ modal' \in ModalType
  BY <1>1, Known DEF TypeOK, FlowType, ModalType, tabVars
<1>6. /\ unspent' \in Int /\ resent' \in Nat /\ faults' \in Nat
      /\ unspent' + resent' >= unspent + resent + ToApprove(n)
  BY <1>1, <1>2, <1>3, Known DEF ToApprove
<1> QED
  BY <1>1, <1>2, <1>4, <1>5, <1>6, SentStep DEF tabVars

-----------------------------------------------------------------------------
(* Transactions no handler knows of *)

LEMMA StrayCall ==
  ASSUME ClientsInv, NEW c \in calls, c.pc \in {"open", "pending"}
  PROVE  LET s == Stray(c)
         IN  /\ CallType(s) /\ CallKnown(s)
             /\ s.pc = "stray" /\ s.by = "provider" /\ s.kind = c.kind
             /\ s.kind \in Mutations /\ s.amount = c.amount
<1> DEFINE n == Call(c.kind, "provider", c.vault, c.amount)
           s == [n EXCEPT !.pc = "stray", !.awaited = FALSE, !.live = FALSE]
<1>1. CallType(c) /\ CallKnown(c) /\ c.kind \in Mutations
  BY Known, UnderwayIsMutation
<1>2. /\ CallType(n) /\ n.kind = c.kind /\ n.by = "provider" /\ n.amount = c.amount
      /\ n.read.shares = 0
  <2>1. /\ c.kind \in Kinds /\ "provider" \in {"tab", "script", "provider"}
        /\ c.vault \in Vaults \cup {None} /\ c.amount \in Nat
    BY <1>1 DEF CallType
  <2> QED
    BY <2>1, NewCall
<1> HIDE DEF n
<1>3. /\ s.kind = c.kind /\ s.by = "provider" /\ s.amount = c.amount /\ s.pc = "stray"
      /\ s.read = n.read /\ CallType(s)
  BY <1>2 DEF CallType
<1>4. Stray(c) = s
  BY DEF Stray, n
<1> HIDE DEF s
<1>5. CallKnown(s)
  BY <1>1, <1>2, <1>3 DEF CallKnown
<1> QED
  BY <1>1, <1>3, <1>4, <1>5

LEMMA SendsAgainStep ==
  ASSUME ClientsInv, NEW c \in calls, SendsAgain(c)
  PROVE  ClientsInv'
<1> DEFINE s == Stray(c)
<1>1. /\ c.pc = "open" /\ calls' = calls \cup {s}
      /\ resent' = resent + AmountIfApprove(c)
      /\ UNCHANGED <<tabVars, script, dbVars, balance, allowance, supplied, unspent>>
  BY DEF SendsAgain
<1>2. /\ CallType(s) /\ CallKnown(s) /\ s.pc = "stray" /\ s.by = "provider"
      /\ s.kind = c.kind /\ s.kind \in Mutations /\ s.amount = c.amount
  BY <1>1, StrayCall
<1> HIDE DEF s
<1>3. faults' \in Nat
  BY Known DEF SendsAgain, Fault
<1>4. ToApprove(s) = AmountIfApprove(c) /\ AmountIfApprove(c) \in Nat
  BY <1>2 DEF ToApprove, AmountIfApprove, CallType
<1>5. /\ unspent' \in Int /\ resent' \in Nat
      /\ unspent' + resent' >= unspent + resent + ToApprove(s)
  BY <1>1, <1>4, Known
<1>6. flow' \in FlowType /\ modal' \in ModalType
  BY <1>1, Known DEF TypeOK, FlowType, ModalType, tabVars
<1>7. s.kind \notin Loads
  BY <1>2 DEF Loads, Mutations
<1> QED
  BY <1>1, <1>2, <1>3, <1>5, <1>6, <1>7, SentStep DEF tabVars

\* The answer goes to the client, the transaction stays with the provider.
LEMMA HandlerThrowsCalls ==
  ASSUME ClientsInv, NEW c \in calls, HandlerThrows(c)
  PROVE  /\ IsFiniteSet(calls') /\ \A e \in calls' : CallType(e) /\ CallKnown(e) /\ ChecksHold(e)
         /\ ToApproveOf(calls') \in Nat /\ ToApproveOf(calls) \in Nat
         /\ ToApproveOf(calls') <= ToApproveOf(calls)
         /\ \A e \in calls' :
              \/ e \in calls /\ Aged(e, e) /\ (e # c)
              \/ Heir(e, c) /\ e.pc = "answered" /\ e.result = "failed"
              \/ e.by = "provider" /\ e.kind \in Mutations
         /\ OneScriptCall(calls')
<1> DEFINE s == Stray(c)
           d == [c EXCEPT !.pc = "answered", !.result = "failed", !.isNew = FALSE,
                          !.read = NoPosition, !.raced = FALSE]
           mid == (calls \ {c}) \cup Answer(c, "failed")
<1>1. c.pc \in {"open", "pending"} /\ calls' = mid \cup {s}
  BY DEF HandlerThrows
<1>2. \A e \in calls : CallType(e) /\ CallKnown(e) /\ ChecksHold(e) /\ Aged(e, e)
  BY Known, SelfHeir
<1>3. c.kind \in Mutations
  BY <1>1, UnderwayIsMutation
<1>4. /\ CallType(s) /\ CallKnown(s) /\ s.pc = "stray" /\ s.by = "provider"
      /\ s.kind = c.kind /\ s.kind \in Mutations /\ s.amount = c.amount
  BY <1>1, StrayCall
<1>5. Heir(d, c) /\ d.pc = "answered" /\ d.result = "failed" /\ d.read.shares = 0
  BY <1>2, AnsweredHeir DEF Results
<1>6. mid = calls \ {c} \/ mid = (calls \ {c}) \cup {d}
  BY DEF Answer
<1> HIDE DEF s, d, mid
<1>7. CallType(d) /\ CallKnown(d) /\ ChecksHold(d) /\ ToApprove(d) = 0
  BY <1>2, <1>3, <1>5 DEF Heir, CallKnown, ChecksHold, Underway, ToApprove, Mutations
<1>8. ChecksHold(s) /\ ToApprove(s) = ToApprove(c)
  BY <1>1, <1>4 DEF ChecksHold, Underway, ToApprove
<1>9. /\ IsFiniteSet(calls \ {c}) /\ \A e \in calls \ {c} : CallType(e)
      /\ ToApproveOf(calls \ {c}) = ToApproveOf(calls) - ToApprove(c)
      /\ {ToApprove(c), ToApproveOf(calls), ToApproveOf(calls \ {c})} \subseteq Nat
  BY Known, OthersOfOne
<1>10. /\ IsFiniteSet(mid) /\ ToApproveOf(mid) \in Nat
       /\ ToApproveOf(mid) <= ToApproveOf(calls) - ToApprove(c)
  <2>1. CASE mid = calls \ {c}
    BY <1>9, <2>1
  <2>2. CASE mid = (calls \ {c}) \cup {d}
    <3>1. /\ IsFiniteSet(mid) /\ ToApproveOf(mid) \in Nat
          /\ ToApproveOf(mid) <= ToApproveOf(calls \ {c}) + ToApprove(d)
      BY <1>7, <1>9, <2>2, ToApproveOfMore
    <3> QED
      BY <1>7, <1>9, <3>1
  <2> QED
    BY <1>6, <2>1, <2>2
<1>11. \A e \in mid : (e \in calls /\ (e # c)) \/ e = d
  BY <1>6
<1>12. \A e \in mid : CallType(e)
  BY <1>2, <1>7, <1>11
<1>13. /\ IsFiniteSet(calls') /\ ToApproveOf(calls') \in Nat
       /\ ToApproveOf(calls') <= ToApproveOf(mid) + ToApprove(s)
  BY <1>1, <1>4, <1>10, <1>12, ToApproveOfMore
<1>14. ToApproveOf(calls') <= ToApproveOf(calls)
  BY <1>8, <1>9, <1>10, <1>13
<1>15. \A e \in calls' : (e \in calls /\ (e # c)) \/ e = d \/ e = s
  BY <1>1, <1>11
<1>16. OneScriptCall(calls')
  <2>1. \A b, e \in calls : b.by = "script" /\ e.by = "script" => b = e
    BY DEF ClientsInv, ScriptKnows, ScriptCalls
  <2>2. d.by = c.by
    BY <1>5 DEF Heir
  <2> QED
    BY <1>4, <1>15, <2>1, <2>2 DEF OneScriptCall
<1> QED
  BY <1>2, <1>4, <1>5, <1>7, <1>8, <1>9, <1>13, <1>14, <1>15, <1>16

LEMMA HandlerThrowsStep ==
  ASSUME ClientsInv, NEW c \in calls, HandlerThrows(c)
  PROVE  ClientsInv'
<1> USE DEF tabVars, chainVars
<1>1. /\ position' \in Position /\ position'.shares >= 0 /\ faults' \in Nat
      /\ UNCHANGED <<tabVars, script, rows, confirmed, chainVars>>
  BY Known, GivenBackType DEF HandlerThrows, Fault
<1>2. /\ IsFiniteSet(calls') /\ \A e \in calls' : CallType(e) /\ CallKnown(e) /\ ChecksHold(e)
      /\ ToApproveOf(calls') \in Nat /\ ToApproveOf(calls) \in Nat
      /\ ToApproveOf(calls') <= ToApproveOf(calls)
      /\ \A e \in calls' :
           \/ e \in calls /\ Aged(e, e) /\ (e # c)
           \/ Heir(e, c) /\ e.pc = "answered" /\ e.result = "failed"
           \/ e.by = "provider" /\ e.kind \in Mutations
      /\ OneScriptCall(calls')
  BY HandlerThrowsCalls
<1>3. TypeOK'
  <2>1. PageData' = PageData
    BY <1>1 DEF PageData
  <2> QED
    BY <1>1, <1>2, <2>1, Known DEF TypeOK
<1>4. \A e \in calls' : CallKnown(e) /\ ChecksHold(e)'
  BY <1>1, <1>2 DEF ChecksHold
<1>5. FlowHasAmount'
  <2>1. ASSUME NEW e \in calls', e.by = "tab", e.kind = "approve", e.live
        PROVE  flow.amount > 0
    BY <1>2, <2>1 DEF ClientsInv, FlowHasAmount, Heir
  <2> QED
    BY <1>1, <2>1 DEF ClientsInv, FlowHasAmount
<1>6. LoadsOfPage'
  <2>1. ASSUME NEW e \in calls'
        PROVE  /\ e.kind = "vaults" => OnVaultsPage(url) /\ e.vault = VaultInUrl
               /\ e.kind = "positions" => ~OnVaultsPage(url)
    BY <1>2 DEF ClientsInv, LoadsOfPage, Heir, Mutations
  <2>2. VaultInUrl' = VaultInUrl
    BY <1>1 DEF VaultInUrl
  <2> QED
    BY <1>1, <2>1, <2>2 DEF ClientsInv, LoadsOfPage
<1>7. ScriptKnows'
  <2>1. ASSUME NEW e \in ScriptCalls'
        PROVE  /\ e.kind = script
               /\ e.pc = "answered" /\ e.result = "CONFIRMED"
                    /\ e.kind \in {"deposit", "withdraw"} => e.kind \in confirmed
    <3>1. e \in calls' /\ e.by = "script"
      BY DEF ScriptCalls
    <3>2. \A b \in calls : b.by = "script" =>
            /\ b.kind = script
            /\ b.pc = "answered" /\ b.result = "CONFIRMED"
                 /\ b.kind \in {"deposit", "withdraw"} => b.kind \in confirmed
      BY DEF ClientsInv, ScriptKnows, ScriptCalls
    <3>3. CASE e \in calls
      BY <3>1, <3>2, <3>3
    <3>4. CASE Heir(e, c) /\ e.pc = "answered" /\ e.result = "failed"
      BY <3>1, <3>2, <3>4 DEF Heir
    <3> QED
      BY <1>2, <3>1, <3>3, <3>4
  <2>2. \A b, e \in ScriptCalls' : b = e
    BY <1>2 DEF ScriptCalls, OneScriptCall
  <2> QED
    BY <1>1, <2>1, <2>2 DEF ClientsInv, ScriptKnows
<1>8. WithinApproval'
  <2>1. /\ allowance \in Nat /\ unspent \in Int /\ resent \in Nat
        /\ unspent + resent >= allowance + ToApproveOf(calls)
    BY DEF ClientsInv, TypeOK, WithinApproval
  <2>2. unspent' + resent' >= allowance' + ToApproveOf(calls')
    BY <1>1, <1>2, <2>1
  <2> QED
    BY <2>2 DEF WithinApproval
<1> QED
  BY <1>3, <1>4, <1>5, <1>6, <1>7, <1>8 DEF ClientsInv, CallKnown

\* Whatever the server and the chain do for a call.
LEMMA ServerSteps ==
  ASSUME ClientsInv, NEW c \in calls, Server(c)
  PROVE  ClientsInv'
BY AnswerPreviewStep, AnswerPositionsStep, RefuseStep, ApproveRowStep, CheckDepositStep,
   AdmitDepositStep, CheckWithdrawStep, AdmitWithdrawStep, BroadcastStep, BroadcastFailsStep,
   SendsAgainStep, HandlerThrowsStep, MineStep, SettleStep DEF Server

-----------------------------------------------------------------------------
(* Answers *)

LEMMA LessIsWithin ==
  ASSUME NEW a \in Int, NEW u \in Int, NEW b \in Int, NEW d \in Int, u >= a + b, d <= b
  PROVE  u >= a + d
OBVIOUS

\* Calls that are heirs of calls, as the tab and the script take note of them.
LEMMA AgedCallsStep ==
  ASSUME ClientsInv,
         IsFiniteSet(calls'), \A e \in calls' : CallType(e) /\ \E b \in calls : Aged(e, b),
         ToApproveOf(calls') <= ToApproveOf(calls), ToApproveOf(calls') \in Nat,
         UNCHANGED <<chainVars, rows, position>>, faults' \in Nat, confirmed' \subseteq Mutations,
         url' \in {"list", "portfolio"} \cup Vaults,
         page' \in [loading : BOOLEAN, failed : BOOLEAN, data : PageData'],
         flow' \in FlowType, modal' \in ModalType,
         script' \in {"start", "preview", "deposited", "ended", "exit 1"} \cup Mutations,
         FlowHasAmount', LoadsOfPage', ScriptKnows'
  PROVE  ClientsInv'
<1>1. TypeOK'
  BY Known DEF TypeOK, FlowType, ModalType, chainVars
<1>2. ASSUME NEW e \in calls'
      PROVE  CallKnown(e) /\ ChecksHold(e)'
  <2>1. PICK b \in calls : Aged(e, b)
    BY <1>2
  <2>2. CallType(b) /\ CallKnown(b) /\ ChecksHold(b)
    BY Known
  <2>3. UNCHANGED <<balance, allowance, supplied>>
    BY DEF chainVars
  <2> QED
    BY <2>1, <2>2, <2>3, AgedKnows, AgedChecks
<1>3. WithinApproval'
  <2>1. /\ allowance \in Nat /\ unspent \in Int /\ resent \in Nat
        /\ unspent + resent >= allowance + ToApproveOf(calls)
    BY DEF ClientsInv, TypeOK, WithinApproval
  <2>2. ToApproveOf(calls) \in Nat
    <3>1. calls \in SUBSET calls
      OBVIOUS
    <3> QED
      BY <3>1, ToApproveOfFewer DEF ClientsInv, TypeOK
  <2>3. unspent' = unspent /\ resent' = resent /\ allowance' = allowance
    BY DEF chainVars
  <2>4. ToApproveOf(calls') <= ToApproveOf(calls) /\ ToApproveOf(calls') \in Nat
    OBVIOUS
  <2>5. unspent + resent >= allowance + ToApproveOf(calls')
    <3> DEFINE before == ToApproveOf(calls)
               after == ToApproveOf(calls')
    <3>0. unspent + resent \in Int
      <4>1. unspent \in Int /\ resent \in Nat
        BY <2>1
      <4> QED
        BY ONLY <4>1
    <3>1. /\ allowance \in Nat /\ unspent + resent \in Int /\ before \in Nat /\ after \in Nat
          /\ unspent + resent >= allowance + before /\ after <= before
      BY <3>0, <2>1, <2>2, <2>4
    <3> HIDE DEF before, after
    <3>2. unspent + resent >= allowance + after
      BY ONLY <3>0, <3>1, LessIsWithin
    <3> QED
      BY <3>2 DEF after
  <2>6. WithinApproval' <=> unspent' + resent' >= allowance' + ToApproveOf(calls')
    BY DEF WithinApproval
  <2> QED
    BY <2>3, <2>5, <2>6
<1> QED
  BY <1>1, <1>2, <1>3 DEF ClientsInv, CallKnown

\* An answer is taken.
LEMMA TakenCalls ==
  ASSUME ClientsInv, NEW c \in calls, calls' = calls \ {c}
  PROVE  /\ IsFiniteSet(calls') /\ \A e \in calls' : CallType(e) /\ \E b \in calls : Aged(e, b)
         /\ ToApproveOf(calls') <= ToApproveOf(calls) /\ ToApproveOf(calls') \in Nat
         /\ OneScriptCall(calls')
         /\ \A e \in calls' : \E b \in calls : Heir(e, b)
<1>1. \A e \in calls : CallType(e) /\ Aged(e, e)
  BY Known, SelfHeir
<1>2. calls' \in SUBSET calls /\ IsFiniteSet(calls)
  BY Known DEF TypeOK
<1>3. /\ IsFiniteSet(calls') /\ ToApproveOf(calls') <= ToApproveOf(calls)
      /\ ToApproveOf(calls') \in Nat
  BY <1>1, <1>2, ToApproveOfFewer
<1>4. OneScriptCall(calls')
  BY DEF OneScriptCall, ClientsInv, ScriptKnows, ScriptCalls
<1> QED
  BY <1>1, <1>2, <1>3, <1>4 DEF Aged

\* The script does not notice what the tab receives.
LEMMA ScriptStays ==
  ASSUME ClientsInv, UNCHANGED <<script, confirmed>>, OneScriptCall(calls'),
         \A e \in calls' : \E b \in calls : Aged(e, b)
  PROVE  ScriptKnows'
BY HeirsLeaveScript DEF ClientsInv

\* The tab takes an answer and may change its form.
LEMMA FormAnswerStep ==
  ASSUME ClientsInv, NEW c \in calls, calls' = calls \ {c},
         UNCHANGED <<url, page, script, dbVars, chainVars>>, faults' \in Nat,
         flow' \in FlowType, modal' \in ModalType, FlowHasAmount'
  PROVE  ClientsInv'
<1> USE DEF dbVars
<1>1. /\ IsFiniteSet(calls') /\ \A e \in calls' : CallType(e) /\ \E b \in calls : Aged(e, b)
      /\ ToApproveOf(calls') <= ToApproveOf(calls) /\ ToApproveOf(calls') \in Nat
      /\ OneScriptCall(calls')
      /\ \A e \in calls' : \E b \in calls : Heir(e, b)
  BY TakenCalls
<1>2. ScriptKnows'
  BY <1>1, ScriptStays
<1>3. LoadsOfPage'
  BY <1>1, HeirsLeavePage DEF ClientsInv
<1>4. PageData' = PageData
  BY DEF PageData
<1> QED
  BY <1>1, <1>2, <1>3, <1>4, Known, AgedCallsStep DEF TypeOK

LEMMA PreviewReturnsStep ==
  ASSUME ClientsInv, NEW c \in calls, PreviewReturns(c)
  PROVE  ClientsInv'
<1>1. /\ c.by = "tab" /\ c.kind = "preview" /\ c.pc = "answered" /\ ~Fails(c)
      /\ calls' = calls \ {c}
      /\ UNCHANGED <<url, page, modal, script, dbVars, chainVars, faults>>
  BY DEF PreviewReturns, Receives
<1>2. c.result \in {"approve", "deposit"} /\ c.amount \in Nat /\ c.amount > 0
  BY <1>1, Known DEF CallKnown, CallType, Fails
<1>3. \A e \in calls' : \E b \in calls : Heir(e, b)
  BY <1>1, TakenCalls
<1>4. CASE c.live
  <2>1. flow' = [step |-> c.result, amount |-> c.amount, busy |-> FALSE]
    BY <1>4 DEF PreviewReturns, FlowGoesTo
  <2>2. flow' \in FlowType /\ flow'.amount > 0
    BY <1>2, <2>1 DEF FlowType
  <2>3. FlowHasAmount'
    BY <2>2 DEF FlowHasAmount
  <2> QED
    BY <1>1, <2>2, <2>3, Known, FormAnswerStep DEF TypeOK, ModalType
<1>5. CASE ~c.live
  <2>1. flow' = flow
    BY <1>5 DEF PreviewReturns, FlowGoesTo
  <2>2. FlowHasAmount'
    BY <1>3, <2>1, HeirsLeaveFlow DEF ClientsInv
  <2> QED
    BY <1>1, <2>1, <2>2, Known, FormAnswerStep DEF TypeOK, FlowType, ModalType
<1> QED
  BY <1>4, <1>5

LEMMA ApproveReturnsStep ==
  ASSUME ClientsInv, NEW c \in calls, ApproveReturns(c)
  PROVE  ClientsInv'
<1>1. /\ c.by = "tab" /\ c.kind = "approve" /\ c.pc = "answered"
      /\ calls' = calls \ {c}
      /\ UNCHANGED <<url, page, modal, script, dbVars, chainVars, faults>>
  BY DEF ApproveReturns, Receives
<1>2. flow \in FlowType
  BY Known DEF TypeOK, FlowType
<1>3. \A e \in calls' : \E b \in calls : Heir(e, b)
  BY <1>1, TakenCalls
<1>4. CASE c.live
  <2>1. flow' = [step |-> "deposit", amount |-> flow.amount, busy |-> FALSE]
    BY <1>4 DEF ApproveReturns, FlowGoesTo
  <2>2. flow' \in FlowType /\ flow'.amount > 0
    BY <1>1, <1>2, <1>4, <2>1 DEF FlowType, ClientsInv, FlowHasAmount
  <2>3. FlowHasAmount'
    BY <2>2 DEF FlowHasAmount
  <2> QED
    BY <1>1, <2>2, <2>3, Known, FormAnswerStep DEF TypeOK, ModalType
<1>5. CASE ~c.live
  <2>1. flow' = flow
    BY <1>5 DEF ApproveReturns, FlowGoesTo
  <2>2. FlowHasAmount'
    BY <1>3, <2>1, HeirsLeaveFlow DEF ClientsInv
  <2> QED
    BY <1>1, <1>2, <2>1, <2>2, Known, FormAnswerStep DEF TypeOK, ModalType
<1> QED
  BY <1>4, <1>5

LEMMA ButtonBackStays ==
  ASSUME ClientsInv, NEW c, ButtonBack(c)
  PROVE  /\ flow' \in FlowType /\ flow'.step = flow.step /\ flow'.amount = flow.amount
         /\ modal' \in ModalType /\ UNCHANGED <<url, page>>
<1>1. flow \in FlowType /\ modal \in ModalType
  BY Known DEF TypeOK, FlowType, ModalType
<1> QED
  BY <1>1 DEF ButtonBack, FlowType, ModalType

LEMMA RequestFailsStep ==
  ASSUME ClientsInv, NEW c \in calls, RequestFails(c)
  PROVE  ClientsInv'
<1>1. /\ calls' = calls \ {c} /\ UNCHANGED <<url, page, script, dbVars, chainVars, faults>>
      /\ flow' \in FlowType /\ flow'.step = flow.step /\ flow'.amount = flow.amount
      /\ modal' \in ModalType
  BY ButtonBackStays DEF RequestFails, Receives
<1>2. \A e \in calls' : \E b \in calls : Heir(e, b)
  BY <1>1, TakenCalls
<1>3. FlowHasAmount'
  BY <1>1, <1>2, HeirsLeaveFlow DEF ClientsInv
<1> QED
  BY <1>1, <1>3, Known, FormAnswerStep

\* An answer to a load.
LEMMA LoadAnswerStep ==
  ASSUME ClientsInv, NEW c \in calls, calls' = calls \ {c},
         UNCHANGED <<url, flow, modal, script, dbVars, chainVars>>, faults' \in Nat,
         page' \in [loading : BOOLEAN, failed : BOOLEAN, data : PageData],
         OnVaultsPage(url) => page'.failed \/ page'.data = VaultInUrl
  PROVE  ClientsInv'
<1> USE DEF dbVars
<1>1. /\ IsFiniteSet(calls') /\ \A e \in calls' : CallType(e) /\ \E b \in calls : Aged(e, b)
      /\ ToApproveOf(calls') <= ToApproveOf(calls) /\ ToApproveOf(calls') \in Nat
      /\ OneScriptCall(calls')
      /\ \A e \in calls' : \E b \in calls : Heir(e, b)
  BY TakenCalls
<1>2. ScriptKnows'
  BY <1>1, ScriptStays
<1>3. FlowHasAmount'
  BY <1>1, HeirsLeaveFlow DEF ClientsInv
<1>4. PageData' = PageData /\ VaultInUrl' = VaultInUrl
  BY DEF PageData, VaultInUrl
<1>5. LoadsOfPage'
  BY <1>4 DEF ClientsInv, LoadsOfPage
<1> QED
  BY <1>1, <1>2, <1>3, <1>4, <1>5, Known, AgedCallsStep DEF TypeOK, FlowType, ModalType

LEMMA DeliverStep ==
  ASSUME ClientsInv, NEW c \in calls, Deliver(c)
  PROVE  ClientsInv'
<1> DEFINE data == IF c.kind = "vaults" THEN c.vault ELSE c.read
<1>1. /\ c.kind \in Loads /\ calls' = calls \ {c}
      /\ page' = [page EXCEPT !.loading = FALSE, !.data = data]
      /\ UNCHANGED <<url, flow, modal, script, dbVars, chainVars, faults>>
  BY DEF Deliver, Delivers, Loads
<1>2. /\ c.kind = "vaults" => OnVaultsPage(url) /\ c.vault = VaultInUrl
      /\ c.kind = "positions" => ~OnVaultsPage(url)
  BY DEF ClientsInv, LoadsOfPage
<1>3. data \in PageData /\ (OnVaultsPage(url) => data = VaultInUrl)
  <2>1. CallType(c)
    BY Known
  <2> QED
    BY <1>1, <1>2, <2>1 DEF CallType, PageData, Loads
<1> HIDE DEF data
<1>4. page \in [loading : BOOLEAN, failed : BOOLEAN, data : PageData]
  BY Known DEF TypeOK
<1>5. page' \in [loading : BOOLEAN, failed : BOOLEAN, data : PageData] /\ page'.data = data
  BY <1>1, <1>3, <1>4
<1> QED
  BY <1>1, <1>3, <1>5, Known, LoadAnswerStep

LEMMA LoadFailsStep ==
  ASSUME ClientsInv, NEW c \in calls, LoadFails(c)
  PROVE  ClientsInv'
<1>1. /\ calls' = calls \ {c} /\ page' = [page EXCEPT !.loading = FALSE, !.failed = TRUE]
      /\ UNCHANGED <<url, flow, modal, script, dbVars, chainVars>>
  BY DEF LoadFails, Delivers
<1>2. faults' \in Nat
  BY Known DEF LoadFails, Fault
<1>3. page \in [loading : BOOLEAN, failed : BOOLEAN, data : PageData]
  BY Known DEF TypeOK
<1>4. page' \in [loading : BOOLEAN, failed : BOOLEAN, data : PageData] /\ page'.failed
  BY <1>1, <1>3
<1> QED
  BY <1>1, <1>2, <1>4, LoadAnswerStep

\* The dialogs, and requests given up.
LEMMA ModalSteps ==
  ASSUME ClientsInv, OpenModal \/ CloseModal
  PROVE  ClientsInv'
<1> USE DEF dbVars
<1>1. modal' \in ModalType /\ UNCHANGED <<url, page, flow, script, dbVars, chainVars, faults>>
  <2>1. [open |-> TRUE, busy |-> FALSE] \in ModalType /\ ClosedModal \in ModalType
    BY DEF ClosedModal, ModalType
  <2>2. modal' = [open |-> TRUE, busy |-> FALSE] \/ modal' = ClosedModal
    BY DEF OpenModal, CloseModal
  <2>3. UNCHANGED <<url, page, flow, script, dbVars, chainVars, faults>>
    BY DEF OpenModal, CloseModal
  <2> QED
    BY <2>1, <2>2, <2>3
<1>2. /\ IsFiniteSet(calls') /\ \A e \in calls' : CallType(e) /\ \E b \in calls : Aged(e, b)
      /\ ToApproveOf(calls') <= ToApproveOf(calls) /\ ToApproveOf(calls') \in Nat
      /\ OneScriptCall(calls')
  <2>1. CASE calls' = calls
    <3>1. IsFiniteSet(calls) /\ \A e \in calls : CallType(e) /\ Aged(e, e)
      BY Known, SelfHeir DEF TypeOK
    <3>2. ToApproveOf(calls) \in Nat
      <4>1. calls \in SUBSET calls
        OBVIOUS
      <4> QED
        BY <3>1, <4>1, ToApproveOfFewer
    <3>3. OneScriptCall(calls)
      BY DEF OneScriptCall, ClientsInv, ScriptKnows, ScriptCalls
    <3> QED
      BY <2>1, <3>1, <3>2, <3>3
  <2>2. CASE calls' = Unmounted(calls, FALSE)
    <3>1. calls \in SUBSET calls /\ FALSE \in BOOLEAN
      OBVIOUS
    <3>2. /\ IsFiniteSet(calls') /\ ToApproveOf(calls') <= ToApproveOf(calls)
          /\ OneScriptCall(calls')
          /\ \A e \in calls' : CallType(e) /\ \E b \in calls : Aged(e, b)
      BY <2>2, <3>1, UnmountedCalls
    <3>3. ToApproveOf(calls') \in Nat
      <4>1. calls' \in SUBSET calls'
        OBVIOUS
      <4> QED
        BY <3>2, <4>1, ToApproveOfFewer
    <3> QED
      BY <3>2, <3>3
  <2> QED
    BY <2>1, <2>2 DEF OpenModal, CloseModal
<1>3. \A e \in calls' : \E b \in calls : Heir(e, b)
  BY <1>2 DEF Aged
<1>4. ScriptKnows'
  BY <1>1, <1>2, ScriptStays
<1>5. FlowHasAmount'
  BY <1>1, <1>3, HeirsLeaveFlow DEF ClientsInv
<1>6. LoadsOfPage'
  BY <1>1, <1>3, HeirsLeavePage DEF ClientsInv
<1>7. PageData' = PageData
  BY <1>1 DEF PageData
<1> QED
  BY <1>1, <1>2, <1>4, <1>5, <1>6, <1>7, Known, AgedCallsStep DEF TypeOK, FlowType

LEMMA TimesOutStep ==
  ASSUME ClientsInv, NEW c \in calls, TimesOut(c)
  PROVE  ClientsInv'
<1> USE DEF dbVars
<1> DEFINE d == [c EXCEPT !.awaited = FALSE, !.live = FALSE]
<1>1. /\ calls' = (calls \ {c}) \cup {d} /\ UNCHANGED <<url, page, script, dbVars, chainVars>>
      /\ flow' \in FlowType /\ flow'.step = flow.step /\ flow'.amount = flow.amount
      /\ modal' \in ModalType
  BY ButtonBackStays DEF TimesOut, Change
<1>2. Aged(d, c)
  <2>1. CallType(c)
    BY Known
  <2>2. /\ d.kind = c.kind /\ d.by = c.by /\ d.vault = c.vault /\ d.amount = c.amount
        /\ d.live = FALSE /\ d.pc = c.pc /\ d.read = c.read /\ d.id = c.id
        /\ d.result = c.result /\ d.raced = c.raced
        /\ CallType(d)
    BY <2>1 DEF CallType
  <2> HIDE DEF d
  <2> QED
    BY <2>2 DEF Aged, Heir
<1> HIDE DEF d
<1>3. /\ IsFiniteSet(calls') /\ \A e \in calls' : CallType(e)
      /\ ToApproveOf(calls') \in Nat /\ ToApproveOf(calls') <= ToApproveOf(calls)
      /\ OneScriptCall(calls')
      /\ \A e \in calls' : e = d \/ (e \in calls /\ Aged(e, e))
  <2>1. ToApprove(d) = ToApprove(c) /\ ToApprove(c) \in Nat
    BY <1>2, AgedToApprove, Known DEF ToApprove, CallType
  <2>2. OneScriptCall(calls)
    BY DEF OneScriptCall, ClientsInv, ScriptKnows, ScriptCalls
  <2>3. Heir(d, c) /\ ToApprove(d) <= ToApprove(c)
    BY <1>2, <2>1 DEF Aged
  <2> QED
    BY <1>1, <2>2, <2>3, Known, OneCallMoves
<1>4. \A e \in calls' : \E b \in calls : Aged(e, b)
  BY <1>2, <1>3
<1>5. \A e \in calls' : \E b \in calls : Heir(e, b)
  BY <1>4 DEF Aged
<1>6. ScriptKnows'
  BY <1>1, <1>3, <1>4, ScriptStays
<1>7. FlowHasAmount'
  BY <1>1, <1>5, HeirsLeaveFlow DEF ClientsInv
<1>8. LoadsOfPage'
  BY <1>1, <1>5, HeirsLeavePage DEF ClientsInv
<1>9. PageData' = PageData
  BY <1>1 DEF PageData
<1>10. faults' \in Nat
  BY Known DEF TimesOut, Fault
<1> QED
  BY <1>1, <1>3, <1>4, <1>6, <1>7, <1>8, <1>9, <1>10, Known, AgedCallsStep DEF TypeOK

\* All the tab does.
LEMMA TabSteps ==
  ASSUME ClientsInv, Tab
  PROVE  ClientsInv'
<1>1. ASSUME NEW u \in {"list", "portfolio"} \cup Vaults, Go(u)
      PROVE  ClientsInv'
  <2>1. calls \in SUBSET calls
    OBVIOUS
  <2> QED
    BY <1>1, <2>1, RefreshStep DEF Go
<1>2. CASE Retry
  <2>1. calls \in SUBSET calls /\ url \in {"list", "portfolio"} \cup Vaults
    BY Known DEF TypeOK
  <2>2. Refresh(url, calls) /\ UNCHANGED <<url, script, dbVars, chainVars, faults>>
    BY <1>2 DEF Retry
  <2> QED
    BY <2>1, <2>2, RefreshStep
<1>3. CASE HandleApprove \/ HandleDeposit \/ \E a \in Amounts : HandlePreview(a)
  BY <1>3, ClickSteps
<1>4. CASE OpenModal \/ CloseModal
  BY <1>4, ModalSteps
<1>5. CASE HandleFullWithdraw
  BY <1>5, HandleFullWithdrawStep
<1>6. ASSUME NEW c \in calls, DepositReturns(c)
      PROVE  ClientsInv'
  <2>1. UNCHANGED <<script, dbVars, chainVars, faults>>
    BY <1>6 DEF DepositReturns, Receives
  <2>2. CASE calls' = calls \ {c} /\ UNCHANGED tabVars
    <3>1. \A e \in calls' : \E b \in calls : Heir(e, b)
      BY <2>2, TakenCalls
    <3>2. FlowHasAmount'
      BY <2>2, <3>1, HeirsLeaveFlow DEF ClientsInv, tabVars
    <3>3. flow' \in FlowType /\ modal' \in ModalType
      BY <2>2, Known DEF tabVars, TypeOK, FlowType, ModalType
    <3> QED
      BY <2>1, <2>2, <3>2, <3>3, Known, FormAnswerStep DEF tabVars
  <2>3. CASE url' = "portfolio" /\ Refresh("portfolio", calls \ {c})
    <3>1. calls \ {c} \in SUBSET calls /\ "portfolio" \in {"list", "portfolio"} \cup Vaults
      OBVIOUS
    <3> QED
      BY <2>1, <2>3, <3>1, RefreshStep
  <2> QED
    BY <1>6, <2>2, <2>3 DEF DepositReturns
<1>7. ASSUME NEW c \in calls, WithdrawReturns(c)
      PROVE  ClientsInv'
  <2>1. calls \ {c} \in SUBSET calls /\ url \in {"list", "portfolio"} \cup Vaults
    BY Known DEF TypeOK
  <2>2. Refresh(url, calls \ {c}) /\ UNCHANGED <<url, script, dbVars, chainVars, faults>>
    BY <1>7 DEF WithdrawReturns, Receives
  <2> QED
    BY <2>1, <2>2, RefreshStep
<1> QED
  BY <1>1, <1>2, <1>3, <1>4, <1>5, <1>6, <1>7, DeliverStep, LoadFailsStep, PreviewReturnsStep,
     ApproveReturnsStep, RequestFailsStep, TimesOutStep DEF Tab

-----------------------------------------------------------------------------
(* The script *)

\* The calls stay, and the script goes on.
LEMMA ScriptGoesOn ==
  ASSUME ClientsInv, calls' = calls,
         UNCHANGED <<tabVars, chainVars, rows, position>>, faults' \in Nat,
         confirmed' \subseteq Mutations,
         script' \in {"start", "preview", "deposited", "ended", "exit 1"} \cup Mutations,
         ScriptKnows'
  PROVE  ClientsInv'
<1>1. /\ IsFiniteSet(calls') /\ \A e \in calls' : CallType(e) /\ \E b \in calls : Aged(e, b)
      /\ \A e \in calls' : \E b \in calls : Heir(e, b)
  BY Known, SelfHeir DEF TypeOK, Aged
<1>2. ToApproveOf(calls') \in Nat /\ ToApproveOf(calls') <= ToApproveOf(calls)
  <2>1. calls \in SUBSET calls
    OBVIOUS
  <2>2. ToApproveOf(calls) \in Nat /\ ToApproveOf(calls) <= ToApproveOf(calls)
    BY <1>1, <2>1, ToApproveOfFewer
  <2> QED
    BY <2>2
<1>3. UNCHANGED <<url, page, flow, modal>> /\ PageData' = PageData
  BY DEF tabVars, PageData
<1>4. FlowHasAmount'
  BY <1>1, <1>3, HeirsLeaveFlow DEF ClientsInv
<1>5. LoadsOfPage'
  BY <1>1, <1>3, HeirsLeavePage DEF ClientsInv
<1>6. flow' \in FlowType /\ modal' \in ModalType
  BY <1>3, Known DEF TypeOK, FlowType, ModalType
<1>7. /\ url' \in {"list", "portfolio"} \cup Vaults
      /\ page' \in [loading : BOOLEAN, failed : BOOLEAN, data : PageData']
  BY <1>3, Known DEF TypeOK
<1> QED
  BY <1>1, <1>2, <1>4, <1>5, <1>6, <1>7, AgedCallsStep

\* A step that only asks has no call of its own.
LEMMA NoCallOfReading ==
  ASSUME ClientsInv, script \notin Kinds
  PROVE  ScriptCalls = {}
<1>1. ASSUME NEW c \in ScriptCalls
      PROVE  FALSE
  <2>1. c \in calls /\ c.kind = script
    BY <1>1 DEF ClientsInv, ScriptKnows, ScriptCalls
  <2>2. c.kind \in Kinds
    BY <2>1, Known DEF CallType
  <2> QED
    BY <2>1, <2>2
<1> QED
  BY <1>1

LEMMA ScriptReadsStep ==
  ASSUME ClientsInv, ScriptReads
  PROVE  ClientsInv'
<1>1. /\ script \in {"start", "deposited"} /\ calls' = calls
      /\ UNCHANGED <<tabVars, dbVars, chainVars>>
  BY DEF ScriptReads
<1>2. script' \in {"preview", "ended", "withdraw", "exit 1"}
  BY DEF ScriptReads
<1>3. /\ script' \in {"ended", "withdraw"} => script = "deposited"
      /\ script' = "ended" => SkipWithdraw
  <2>1. CASE script = "start"
    <3>1. script' \in {"preview", "exit 1"}
      BY <2>1 DEF ScriptReads
    <3> QED
      BY <3>1
  <2>2. CASE script # "start"
    <3>1. script = "deposited"
      BY <1>1, <2>2
    <3>2. script' = "ended" => SkipWithdraw
      BY <2>2 DEF ScriptReads
    <3> QED
      BY <3>1, <3>2
  <2> QED
    BY <2>1, <2>2
<1>4. faults' \in Nat
  <2>1. faults' = faults \/ faults' = faults + 1
    BY DEF ScriptReads, Fault
  <2>2. faults \in Nat
    BY Known
  <2> QED
    BY <2>1, <2>2
<1>5. ScriptCalls' = {}
  <2>1. ScriptCalls = {}
    BY <1>1, NoCallOfReading DEF Kinds, Mutations, Loads
  <2> QED
    BY <1>1, <2>1 DEF ScriptCalls
<1>6. ScriptKnows'
  <2>1. confirmed' = confirmed
    BY <1>1 DEF dbVars
  <2>2. script = "deposited" => "deposit" \in confirmed
    BY DEF ClientsInv, ScriptKnows
  <2>3. script' \in {"deposited", "withdraw", "ended"} => "deposit" \in confirmed'
    BY <1>2, <1>3, <2>1, <2>2
  <2>4. script' = "ended" /\ ~SkipWithdraw => "withdraw" \in confirmed'
    BY <1>3
  <2> QED
    BY <1>5, <2>3, <2>4 DEF ScriptKnows
<1>7. script' \in {"start", "preview", "deposited", "ended", "exit 1"} \cup Mutations
  BY <1>2 DEF Mutations
<1>8. UNCHANGED <<rows, position>> /\ confirmed' \subseteq Mutations
  BY <1>1, Known DEF dbVars
<1> QED
  BY <1>1, <1>4, <1>6, <1>7, <1>8, ScriptGoesOn

LEMMA ScriptRestartsStep ==
  ASSUME ClientsInv, ScriptRestarts
  PROVE  ClientsInv'
<1>1. /\ script = "exit 1" /\ script' = "start" /\ confirmed' = {} /\ calls' = calls
      /\ UNCHANGED <<tabVars, chainVars, rows, position, faults>>
  BY DEF ScriptRestarts
<1>2. ScriptCalls' = {}
  <2>1. ScriptCalls = {}
    BY <1>1, NoCallOfReading DEF Kinds, Mutations, Loads
  <2> QED
    BY <1>1, <2>1 DEF ScriptCalls
<1>3. ScriptKnows'
  BY <1>1, <1>2 DEF ScriptKnows
<1> QED
  BY <1>1, <1>3, Known, ScriptGoesOn

\* The script's only call is answered: no other is left.
LEMMA ScriptReceivesStep ==
  ASSUME ClientsInv, NEW c \in calls, ScriptReceives(c)
  PROVE  ClientsInv'
<1>1. /\ c.by = "script" /\ c.pc = "answered" /\ calls' = calls \ {c}
      /\ script' = IF Fails(c) \/ ~Accepts(c) THEN "exit 1" ELSE AfterAnswer(c)
      /\ UNCHANGED <<tabVars, dbVars, chainVars, faults>>
  BY DEF ScriptReceives
<1>2. CallType(c) /\ CallKnown(c) /\ c.kind = script
  BY <1>1, Known DEF ClientsInv, ScriptKnows, ScriptCalls
<1>3. c.kind \in {"preview"} \cup Mutations
  <2>1. c.kind \in Kinds
    BY <1>2 DEF CallType
  <2>2. script \notin Loads
    BY Known DEF TypeOK, Loads, Mutations
  <2> QED
    BY <1>2, <2>1, <2>2 DEF Kinds
<1>4. \/ script' = "exit 1"
      \/ c.kind = "preview" /\ script' \in {"approve", "deposit"}
      \/ c.kind = "approve" /\ script' = "deposit"
      \/ c.kind = "deposit" /\ c.result = "CONFIRMED" /\ script' = "deposited"
      \/ c.kind = "withdraw" /\ c.result = "CONFIRMED" /\ script' = "ended"
  <2>1. CASE Fails(c) \/ ~Accepts(c)
    BY <1>1, <2>1
  <2>2. CASE ~Fails(c) /\ Accepts(c)
    <3>1. script' = AfterAnswer(c)
      BY <1>1, <2>2
    <3>2. CASE c.kind = "preview"
      BY <1>1, <1>2, <2>2, <3>1, <3>2 DEF AfterAnswer, Fails, CallKnown
    <3>3. CASE c.kind = "approve"
      BY <3>1, <3>3 DEF AfterAnswer
    <3>4. CASE c.kind = "deposit"
      BY <2>2, <3>1, <3>4 DEF AfterAnswer, Accepts
    <3>5. CASE c.kind = "withdraw"
      BY <2>2, <3>1, <3>5 DEF AfterAnswer, Accepts
    <3> QED
      BY <1>3, <3>2, <3>3, <3>4, <3>5 DEF Mutations
  <2> QED
    BY <2>1, <2>2
<1>5. /\ IsFiniteSet(calls') /\ \A e \in calls' : CallType(e) /\ \E b \in calls : Aged(e, b)
      /\ ToApproveOf(calls') <= ToApproveOf(calls) /\ ToApproveOf(calls') \in Nat
      /\ \A e \in calls' : \E b \in calls : Heir(e, b)
  BY <1>1, TakenCalls
<1>6. UNCHANGED <<url, page, flow, modal>> /\ PageData' = PageData
  BY <1>1 DEF tabVars, PageData
<1>7. FlowHasAmount'
  BY <1>5, <1>6, HeirsLeaveFlow DEF ClientsInv
<1>8. LoadsOfPage'
  BY <1>5, <1>6, HeirsLeavePage DEF ClientsInv
<1>9. ScriptKnows'
  <2>1. c \in ScriptCalls /\ ScriptKnows
    BY <1>1 DEF ScriptCalls, ClientsInv
  <2>2. ScriptCalls' = {}
    <3>1. ScriptCalls' = ScriptCalls \ {c}
      BY <1>1 DEF ScriptCalls
    <3>2. \A d \in ScriptCalls : d = c
      BY <2>1 DEF ScriptKnows
    <3> QED
      BY <3>1, <3>2
  <2>3. confirmed' = confirmed
    BY <1>1 DEF dbVars
  <2>4. c.result = "CONFIRMED" /\ c.kind \in {"deposit", "withdraw"} => c.kind \in confirmed
    BY <1>1, <2>1 DEF ScriptKnows
  <2>5. c.kind = "withdraw" => "deposit" \in confirmed
    BY <1>2, <2>1 DEF ScriptKnows
  <2>6. script' \in {"deposited", "withdraw", "ended"} => "deposit" \in confirmed'
    BY <1>4, <2>3, <2>4, <2>5
  <2>7. script' = "ended" => "withdraw" \in confirmed'
    BY <1>4, <2>3, <2>4
  <2> QED
    BY <2>2, <2>6, <2>7 DEF ScriptKnows
<1>10. script' \in {"start", "preview", "deposited", "ended", "exit 1"} \cup Mutations
  BY <1>4 DEF Mutations
<1>11. /\ flow' \in FlowType /\ modal' \in ModalType
       /\ url' \in {"list", "portfolio"} \cup Vaults
       /\ page' \in [loading : BOOLEAN, failed : BOOLEAN, data : PageData']
  BY <1>6, Known DEF TypeOK, FlowType, ModalType
<1>12. UNCHANGED <<rows, position, chainVars>> /\ faults' \in Nat /\ confirmed' \subseteq Mutations
  BY <1>1, Known DEF dbVars
<1> QED
  BY <1>5, <1>7, <1>8, <1>9, <1>10, <1>11, <1>12, AgedCallsStep

-----------------------------------------------------------------------------
(* The theorems *)

LEMMA InitInv == Init => ClientsInv
<1> SUFFICES ASSUME Init
             PROVE  ClientsInv
  OBVIOUS
<1> USE DEF Init
<1>1. IsFiniteSet(calls)
  BY FS_EmptySet
<1>2. NoPosition \in Position /\ NoPosition.shares = 0
  BY DEF NoPosition, Position, PositionStatus
<1>3. /\ flow \in FlowType /\ flow.step = "amount" /\ modal \in ModalType
  BY DEF FreshFlow, ClosedModal, FlowType, ModalType
<1>4. page \in [loading : BOOLEAN, failed : BOOLEAN, data : PageData]
  BY DEF PageData
<1>5. allowance \in Nat /\ balance \in Nat
  OBVIOUS
<1>6. TypeOK
  BY <1>1, <1>2, <1>3, <1>4, <1>5 DEF TypeOK, FlowType, ModalType
<1>7. WithinApproval
  <2>1. ToApproveOf(calls) = 0
    <3> DEFINE num == [c \in calls |-> ToApprove(c)]
    <3>1. ToApproveOf(calls) = Total(num, calls)
      BY <1>1, ToApproveIsTotal
    <3>2. Total(num, calls) = 0
      <4> HIDE DEF num
      <4> QED
        BY <1>1, TotalUnfolds
    <3> QED
      BY <3>1, <3>2
  <2>2. unspent = allowance /\ resent = 0
    OBVIOUS
  <2> QED
    BY <1>5, <2>1, <2>2 DEF WithinApproval
<1>8. FlowHasAmount
  BY <1>3 DEF FlowHasAmount
<1>9. ScriptKnows
  BY DEF ScriptKnows, ScriptCalls
<1>10. LoadsOfPage
  <2>1. calls = {} /\ page.data = None /\ url = "list"
    OBVIOUS
  <2> QED
    BY <2>1 DEF LoadsOfPage, VaultInUrl
<1> QED
  BY <1>6, <1>7, <1>8, <1>9, <1>10 DEF ClientsInv

(***************************************************************************)
(* ClientsInv holds whatever the tab, the script and the server do: what a *)
(* request has checked stays so until another transaction of the wallet is *)
(* mined, approvals under way are within what the user approved, the       *)
(* script waits for one answer, and loads that count are of the page.      *)
(***************************************************************************)
THEOREM ClientsInvariance == Spec => []ClientsInv
<1>1. ASSUME ClientsInv, [Next]_vars
      PROVE  ClientsInv'
  <2>1. CASE Tab
    BY <1>1, <2>1, TabSteps
  <2>2. CASE Script
    BY <1>1, <2>2, ScriptReadsStep, ScriptSendsStep, ScriptRestartsStep, ScriptReceivesStep
       DEF Script
  <2>3. ASSUME NEW c \in calls, Server(c)
        PROVE  ClientsInv'
    BY <1>1, <2>3, ServerSteps
  <2>4. CASE UNCHANGED vars
    <3>1. /\ UNCHANGED <<tabVars, script, calls, chainVars, faults>>
          /\ UNCHANGED <<rows, position, confirmed>>
      BY <2>4 DEF vars, dbVars
    <3>2. ScriptKnows'
      BY <1>1, <3>1 DEF ClientsInv, ScriptKnows, ScriptCalls
    <3> QED
      BY <1>1, <3>1, <3>2, Known, ScriptGoesOn DEF TypeOK
  <2> QED
    BY <1>1, <2>1, <2>2, <2>3, <2>4 DEF Next
<1> QED
  BY <1>1, InitInv, PTL DEF Spec

(***************************************************************************)
(* RevertNeedsRace: a transaction that passed the checks of depositVault   *)
(* or withdrawPosition reverts only if another one of the wallet was mined *)
(* since, or if it withdraws an emptied position that was made ACTIVE      *)
(* again.                                                                  *)
(***************************************************************************)
THEOREM RevertsNeedRace == Spec => []RevertNeedsRace
<1>1. ClientsInv => RevertNeedsRace
  BY DEF ClientsInv, ChecksHold, RevertNeedsRace
<1> QED
  BY <1>1, ClientsInvariance, PTL

(***************************************************************************)
(* DepositsAreApproved: the deposits of both clients add up to more than   *)
(* was approved at most by the approvals withRetry has sent again,         *)
(* whatever is clicked again after a timeout and however late it is mined. *)
(***************************************************************************)
THEOREM ApprovedDeposits == Spec => []DepositsAreApproved
<1>1. ASSUME ClientsInv
      PROVE  DepositsAreApproved
  <2>1. ToApproveOf(calls) \in Nat
    <3>1. calls \in SUBSET calls
      OBVIOUS
    <3> QED
      BY <1>1, <3>1, ToApproveOfFewer DEF ClientsInv, TypeOK
  <2>2. /\ allowance \in Nat /\ unspent \in Int /\ resent \in Nat
        /\ unspent + resent >= allowance + ToApproveOf(calls)
    BY <1>1 DEF ClientsInv, TypeOK, WithinApproval
  <2>3. unspent + resent >= 0
    BY <2>1, <2>2
  <2> QED
    BY <2>3 DEF DepositsAreApproved
<1> QED
  BY <1>1, ClientsInvariance, PTL

(***************************************************************************)
(* SuccessMeansConfirmed: the script ends well only when the API has       *)
(* confirmed a deposit, and unless it skips it a withdrawal, of this run.  *)
(***************************************************************************)
THEOREM ScriptSuccess == Spec => []SuccessMeansConfirmed
<1>1. ClientsInv => SuccessMeansConfirmed
  BY DEF ClientsInv, ScriptKnows, SuccessMeansConfirmed
<1> QED
  BY <1>1, ClientsInvariance, PTL

(***************************************************************************)
(* FormIsOfItsVault: the deposit form shown after a successful load is the *)
(* form of the vault in the address, however late other answers come.      *)
(***************************************************************************)
THEOREM FormOfItsVault == Spec => []FormIsOfItsVault
<1>1. ClientsInv => FormIsOfItsVault
  BY DEF ClientsInv, LoadsOfPage, FormIsOfItsVault, FlowShown, VaultInUrl
<1> QED
  BY <1>1, ClientsInvariance, PTL
=============================================================================
