------------------------------ MODULE Clients ------------------------------
(***************************************************************************)
(* Two clients of the earn API that share one user and one wallet: a tab   *)
(* of the web frontend (VaultsPage with DepositFlow, PortfolioPage with    *)
(* WithdrawModal, both on useAsync) and the end-to-end script              *)
(* run-testnet-earn-flow.  The tab gives a request up after 60 s, or       *)
(* leaves the page that waits for it, and the server goes on.              *)
(*                                                                         *)
(* A request runs on the server in the steps of its handler: the checks    *)
(* against the chain, the insertion of its row, the broadcast, the block   *)
(* that mines it, the settlement of its row.  A transaction the wallet     *)
(* provider has accepted is mined also when its handler knows nothing of   *)
(* it: the answer was lost and withRetry has sent the transaction again,   *)
(* or the handler has failed.  What two handlers can do to                 *)
(* each other between the check for an open row and the insertion, and the *)
(* death of a handler, are the subject of EarnDeposit and EarnWithdraw.    *)
(***************************************************************************)
EXTENDS Positions, Sequences, FiniteSetsExt

CONSTANTS
  Vaults,
  Home,         \* the vault whose asset the wallet holds
  Funds,        \* balance of the wallet at the start
  Allowances,   \* what the pool may take at the start, one of these
  Amounts,      \* amounts the user types
  ScriptAmount, \* INTEGRATION_DEPOSIT_AMOUNT
  SkipWithdraw, \* INTEGRATION_SKIP_WITHDRAW
  MaxCalls,     \* bound: requests and stray transactions under way at a time
  MaxRows,      \* bound: transaction rows
  MaxFaults,    \* bound: requests that fail or time out, lost answers of the
                \* provider, transactions out of gas
  None

ASSUME VaultsAssumption ==
  Home \in Vaults /\ {None, "list", "portfolio"} \cap Vaults = {}
ASSUME AmountsAssumption ==
  /\ Amounts \cup {ScriptAmount} \subseteq Nat \ {0}
  /\ Allowances \cup {Funds, MaxCalls, MaxRows, MaxFaults} \subseteq Nat
  /\ SkipWithdraw \in BOOLEAN

VARIABLES
  url,        \* "list", "portfolio" or a vault
  page,       \* useAsync of the page: data is the selected vault or the position
  flow,       \* DepositFlow
  modal,      \* WithdrawModal
  script,     \* step of the script
  calls,      \* requests under way, and transactions no handler knows of
  rows,       \* number of transaction rows; the open ones are those of calls
  position,   \* the user's position in Home
  balance, allowance, supplied,  \* on chain: wallet, wallet to pool, aTokens
  unspent,    \* history: approved by the user, and not deposited since
  resent,     \* history: amounts of the approvals that were sent again
  confirmed,  \* history: what the API has confirmed of this run of the script
  faults

tabVars == <<url, page, flow, modal>>
chainVars == <<balance, allowance, supplied, unspent, resent>>
dbVars == <<rows, position, confirmed>>
vars == <<tabVars, script, calls, dbVars, chainVars, faults>>

Fault == faults < MaxFaults /\ faults' = faults + 1

-----------------------------------------------------------------------------
(* Requests. *)

Mutations == {"approve", "deposit", "withdraw"}
Ids(kind, by) == (1 .. MaxCalls) \ {c.id : c \in {d \in calls : d.kind = kind /\ d.by = by}}

Call(kind, by, vault, amount) ==
  [id |-> CHOOSE i \in Ids(kind, by) : \A j \in Ids(kind, by) : i <= j,
   kind |-> kind, by |-> by, vault |-> vault, amount |-> amount,
   pc |-> "sent", result |-> None, isNew |-> FALSE, read |-> NoPosition,
   awaited |-> TRUE,   \* its answer can still change something in the client
   live |-> TRUE,      \* the component that sent it is mounted
   raced |-> FALSE]    \* something of the wallet was mined since its checks

Change(c, d) == calls' = (calls \ {c}) \cup {d}

(* An answer nobody waits for is gone. *)
Answer(c, result) ==
  IF ~c.awaited THEN {}
  ELSE {[c EXCEPT !.pc = "answered", !.result = result, !.isNew = FALSE,
                  !.read = NoPosition, !.raced = FALSE]}

Answered(c, result) == calls' = (calls \ {c}) \cup Answer(c, result)

(* The row of a request is CREATED, then SUBMITTED, until it is settled.     *)
HasOpen(kind) == \E c \in calls : c.kind = kind /\ c.pc \in {"open", "pending", "mined"}

Inserted(c, isNew) ==
  /\ rows' = rows + 1
  /\ Change(c, [c EXCEPT !.pc = "open", !.isNew = isNew])

-----------------------------------------------------------------------------
(* The server. *)

BalanceOf(v) == IF v = Home THEN balance ELSE 0
AllowanceOf(v) == IF v = Home THEN allowance ELSE 0

AnswerPreview(c) ==
  /\ c.kind = "preview" /\ c.pc = "sent"
  /\ Answered(c, IF BalanceOf(c.vault) < c.amount THEN "refused"
                 ELSE IF AllowanceOf(c.vault) < c.amount THEN "approve" ELSE "deposit")
  /\ UNCHANGED <<tabVars, script, dbVars, chainVars, faults>>

AnswerPositions(c) ==
  /\ c.kind = "positions" /\ c.pc = "sent"
  /\ Change(c, [c EXCEPT !.pc = "answered", !.read = position])
  /\ UNCHANGED <<tabVars, script, dbVars, chainVars, faults>>

(* Any request may be refused before it has left a trace: rate limit,        *)
(* validation, an RPC or database error.                                     *)
Refuse(c) ==
  /\ c.pc \in {"sent", "checked"} /\ Fault
  /\ Answered(c, "refused")
  /\ UNCHANGED <<tabVars, script, dbVars, chainVars>>

ApproveRow(c) ==
  /\ c.kind = "approve" /\ c.pc = "sent"
  /\ IF AllowanceOf(c.vault) >= c.amount
       THEN rows' = rows + 1 /\ Answered(c, "CONFIRMED")
       ELSE Inserted(c, FALSE)
  /\ UNCHANGED <<tabVars, script, position, confirmed, chainVars, faults>>

(* Mutant of Affordable: the allowance is not checked. *)
CoveredByBalance(c) == BalanceOf(c.vault) >= c.amount

Affordable(c) == BalanceOf(c.vault) >= c.amount /\ AllowanceOf(c.vault) >= c.amount

CheckDeposit(c) ==
  /\ c.kind = "deposit" /\ c.pc = "sent"
  /\ IF Affordable(c) THEN Change(c, [c EXCEPT !.pc = "checked"]) ELSE Answered(c, "refused")
  /\ UNCHANGED <<tabVars, script, dbVars, chainVars, faults>>

AdmitDeposit(c) ==
  /\ c.kind = "deposit" /\ c.pc = "checked"
  /\ IF position.status = "PENDING" \/ HasOpen("deposit")
       THEN Answered(c, "refused") /\ UNCHANGED <<rows, position>>
       ELSE LET isNew == position.status = "NONE"
            IN  /\ Inserted(c, isNew)
                /\ position' = IF isNew THEN CreatePending ELSE position
  /\ UNCHANGED <<tabVars, script, confirmed, chainVars, faults>>

CheckWithdraw(c) ==
  /\ c.kind = "withdraw" /\ c.pc = "sent"
  /\ IF position.status = "ACTIVE" /\ position.shares <= supplied
       THEN Change(c, [c EXCEPT !.pc = "checked", !.read = position])
       ELSE Answered(c, "refused")
  /\ UNCHANGED <<tabVars, script, dbVars, chainVars, faults>>

AdmitWithdraw(c) ==
  /\ c.kind = "withdraw" /\ c.pc = "checked"
  /\ IF HasOpen("withdraw")
       THEN Answered(c, "refused") /\ UNCHANGED <<rows, position>>
       ELSE /\ Inserted(c, FALSE)
            /\ position' = MarkWithdrawing(position)
  /\ UNCHANGED <<tabVars, script, confirmed, chainVars, faults>>

(* sendTransaction, with an answer that comes back. *)
Broadcast(c) ==
  /\ c.pc = "open"
  /\ Change(c, [c EXCEPT !.pc = "pending"])
  /\ UNCHANGED <<tabVars, script, dbVars, chainVars, faults>>

(* A transaction of c the provider has accepted without the handler's knowing. *)
Stray(c) ==
  [Call(c.kind, "provider", c.vault, c.amount)
     EXCEPT !.pc = "stray", !.awaited = FALSE, !.live = FALSE]

AmountIfApprove(c) == IF c.kind = "approve" THEN c.amount ELSE 0

(* The provider's answer is lost: withRetry sends the transaction again, with *)
(* another key.                                                               *)
SendsAgain(c) ==
  /\ c.pc = "open" /\ Fault
  /\ Cardinality(calls) < MaxCalls /\ calls' = calls \cup {Stray(c)}
  /\ resent' = resent + AmountIfApprove(c)
  /\ UNCHANGED <<tabVars, script, dbVars, balance, allowance, supplied, unspent>>

GivenBack(c) ==
  CASE c.kind = "deposit" /\ c.isNew -> MarkPositionFailed(position)
    [] c.kind = "withdraw" -> MarkActive(position)
    [] OTHER -> position

BroadcastFails(c) ==
  /\ c.pc = "open" /\ Fault
  /\ position' = GivenBack(c)
  /\ Answered(c, "failed")
  /\ UNCHANGED <<tabVars, script, rows, confirmed, chainVars>>

(* The same when a transaction is on its way: the last answer of the provider *)
(* is lost, the row cannot be marked, or the receipt cannot be had.           *)
HandlerThrows(c) ==
  /\ c.pc \in {"open", "pending"} /\ Fault
  /\ position' = GivenBack(c)
  /\ Cardinality(calls) < MaxCalls
  /\ calls' = (calls \ {c}) \cup Answer(c, "failed") \cup {Stray(c)}
  /\ UNCHANGED <<tabVars, script, rows, confirmed, chainVars>>

(* Mutant of ApprovedAmount: an unlimited approval. *)
Unlimited(c) == 100

ApprovedAmount(c) == c.amount

(* One transaction of the wallet is mined, a stray one too: it succeeds, is  *)
(* reverted because the pool cannot take or give what is asked, or runs out  *)
(* of gas.                                                                   *)
Possible(c) ==
  /\ c.kind = "deposit" => balance >= c.amount /\ allowance >= c.amount
  /\ c.kind = "withdraw" => supplied > 0

Mined(c, result) ==
  /\ c.pc \in {"pending", "stray"}
  /\ calls' = {[d EXCEPT !.raced = d.raced \/ d.pc \in {"checked", "open", "pending"}]
                 : d \in calls \ {c}}
              \cup (IF c.pc = "stray" THEN {}
                    ELSE {[c EXCEPT !.pc = "mined", !.result = result]})
  /\ UNCHANGED <<tabVars, script, dbVars>>

MineApprove(c) ==
  /\ c.kind = "approve" /\ Possible(c) /\ Mined(c, "success")
  /\ allowance' = ApprovedAmount(c)
  /\ UNCHANGED <<balance, supplied, unspent, resent, faults>>

MineDeposit(c) ==
  /\ c.kind = "deposit" /\ Possible(c) /\ Mined(c, "success")
  /\ balance' = balance - c.amount
  /\ allowance' = allowance - c.amount
  /\ supplied' = supplied + c.amount
  /\ unspent' = unspent - c.amount
  /\ UNCHANGED <<resent, faults>>

MineWithdraw(c) ==
  /\ c.kind = "withdraw" /\ Possible(c) /\ Mined(c, "success")
  /\ balance' = balance + supplied
  /\ supplied' = 0
  /\ UNCHANGED <<allowance, unspent, resent, faults>>

MineRevert(c) ==
  /\ c.kind \in Mutations
  /\ \/ ~Possible(c) /\ Mined(c, "reverted") /\ UNCHANGED faults
     \/ Possible(c) /\ Mined(c, "outOfGas") /\ Fault
  /\ UNCHANGED chainVars

Mine(c) == MineApprove(c) \/ MineDeposit(c) \/ MineWithdraw(c) \/ MineRevert(c)

Booked(c) ==
  CASE c.kind = "approve" -> position
    [] c.kind = "deposit" -> IF c.isNew THEN Activate(position, c.amount, c.amount)
                             ELSE AddDeposit(position, c.amount, c.amount)
    [] c.kind = "withdraw" -> SubtractWithdraw(position, c.read.current, c.read.shares)

(* The handler has the receipt; a reverted transaction is an answer too. *)
Settle(c) ==
  /\ c.pc = "mined"
  /\ Answered(c, IF c.result = "success" THEN "CONFIRMED" ELSE "REVERTED")
  /\ position' = IF c.result = "success" THEN Booked(c) ELSE GivenBack(c)
  /\ confirmed' = IF c.by = "script" /\ c.result = "success" THEN confirmed \cup {c.kind}
                  ELSE confirmed
  /\ UNCHANGED <<tabVars, script, rows, chainVars, faults>>

-----------------------------------------------------------------------------
(* useAsync: a new URL or a refresh cancels the loads before it. *)

FreshFlow == [step |-> "amount", amount |-> 0, busy |-> FALSE]
ClosedModal == [open |-> FALSE, busy |-> FALSE]

Loads == {"vaults", "positions"}
OnVaultsPage(u) == u # "portfolio"

RowsToCome == {c \in calls : c.kind \in Mutations /\ c.pc \in {"sent", "checked"}}

Sent(c, others) ==
  /\ Cardinality(others) < MaxCalls
  /\ c.kind \in Mutations => rows + Cardinality(RowsToCome) < MaxRows
  /\ calls' = others \cup {c}

Load(u) ==
  IF OnVaultsPage(u) THEN Call("vaults", "tab", IF u \in Vaults THEN u ELSE None, 0)
  ELSE Call("positions", "tab", None, 0)

(* Mutant of Cancelled: the effect has no clean-up. *)
StillWanted(others) == others

(* The answer of a cancelled load changes nothing any more. *)
Cancelled(others) == {c \in others : c.by = "script" \/ c.kind \notin Loads}

(* What the page shows goes while it loads, and its dialogs with it: only a  *)
(* deposit, which navigates, and a withdrawal whose page stays, which        *)
(* refreshes it, still matter to the tab.                                    *)
Matters(kind, leaves) == kind = "deposit" \/ (kind = "withdraw" /\ ~leaves)

Unmounted(others, leaves) ==
  {IF c.by = "script" \/ c.kind \in Loads THEN c
   ELSE [c EXCEPT !.live = FALSE,
                  !.awaited = @ /\ Matters(c.kind, leaves)]
     : c \in {d \in others : d.by = "script" \/ d.kind # "preview"}}

Refresh(u, others) ==
  LET leaves == OnVaultsPage(u) # OnVaultsPage(url)
      kept   == Unmounted(Cancelled(others), leaves)
  IN  /\ page' = [loading |-> TRUE, failed |-> FALSE, data |-> IF leaves THEN None ELSE page.data]
      /\ flow' = FreshFlow /\ modal' = ClosedModal
      /\ Sent(Load(u), {c \in kept : c.awaited \/ c.pc # "answered"})

(* A link, or the browser's back and forward. *)
Go(u) ==
  /\ u # url /\ url' = u
  /\ Refresh(u, calls)
  /\ UNCHANGED <<script, dbVars, chainVars, faults>>

Retry ==
  /\ page.failed /\ ~page.loading /\ ~modal.open
  /\ OnVaultsPage(url) => page.data = None
  /\ Refresh(url, calls)
  /\ UNCHANGED <<url, script, dbVars, chainVars, faults>>

Delivers(c) ==
  /\ c.by = "tab" /\ c.awaited
  /\ \/ c.kind = "vaults" /\ c.pc = "sent"
     \/ c.kind = "positions" /\ c.pc = "answered"
  /\ calls' = calls \ {c}

Deliver(c) ==
  /\ Delivers(c) /\ c.result # "refused"
  /\ page' = [page EXCEPT !.loading = FALSE,
                          !.data = IF c.kind = "vaults" THEN c.vault ELSE c.read]
  /\ UNCHANGED <<url, flow, modal, script, dbVars, chainVars, faults>>

LoadFails(c) ==
  /\ \/ Delivers(c) /\ c.result = "refused" /\ UNCHANGED faults
     \/ c.by = "tab" /\ c.kind \in Loads /\ calls' = calls \ {c} /\ Fault
  /\ page' = [page EXCEPT !.loading = FALSE, !.failed = TRUE]
  /\ UNCHANGED <<url, flow, modal, script, dbVars, chainVars>>

-----------------------------------------------------------------------------
(* DepositFlow and WithdrawModal. *)

FlowShown == OnVaultsPage(url) /\ ~page.loading /\ page.data # None

Click(step, kind, amount) ==
  /\ FlowShown /\ flow.step = step /\ ~flow.busy
  /\ flow' = [flow EXCEPT !.busy = TRUE]
  /\ Sent(Call(kind, "tab", page.data, amount), calls)
  /\ UNCHANGED <<url, page, modal, script, dbVars, balance, allowance, supplied, resent, faults>>

HandlePreview(a) == Click("amount", "preview", a) /\ UNCHANGED unspent

HandleApprove ==
  /\ Click("approve", "approve", flow.amount)
  /\ unspent' = unspent + flow.amount

HandleDeposit == Click("deposit", "deposit", flow.amount) /\ UNCHANGED unspent

Fails(c) == c.result \in {"refused", "failed"}

Receives(c, kind) ==
  /\ c.by = "tab" /\ c.kind = kind /\ c.pc = "answered"
  /\ UNCHANGED <<script, dbVars, chainVars, faults>>

FlowGoesTo(c, step, amount) ==
  flow' = IF c.live THEN [step |-> step, amount |-> amount, busy |-> FALSE] ELSE flow

PreviewReturns(c) ==
  /\ Receives(c, "preview") /\ ~Fails(c)
  /\ FlowGoesTo(c, c.result, c.amount)
  /\ calls' = calls \ {c}
  /\ UNCHANGED <<url, page, modal>>

ApproveReturns(c) ==
  /\ Receives(c, "approve") /\ ~Fails(c)
  /\ FlowGoesTo(c, "deposit", flow.amount)
  /\ calls' = calls \ {c}
  /\ UNCHANGED <<url, page, modal>>

(* onComplete goes to the portfolio, also from a flow that is not shown any  *)
(* more.                                                                     *)
DepositReturns(c) ==
  /\ Receives(c, "deposit") /\ ~Fails(c)
  /\ IF url = "portfolio"
       THEN calls' = calls \ {c} /\ UNCHANGED tabVars
       ELSE url' = "portfolio" /\ Refresh("portfolio", calls \ {c})

CanWithdraw == page.data # None /\ page.data.status = "ACTIVE" /\ page.data.current > 0

OpenModal ==
  /\ url = "portfolio" /\ ~page.loading /\ CanWithdraw /\ ~modal.open
  /\ modal' = [open |-> TRUE, busy |-> FALSE]
  /\ UNCHANGED <<url, page, flow, script, calls, dbVars, chainVars, faults>>

CloseModal ==
  /\ modal.open
  /\ modal' = ClosedModal
  /\ calls' = Unmounted(calls, FALSE)
  /\ UNCHANGED <<url, page, flow, script, dbVars, chainVars, faults>>

HandleFullWithdraw ==
  /\ modal.open /\ ~modal.busy
  /\ modal' = [modal EXCEPT !.busy = TRUE]
  /\ Sent(Call("withdraw", "tab", Home, 0), calls)
  /\ UNCHANGED <<url, page, flow, script, dbVars, chainVars, faults>>

WithdrawReturns(c) ==
  /\ Receives(c, "withdraw") /\ ~Fails(c)
  /\ Refresh(url, calls \ {c})
  /\ UNCHANGED url

(* finally: the button comes back, the flow stays at its step. *)
ButtonBack(c) ==
  /\ flow' = IF c.live /\ c.kind # "withdraw" THEN [flow EXCEPT !.busy = FALSE] ELSE flow
  /\ modal' = IF c.live /\ c.kind = "withdraw" THEN [modal EXCEPT !.busy = FALSE] ELSE modal
  /\ UNCHANGED <<url, page>>

RequestFails(c) ==
  /\ c.kind \notin Loads /\ Receives(c, c.kind) /\ Fails(c)
  /\ ButtonBack(c)
  /\ calls' = calls \ {c}

(* AbortSignal.timeout: the request is still under way on the server. *)
TimesOut(c) ==
  /\ c.by = "tab" /\ c.kind \notin Loads /\ c.awaited /\ c.pc # "answered" /\ Fault
  /\ Change(c, [c EXCEPT !.awaited = FALSE, !.live = FALSE])
  /\ ButtonBack(c)
  /\ UNCHANGED <<script, dbVars, chainVars>>

-----------------------------------------------------------------------------
(* The script. *)

Waiting == \E c \in calls : c.by = "script"

(* The steps that only ask and print, before the preview (health, auth,      *)
(* wallet, vaults) and after the deposit (position, transactions); fail()    *)
(* ends the process.                                                         *)
ScriptReads ==
  /\ script \in {"start", "deposited"}
  /\ \/ /\ script' = IF script = "start" THEN "preview"
                      ELSE IF SkipWithdraw THEN "ended" ELSE "withdraw"
        /\ UNCHANGED faults
     \/ Fault /\ script' = "exit 1"
  /\ UNCHANGED <<tabVars, calls, dbVars, chainVars>>

ScriptSends ==
  /\ script \in {"preview"} \cup Mutations /\ ~Waiting
  /\ Sent(Call(script, "script", Home, ScriptAmount), calls)
  /\ unspent' = IF script = "approve" THEN unspent + ScriptAmount ELSE unspent
  /\ UNCHANGED <<tabVars, script, dbVars, balance, allowance, supplied, resent, faults>>

(* Mutant of Accepts: the status of a deposit is not looked at. *)
AcceptsAnyAnswer(c) == c.kind = "deposit" \/ c.kind = "withdraw" => ~Fails(c)

Accepts(c) == c.kind \in {"deposit", "withdraw"} => c.result = "CONFIRMED"

AfterAnswer(c) ==
  CASE c.kind = "preview" -> c.result
    [] c.kind = "approve" -> "deposit"
    [] c.kind = "deposit" -> "deposited"
    [] c.kind = "withdraw" -> "ended"

ScriptReceives(c) ==
  /\ c.by = "script" /\ c.pc = "answered"
  /\ calls' = calls \ {c}
  /\ script' = IF Fails(c) \/ ~Accepts(c) THEN "exit 1"
               ELSE AfterAnswer(c)
  /\ UNCHANGED <<tabVars, dbVars, chainVars, faults>>

ScriptRestarts ==
  /\ script = "exit 1"
  /\ script' = "start"
  /\ confirmed' = {}
  /\ UNCHANGED <<tabVars, calls, rows, position, chainVars, faults>>

-----------------------------------------------------------------------------
Init ==
  /\ url = "list" /\ page = [loading |-> FALSE, failed |-> FALSE, data |-> None]
  /\ flow = FreshFlow /\ modal = ClosedModal
  /\ script = "start"
  /\ calls = {} /\ rows = 0 /\ confirmed = {} /\ position = NoPosition
  /\ balance = Funds /\ supplied = 0
  /\ allowance \in Allowances /\ unspent = allowance /\ resent = 0
  /\ faults = 0

Server(c) ==
  \/ AnswerPreview(c) \/ AnswerPositions(c) \/ Refuse(c)
  \/ ApproveRow(c) \/ CheckDeposit(c) \/ AdmitDeposit(c) \/ CheckWithdraw(c) \/ AdmitWithdraw(c)
  \/ Broadcast(c) \/ SendsAgain(c) \/ BroadcastFails(c) \/ HandlerThrows(c)
  \/ Mine(c) \/ Settle(c)

Tab ==
  \/ \E u \in {"list", "portfolio"} \cup Vaults : Go(u)
  \/ Retry
  \/ \E a \in Amounts : HandlePreview(a)
  \/ HandleApprove \/ HandleDeposit
  \/ OpenModal \/ CloseModal \/ HandleFullWithdraw
  \/ \E c \in calls :
       \/ Deliver(c) \/ LoadFails(c)
       \/ PreviewReturns(c) \/ ApproveReturns(c) \/ DepositReturns(c) \/ WithdrawReturns(c)
       \/ RequestFails(c) \/ TimesOut(c)

Script == ScriptReads \/ ScriptSends \/ ScriptRestarts \/ \E c \in calls : ScriptReceives(c)

Next == Tab \/ Script \/ \E c \in calls : Server(c)

Spec == Init /\ [][Next]_vars

-----------------------------------------------------------------------------
(***************************************************************************)
(* The checks depositVault and withdrawPosition make before they send      *)
(* anything are enough: the pool refuses a transaction that passed them    *)
(* only if another transaction of the wallet was mined in between.  One    *)
(* case escapes the checks: of two withdrawals checked together the second *)
(* reverts, and its markActive makes the position the first has closed     *)
(* ACTIVE again, without a share; the next full withdrawal finds it ACTIVE *)
(* and nothing missing on chain, and the pool refuses to withdraw nothing. *)
(***************************************************************************)
RevertNeedsRace ==
  \A c \in calls :
    c.pc = "mined" /\ c.result = "reverted" =>
      c.raced \/ (c.kind = "withdraw" /\ c.read.shares = 0)

(***************************************************************************)
(* handleApprove, approveVault, encodeErc20Approve and withRetry: whatever *)
(* is clicked again after a timeout, whichever client comes first and      *)
(* however late a transaction is mined, the deposits add up to more than   *)
(* the user has approved at most by the approvals that withRetry has sent  *)
(* again.  Such a second approval does give back an allowance a deposit    *)
(* has already used.                                                       *)
(***************************************************************************)
DepositsAreApproved == unspent + resent >= 0

(***************************************************************************)
(* run-testnet-earn-flow reports success only of a deposit and a           *)
(* withdrawal of its own that are confirmed.                               *)
(***************************************************************************)
SuccessMeansConfirmed ==
  script = "ended" => {"deposit"} \cup (IF SkipWithdraw THEN {} ELSE {"withdraw"}) \subseteq confirmed

(***************************************************************************)
(* VaultsPage and useAsync: a deposit form that follows a successful load  *)
(* is the form of the vault in the address, however late earlier answers   *)
(* come.                                                                   *)
(***************************************************************************)
FormIsOfItsVault == FlowShown /\ ~page.failed => page.data = url

-----------------------------------------------------------------------------
(* Why they hold: an inductive invariant. *)

Kinds == Mutations \cup Loads \cup {"preview"}

CallType(c) ==
  c \in [id : {c.id}, kind : Kinds, by : {"tab", "script", "provider"},
         vault : Vaults \cup {None}, amount : Nat,
         pc : {"sent", "checked", "open", "pending", "stray", "mined", "answered"},
         result : {None, "refused", "failed", "approve", "deposit", "success", "reverted",
                   "outOfGas", "CONFIRMED", "REVERTED"},
         isNew : BOOLEAN, read : Position, awaited : BOOLEAN, live : BOOLEAN, raced : BOOLEAN]

PageData == IF OnVaultsPage(url) THEN Vaults \cup {None} ELSE Position \cup {None}

TypeOK ==
  /\ url \in {"list", "portfolio"} \cup Vaults
  /\ page \in [loading : BOOLEAN, failed : BOOLEAN, data : PageData]
  /\ flow \in [step : {"amount", "approve", "deposit"}, amount : Nat, busy : BOOLEAN]
  /\ modal \in [open : BOOLEAN, busy : BOOLEAN]
  /\ script \in {"start", "preview", "deposited", "ended", "exit 1"} \cup Mutations
  /\ IsFiniteSet(calls) /\ \A c \in calls : CallType(c)
  /\ rows \in Nat /\ faults \in Nat /\ confirmed \subseteq Mutations
  /\ position \in Position /\ position.shares >= 0
  /\ {balance, allowance, supplied, resent} \subseteq Nat /\ unspent \in Int

(* A request that only asks is answered in one step. *)
Underway == {"checked", "open", "pending"}

CallKnown(c) ==
  /\ c.kind \notin Mutations => c.pc \in {"sent", "answered"}
  /\ c.kind = "preview" /\ c.pc = "answered" => c.result \in {"refused", "approve", "deposit"}
  /\ c.kind \in {"preview", "approve", "deposit"} => c.amount > 0
  /\ c.read.shares >= 0

(* What a request has checked is so as long as nothing has been mined since. *)
ChecksHold(c) ==
  /\ c.pc \in Underway /\ ~c.raced =>
       /\ c.kind = "deposit" => balance >= c.amount /\ allowance >= c.amount
       /\ c.kind = "withdraw" => c.read.shares <= supplied
  /\ c.pc = "mined" /\ c.result = "reverted" =>
       c.raced \/ (c.kind = "withdraw" /\ c.read.shares = 0)

(* The form has its amount from the preview on. *)
FlowHasAmount ==
  /\ flow.step # "amount" => flow.amount > 0
  /\ \A c \in calls : c.by = "tab" /\ c.kind = "approve" /\ c.live => flow.amount > 0

(* What the transactions of a request may still add to the allowance. *)
ToApprove(c) == IF c.kind = "approve" /\ c.pc \notin {"mined", "answered"} THEN c.amount ELSE 0

ToApproveOf(S) ==
  LET toApprove == [c \in S |-> ToApprove(c)] IN MapThenSumSet(LAMBDA c : toApprove[c], S)

WithinApproval == unspent + resent >= allowance + ToApproveOf(calls)

ScriptCalls == {c \in calls : c.by = "script"}

(* The script waits for one answer at a time, the one of its step. *)
ScriptKnows ==
  /\ \A c, d \in ScriptCalls : c = d
  /\ \A c \in ScriptCalls :
       /\ c.kind = script
       /\ c.pc = "answered" /\ c.result = "CONFIRMED" /\ c.kind \in {"deposit", "withdraw"}
            => c.kind \in confirmed
  /\ script \in {"deposited", "withdraw", "ended"} => "deposit" \in confirmed
  /\ script = "ended" /\ ~SkipWithdraw => "withdraw" \in confirmed

VaultInUrl == IF url \in Vaults THEN url ELSE None

(* A load that is not cancelled is the load of the page. *)
LoadsOfPage ==
  /\ \A c \in calls :
       /\ c.kind = "vaults" => OnVaultsPage(url) /\ c.vault = VaultInUrl
       /\ c.kind = "positions" => ~OnVaultsPage(url)
  /\ OnVaultsPage(url) /\ ~page.loading /\ ~page.failed => page.data = VaultInUrl

(***************************************************************************)
(* What requests, their checks, the form and the script know of each other. *)
(***************************************************************************)
ClientsInv ==
  /\ TypeOK
  /\ \A c \in calls : CallKnown(c) /\ ChecksHold(c)
  /\ FlowHasAmount
  /\ WithinApproval
  /\ ScriptKnows
  /\ LoadsOfPage
=============================================================================
