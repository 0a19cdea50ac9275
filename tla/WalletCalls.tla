----------------------------- MODULE WalletCalls -----------------------------
(***************************************************************************)
(* The calls one request on the user's wallets makes to the wallet         *)
(* provider: the list with live balances, a single wallet, the check of    *)
(* server-side signing, and the faucet.  A call may fail in every way the  *)
(* provider's client reports; withRetry repeats some of them, and          *)
(* getBalances repeats the repetitions of getWallet.  The two balance      *)
(* calls of a round run at once: when one fails the other is abandoned and *)
(* comes back to nobody, perhaps in the middle of a later round.           *)
(*                                                                         *)
(* Requests share nothing, so they are taken one after another here.       *)
(***************************************************************************)
EXTENDS Naturals, FiniteSets

CONSTANTS
    Wallets, Owned,   \* wallets, and those that belong to the user
    Supported,        \* wallets on a chain resolvePrivyChain knows
    FaucetWallets,    \* wallets on Base Sepolia
    MaxAttempts,
    NoWallet

ASSUME WalletCallsAssumption ==
    /\ IsFiniteSet(Wallets) /\ NoWallet \notin Wallets
    /\ Owned \subseteq Wallets
    /\ MaxAttempts \in Nat \ {0}

VARIABLES
    request,   \* what is asked, of which wallet, and the status answered or 0
    task,      \* where the work on each wallet is
    flying,    \* balance calls on their way
    gets,      \* look-ups of each wallet this request has made
    sends      \* transactions this request has handed to the provider

vars == <<request, task, flying, gets, sends>>

Kinds == {"list", "one", "signing", "faucet"}
Assets == {"eth", "usdc"}

Call == [wallet : Wallets, round : 1..MaxAttempts, asset : Assets]

\* round and attempt are the counters of the outer and the inner withRetry.
Task == [at : {"idle", "wallet", "balances", "shown", "bare", "signer", "signable", "send"},
         round : 1..MaxAttempts, attempt : 1..MaxAttempts]

IdleTask == [at |-> "idle", round |-> 1, attempt |-> 1]

TypeOK ==
    /\ request \in [kind : Kinds \cup {"none"}, wallet : Wallets \cup {NoWallet}, status : Nat]
    /\ task \in [Wallets -> Task]
    /\ flying \subseteq Call
    /\ gets \in [Wallets -> Nat] /\ sends \in Nat

-----------------------------------------------------------------------------
(* Errors *)

\* A name and a status, 0 where there is none.
Err(name, status) == [name |-> name, status |-> status]

\* What the provider's client throws.
ClientErrors == {
    Err("NotFoundError", 404), Err("RateLimitError", 429), Err("Error", 429),
    Err("APIConnectionTimeoutError", 0), Err("InternalServerError", 500), Err("Error", 0) }

Http(status) == Err("HttpException", status)

\* mapPrivyError
MapPrivyError(e) ==
    CASE e.name = "HttpException" -> e
      [] e = Err("NotFoundError", 404) -> Http(404)
      [] e = Err("RateLimitError", 429) -> Http(503)
      [] e.name = "APIConnectionTimeoutError" -> Http(504)
      [] OTHER -> IF e.status \in 400..499 THEN Http(400) ELSE Http(502)

\* What GlobalExceptionFilter answers when an error gets as far as that.
StatusOf(e) == IF e.name = "HttpException" THEN e.status ELSE 500

IsRetryablePrivyError(e) ==
    \/ e.status = 429 \/ e.status >= 500
    \/ e.name \in {"APIConnectionError", "APIConnectionTimeoutError", "InternalServerError"}

\* Mutant: the last attempt is followed by one more.
MayRetryOnceMore(e, n) == n <= MaxAttempts /\ IsRetryablePrivyError(e)

MayRetry(e, n) == n < MaxAttempts /\ IsRetryablePrivyError(e)

\* Mutant: the attempts are not counted.
SameAttempt(n) == n

NextAttempt(n) == n + 1

-----------------------------------------------------------------------------
Init ==
    /\ request = [kind |-> "none", wallet |-> NoWallet, status |-> 200]
    /\ task = [w \in Wallets |-> IdleTask]
    /\ flying = {}
    /\ gets = [w \in Wallets |-> 0] /\ sends = 0

At(w, stage) == request.status = 0 /\ task[w].at = stage

Goto(w, stage) == task' = [task EXCEPT ![w].at = stage]

\* The two counters stop one above what a request may do.
MaxGets == MaxAttempts * MaxAttempts + 2
MaxSends == MaxAttempts + 1

UpTo(bound, n) == IF n < bound THEN n + 1 ELSE n

Looks(w) == gets' = [gets EXCEPT ![w] = UpTo(MaxGets, @)]

Sends == sends' = UpTo(MaxSends, sends)

Answer(status) == request' = [request EXCEPT !.status = status]

\* getBalances begins; a chain the provider does not know ends it at once.
Begun(w) == [IdleTask EXCEPT !.at = IF w \in Supported THEN "wallet" ELSE "bare"]

FaucetDisabled(kind, faucet) == kind = "faucet" /\ ~faucet

NotOwned(kind, w) == kind # "list" /\ w \notin Owned

NoSigningKeys(kind, signing) == kind \in {"faucet", "signing"} /\ ~signing

\* What is refused before the provider is asked, in this order; 0 if nothing is.
\* The faucet is on one chain.
Refusal(kind, w, faucet, signing) ==
    IF FaucetDisabled(kind, faucet) THEN 403
    ELSE IF NotOwned(kind, w) THEN 404
    ELSE IF (kind = "faucet" /\ w \notin FaucetWallets) \/ NoSigningKeys(kind, signing) THEN 400
    ELSE 0

\* The work a request that is not refused begins on a wallet.
Started(kind, v) ==
    CASE kind \in {"list", "one"} -> Begun(v)
      [] kind = "signing" -> [IdleTask EXCEPT !.at = "signer"]
      [] kind = "faucet" -> [IdleTask EXCEPT !.at = "signable"]

\* The faucet is enabled or not where the request is served, and the signing
\* keys are set or not.
Ask(kind, w, faucet, signing) ==
    /\ request.status # 0 /\ flying = {}
    /\ kind = "list" <=> w = NoWallet
    /\ request' = [kind |-> kind, wallet |-> w, status |-> Refusal(kind, w, faucet, signing)]
    /\ task' = [v \in Wallets |->
                  IF request'.status = 0 /\ v \in (IF kind = "list" THEN Owned ELSE {w})
                  THEN Started(kind, v) ELSE IdleTask]
    /\ gets' = [v \in Wallets |-> 0] /\ sends' = 0
    /\ UNCHANGED flying

-----------------------------------------------------------------------------
(* getBalances, under attachBalances *)

\* The operation of the outer withRetry throws: another round, or execute maps
\* the error and attachBalances shows the wallet without balances.
RoundThrows(w, e) ==
    IF MayRetry(e, task[w].round)
    THEN task' = [task EXCEPT ![w] = [at |-> "wallet", round |-> NextAttempt(@.round), attempt |-> 1]]
    ELSE Goto(w, "bare")

\* getWallet within getBalances.
GetReturns(w) ==
    /\ At(w, "wallet")
    /\ Looks(w)
    /\ Goto(w, "balances")
    /\ flying' = flying \cup [wallet : {w}, round : {task[w].round}, asset : Assets]
    /\ UNCHANGED <<request, sends>>

\* The inner withRetry repeats the look-up or throws what execute maps it to.
GetFails(w, e) ==
    /\ At(w, "wallet")
    /\ Looks(w)
    /\ IF MayRetry(e, task[w].attempt)
         THEN task' = [task EXCEPT ![w].attempt = NextAttempt(@)]
         ELSE RoundThrows(w, MapPrivyError(e))
    /\ UNCHANGED <<request, flying, sends>>

\* A call of the round its wallet is waiting for, in a request not answered.
Awaited(call) ==
    /\ At(call.wallet, "balances")
    /\ task[call.wallet].round = call.round

\* Promise.all: the round is complete with its last answer.
BalanceReturns(call) ==
    /\ call \in flying
    /\ Awaited(call)
    /\ flying' = flying \ {call}
    /\ IF \E other \in flying' : other.wallet = call.wallet /\ Awaited(other)
         THEN UNCHANGED task
         ELSE Goto(call.wallet, "shown")
    /\ UNCHANGED <<request, gets, sends>>

\* Promise.all: the first error ends the round, not the other call.
BalanceFails(call, e) ==
    /\ call \in flying
    /\ Awaited(call)
    /\ flying' = flying \ {call}
    /\ RoundThrows(call.wallet, e)
    /\ UNCHANGED <<request, gets, sends>>

\* The answer of an abandoned call, or its error: nobody looks at it.
AbandonedEnds(call) ==
    /\ call \in flying
    /\ ~Awaited(call)
    /\ flying' = flying \ {call}
    /\ UNCHANGED <<request, task, gets, sends>>

\* The list, the single wallet and the checked one are answered when no wallet
\* is being worked on.
Respond ==
    /\ request.status = 0
    /\ \A w \in Wallets : task[w].at \in {"idle", "shown", "bare"}
    /\ Answer(200)
    /\ UNCHANGED <<task, flying, gets, sends>>

-----------------------------------------------------------------------------
(* ensureWalletServerSigner: outside execute, so nothing is repeated or mapped *)

\* The key quorum owns the wallet or is one of its signers, or it is not.
SignerReturns(w, signable) ==
    /\ At(w, "signer")
    /\ Looks(w)
    /\ IF signable
         THEN task' = [task EXCEPT ![w] = Begun(w)] /\ UNCHANGED request
         ELSE Goto(w, "idle") /\ Answer(400)
    /\ UNCHANGED <<flying, sends>>

SignerFails(w, e) ==
    /\ At(w, "signer")
    /\ Looks(w)
    /\ Goto(w, "idle")
    /\ Answer(StatusOf(e))
    /\ UNCHANGED <<flying, sends>>

-----------------------------------------------------------------------------
(* mintAaveTestUsdc: sendTransaction checks the signer and sends, both in one *)
(* operation that withRetry repeats                                           *)

SendThrows(w, e) ==
    IF MayRetry(e, task[w].round)
    THEN /\ task' = [task EXCEPT ![w].at = "signable", ![w].round = NextAttempt(@)]
         /\ UNCHANGED request
    ELSE Goto(w, "idle") /\ Answer(StatusOf(MapPrivyError(e)))

SignableReturns(w, signable) ==
    /\ At(w, "signable")
    /\ Looks(w)
    /\ IF signable THEN Goto(w, "send") /\ UNCHANGED request
                   ELSE SendThrows(w, Http(400))
    /\ UNCHANGED <<flying, sends>>

SignableFails(w, e) ==
    /\ At(w, "signable")
    /\ Looks(w)
    /\ SendThrows(w, e)
    /\ UNCHANGED <<flying, sends>>

SendReturns(w) ==
    /\ At(w, "send")
    /\ Sends
    /\ Goto(w, "idle") /\ Answer(201)
    /\ UNCHANGED <<flying, gets>>

SendFails(w, e) ==
    /\ At(w, "send")
    /\ Sends
    /\ SendThrows(w, e)
    /\ UNCHANGED <<flying, gets>>

-----------------------------------------------------------------------------
WalletEnds(w) ==
    \/ GetReturns(w) \/ SendReturns(w)
    \/ \E signable \in BOOLEAN : SignerReturns(w, signable) \/ SignableReturns(w, signable)
    \/ \E e \in ClientErrors :
          GetFails(w, e) \/ SignerFails(w, e) \/ SignableFails(w, e) \/ SendFails(w, e)

CallEnds(call) ==
    \/ BalanceReturns(call) \/ AbandonedEnds(call)
    \/ \E e \in ClientErrors : BalanceFails(call, e)

Next ==
    \/ \E kind \in Kinds, w \in Wallets \cup {NoWallet}, faucet, signing \in BOOLEAN :
          Ask(kind, w, faucet, signing)
    \/ \E w \in Wallets : WalletEnds(w)
    \/ \E call \in Call : CallEnds(call)
    \/ Respond

Spec == Init /\ [][Next]_vars

\* Every call ends, with an answer or with an error: the client gives up on
\* its own.  Nobody has to ask.
Fairness ==
    /\ \A w \in Wallets : WF_vars(WalletEnds(w))
    /\ \A call \in Call : WF_vars(CallEnds(call))
    /\ WF_vars(Respond)

FairSpec == Spec /\ Fairness

-----------------------------------------------------------------------------
(* Properties *)

\* However the two levels of repetition and the abandoned calls fall together,
\* one request looks up a wallet at most MaxAttempts times in each of
\* MaxAttempts rounds (and once more to check its signer), sends at most
\* MaxAttempts transactions, and never has more than one abandoned call of
\* each earlier round on its way besides the two of the last; and when it has
\* been answered nothing of it is still at work.
CallsAreBounded ==
    /\ TypeOK
    /\ \A w \in Wallets :
          /\ gets[w] <= MaxAttempts * MaxAttempts + (IF request.kind = "signing" THEN 1 ELSE 0)
          /\ Cardinality({call \in flying : call.wallet = w}) <= MaxAttempts + 1
          /\ request.status # 0 => task[w].at \in {"idle", "shown", "bare"}
    /\ sends <= MaxAttempts

\* Every request is answered, whatever errors its calls end in.
RequestsEnd == request.status = 0 ~> request.status # 0
=============================================================================
