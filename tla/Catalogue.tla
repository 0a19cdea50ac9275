------------------------------ MODULE Catalogue ------------------------------
(***************************************************************************)
(* The catalogue of chains, assets and vaults, which a process reads from  *)
(* its environment when it starts, and the requests of one user that are   *)
(* answered by it: the lists, the preview, and what deposits, approvals    *)
(* and withdrawals check before they touch anything.  The operator edits   *)
(* the environment and restarts; the vaults and positions tables stay.     *)
(*                                                                         *)
(* A request is one step here: the process keeps its configuration while   *)
(* it lives, and how the handlers race each other is Earn's subject.  All  *)
(* vaults lend one ERC-20 asset.  The code counts an aToken as a unit of   *)
(* it; the balance the protocol reports moves by itself, up with interest  *)
(* and down when it rounds.                                                *)
(***************************************************************************)
EXTENDS Naturals, FiniteSets, SequencesExt

CONSTANTS
    Chains, Testnets,
    Vaults,
    Wallets, Owned,      \* wallets, and those that belong to the user
    ChainOf,             \* the chain a wallet was created for
    Amounts,
    NoChain,
    MaxRestarts, MaxRequests,
    MaxDrift             \* bound: changes of a balance by the protocol

ASSUME CatalogueAssumption ==
    /\ IsFiniteSet(Chains) /\ Testnets \subseteq Chains /\ NoChain \notin Chains
    /\ IsFiniteSet(Wallets) /\ Owned \subseteq Wallets
    /\ ChainOf \in [Wallets -> Chains]
    /\ Amounts \subseteq Nat \ {0}
    /\ MaxRestarts \in Nat /\ MaxRequests \in Nat /\ MaxDrift \in Nat

VARIABLES
    config,      \* CHAINS_CONFIG, ASSETS_CONFIG, AAVE_VAULTS_CONFIG and
                 \* ALLOW_MAINNET_TRANSACTIONS, as the process loaded them
    row,         \* vaults table: the chain of each slug's row, or NoChain
    position,    \* positions table: the user's position in each vault
    held,        \* on chain: balanceOf each vault's aToken for each wallet
    drift,       \* how often the protocol has moved a balance by one unit
    restarts, requests

catalogueVars == <<config, row, position, held, drift, restarts, requests>>

\* "noRpc": listed without an RPC URL.  Every id is listed once, or the
\* process does not start, so the configuration is a function of the ids.
ChainEntry == {"absent", "noRpc", "disabled", "enabled"}

AssetEntry == BOOLEAN

\* A vault that is not listed is as one that is not enabled.  Its two switches
\* are on when they are left out, as the vault is enabled when they are read.
VaultEntry ==
    [chain : Chains, enabled : BOOLEAN, deposits : BOOLEAN, withdrawals : BOOLEAN]

Config == [mainnet : BOOLEAN, chain : [Chains -> ChainEntry],
           asset : [Chains -> AssetEntry], vault : [Vaults -> VaultEntry]]

NoPosition == [status |-> "NONE", shares |-> 0]

CatalogueTypeOK ==
    /\ config \in Config
    /\ row \in [Vaults -> Chains \cup {NoChain}]
    /\ position \in [Vaults -> [status : {"NONE", "ACTIVE", "CLOSED", "FAILED"},
                                shares : Nat]]
    /\ held \in [Wallets -> [Vaults -> Nat]]
    /\ restarts \in 0..MaxRestarts /\ requests \in 0..MaxRequests /\ drift \in 0..MaxDrift

-----------------------------------------------------------------------------
(* What is checked, in the order in which it is checked. *)

Refuse(condition, answer) == [refused |-> condition, answer |-> answer]

Verdict(checks) ==
    LET first == SelectInSeq(checks, LAMBDA c : c.refused)
    IN  IF first = 0 THEN "ok" ELSE checks[first].answer

\* The chain the catalogue has for the vault.
Home(v) == config.vault[v].chain

\* findVaultDefinition for a chain in cs.
Defined(v, cs) == config.vault[v].enabled /\ Home(v) \in cs

\* resolveAssetDecimals finds the asset.
HasDecimals(v) == config.asset[Home(v)]

\* createClient finds the chain and an RPC URL to read the reserve through.
HasClient(v) == config.chain[Home(v)] \notin {"absent", "noRpc"}

BuildChecks(v) == << Refuse(~HasDecimals(v), "error"), Refuse(~HasClient(v), "error") >>

\* AaveProvider.getVault.
VaultChecks(v, cs) == << Refuse(~Defined(v, cs), "not found") >> \o BuildChecks(v)

\* assertDepositEnabled and assertWithdrawEnabled.
DepositEnabled(v) == << Refuse(~config.vault[v].deposits, "deposits disabled") >>

WithdrawEnabled(v) == << Refuse(~config.vault[v].withdrawals, "withdrawals disabled") >>

\* assertChainMatchesEnvironment and assertRpcBelongsToChain.
ChainChecks(v) == <<
    Refuse(Home(v) \notin Testnets /\ ~config.mainnet, "forbidden"),
    Refuse(config.chain[Home(v)] # "enabled", "chain disabled") >>

\* assertWalletBelongsToUser and assertWalletChainMatchesVault.
WalletChecks(v, w) == <<
    Refuse(w \notin Owned, "not found"),
    Refuse(ChainOf[w] # Home(v), "wallet chain") >>

\* The gas it estimates is left to the chain.
PreviewChecks(v, w, amount, balance) ==
    VaultChecks(v, Chains) \o WalletChecks(v, w)
      \o << Refuse(balance < amount, "insufficient balance") >>

\* Mutant: an allowance that is just enough counts as too small.
RequiresMore(amount, allowance) == allowance <= amount

RequiresApproval(amount, allowance) == allowance < amount

ApproveChecks(v, w) ==
    VaultChecks(v, Chains) \o DepositEnabled(v) \o ChainChecks(v) \o WalletChecks(v, w)

DepositChecks(v, w, amount, balance, allowance) ==
    ApproveChecks(v, w) \o <<
        Refuse(balance < amount, "insufficient balance"),
        Refuse(allowance < amount, "insufficient allowance") >>

\* A full withdrawal is of what the position holds.
WithdrawAmount(v, amount, full) == IF full THEN position[v].shares ELSE amount

\* The vault is looked up for the chain in the position's row.
WithdrawChecks(v, w, amount, full) ==
    << Refuse(position[v].status # "ACTIVE", "position not active") >>
      \o VaultChecks(v, {row[v]}) \o WithdrawEnabled(v) \o ChainChecks(v) \o WalletChecks(v, w) \o <<
        Refuse(WithdrawAmount(v, amount, full) > position[v].shares, "insufficient position"),
        Refuse(WithdrawAmount(v, amount, full) > held[w][v], "insufficient position") >>

-----------------------------------------------------------------------------
(* The lists.  One vault that cannot be built fails the whole answer. *)

ListChains == {c \in Chains : config.chain[c] \in {"noRpc", "enabled"}}

ListAssets == {c \in Chains : config.asset[c]}

Filtered(cs) == {v \in Vaults : Defined(v, cs)}

ListVaults(cs) ==
    IF \A v \in Filtered(cs) : Verdict(BuildChecks(v)) = "ok"
    THEN Filtered(cs) ELSE {}

Opened == {v \in Vaults : position[v].status # "NONE"}

\* The position is shown with what its vault's row and the protocol say of it.
Shown(v) == Verdict(VaultChecks(v, {row[v]})) = "ok"

ListPositions == IF \A v \in Opened : Shown(v) THEN Opened ELSE {}

-----------------------------------------------------------------------------
(* Steps *)

\* Everything listed and switched on.
CatalogueInit ==
    /\ config \in [mainnet : BOOLEAN, chain : [Chains -> {"enabled"}],
                   asset : [Chains -> {TRUE}],
                   vault : [Vaults -> [chain : Chains, enabled : {TRUE},
                                       deposits : {TRUE}, withdrawals : {TRUE}]]]
    /\ row = [v \in Vaults |-> NoChain]
    /\ position = [v \in Vaults |-> NoPosition]
    /\ held = [w \in Wallets |-> [v \in Vaults |-> 0]]
    /\ restarts = 0 /\ requests = 0 /\ drift = 0

\* The operator changes one entry and restarts.
Restart ==
    /\ restarts < MaxRestarts
    /\ \/ config' = [config EXCEPT !.mainnet = ~@]
       \/ \E c \in Chains, entry \in ChainEntry : config' = [config EXCEPT !.chain[c] = entry]
       \/ \E c \in Chains : config' = [config EXCEPT !.asset[c] = ~@]
       \/ \E v \in Vaults, entry \in VaultEntry : config' = [config EXCEPT !.vault[v] = entry]
    /\ restarts' = restarts + 1
    /\ UNCHANGED <<row, position, held, drift, requests>>

\* EarnVaultRepository.findOrCreate: the update of a row that exists leaves its
\* chain as it is.
FindOrCreate(v) == IF row[v] = NoChain THEN Home(v) ELSE row[v]

\* Mutant: the balance written is the one of this deposit alone.
DepositedAnew(p, amount, success) ==
    IF success THEN [status |-> "ACTIVE", shares |-> amount] ELSE p

\* The position after a deposit: activate or addDeposit, or markFailed for a
\* new one.
Deposited(p, amount, success) ==
    IF success THEN [status |-> "ACTIVE", shares |-> p.shares + amount]
    ELSE IF p.status = "NONE" THEN [p EXCEPT !.status = "FAILED"] ELSE p

\* A deposit that is let through, and what became of its transaction.  The
\* wallet has the funds and the allowance whenever it needs them.
DepositVault(v, w, amount, success) ==
    /\ requests < MaxRequests
    /\ Verdict(DepositChecks(v, w, amount, amount, amount)) = "ok"
    /\ row' = [row EXCEPT ![v] = FindOrCreate(v)]
    /\ position' = [position EXCEPT ![v] = Deposited(@, amount, success)]
    /\ held' = IF success THEN [held EXCEPT ![w][v] = @ + amount] ELSE held
    /\ requests' = requests + 1
    /\ UNCHANGED <<config, drift, restarts>>

\* The position after a withdrawal: subtractWithdraw closes an empty one.
Withdrawn(p, amount) ==
    [status |-> IF p.shares = amount THEN "CLOSED" ELSE "ACTIVE", shares |-> p.shares - amount]

\* A withdrawal that is let through and succeeds; one that reverts leaves
\* everything as it was.  A full one takes every aToken of the wallet.
WithdrawPosition(v, w, amount, full) ==
    /\ requests < MaxRequests
    /\ Verdict(WithdrawChecks(v, w, amount, full)) = "ok"
    /\ position' = [position EXCEPT ![v] = Withdrawn(@, WithdrawAmount(v, amount, full))]
    /\ held' = [held EXCEPT ![w][v] = IF full THEN 0 ELSE @ - amount]
    /\ requests' = requests + 1
    /\ UNCHANGED <<config, row, drift, restarts>>

\* The pool's liquidity index has grown, or its division rounds otherwise.
BalanceDrifts(v, w) ==
    /\ drift < MaxDrift
    /\ held[w][v] > 0
    /\ \/ held' = [held EXCEPT ![w][v] = @ + 1]
       \/ held' = [held EXCEPT ![w][v] = @ - 1]
    /\ drift' = drift + 1
    /\ UNCHANGED <<config, row, position, restarts, requests>>

CatalogueNext ==
    \/ Restart
    \/ \E v \in Vaults, w \in Wallets, amount \in Amounts, yes \in BOOLEAN :
          DepositVault(v, w, amount, yes) \/ WithdrawPosition(v, w, amount, yes)
    \/ \E v \in Vaults, w \in Wallets : BalanceDrifts(v, w)

CatalogueSpec == CatalogueInit /\ [][CatalogueNext]_catalogueVars

-----------------------------------------------------------------------------
(* Properties *)

\* The aTokens of a vault in the user's wallets.
HeldIn(v) == MapThenSumSet(LAMBDA w : held[w][v], Owned)

\* Money that came in through a vault can leave through it.  The user's wallets
\* hold what the position says, up to what the protocol has moved by itself; and
\* wherever a deposit would be let through while withdrawals are switched on,
\* depositVault's checks are as good as withdrawPosition's: every amount that both
\* the position and the wallet have can be withdrawn.  A full withdrawal is let
\* through only for a wallet that holds at least what the position says: where
\* rounding has taken a unit it is refused, and does not take the lesser of both
\* as README.md says.  The one exception is a vault that was moved to another
\* chain after its row was inserted.
MoneyInCanLeave ==
    \A v \in Vaults :
        /\ HeldIn(v) <= position[v].shares + drift
        /\ position[v].shares <= HeldIn(v) + drift
        /\ \A w \in Wallets :
              /\ Verdict(ApproveChecks(v, w)) = "ok"
              /\ config.vault[v].withdrawals
              /\ row[v] = Home(v)
              => /\ \A amount \in 1 .. position[v].shares :
                       amount <= held[w][v] =>
                          Verdict(WithdrawChecks(v, w, amount, FALSE)) = "ok"
                 /\ position[v].shares > 0 =>
                       (Verdict(WithdrawChecks(v, w, 0, TRUE)) = "ok"
                          <=> held[w][v] >= position[v].shares)

\* A deposit that is accepted was previewed without an approval and could have
\* been approved; what lacks nothing but allowance was previewed as requiring an
\* approval, which is accepted; and what is approved and funded is accepted.
DepositAgrees(v, w, amount, balance, allowance) ==
    LET preview == Verdict(PreviewChecks(v, w, amount, balance))
        approve == Verdict(ApproveChecks(v, w))
        deposit == Verdict(DepositChecks(v, w, amount, balance, allowance))
    IN  /\ deposit = "ok" => ~RequiresApproval(amount, allowance)
        /\ deposit = "insufficient allowance" => RequiresApproval(amount, allowance)
        /\ deposit \in {"ok", "insufficient allowance"} => preview = "ok" /\ approve = "ok"
        /\ approve = "ok" /\ amount <= balance /\ amount <= allowance => deposit = "ok"

\* The endpoints of one catalogue say the same of a vault: of a deposit
\* whatever the wallet lacks for it; what can be approved has its chain and its
\* asset on the lists, and the vault too, if all vaults can be listed; and a
\* position that can be withdrawn from is on the list of positions, if that can
\* be answered.
EndpointsAgree ==
    \A v \in Vaults, w \in Wallets :
        /\ \A amount \in Amounts : \A balance, allowance \in {amount - 1, amount} :
              DepositAgrees(v, w, amount, balance, allowance)
        /\ Verdict(ApproveChecks(v, w)) = "ok" =>
              /\ Home(v) \in ListChains \cap ListAssets
              /\ \A cs \in SUBSET Chains :
                    ListVaults(cs) # {} /\ Home(v) \in cs => v \in ListVaults(cs)
        /\ \A amount \in Amounts, full \in BOOLEAN :
              Verdict(WithdrawChecks(v, w, amount, full)) = "ok" =>
                  Shown(v) /\ (ListPositions # {} => v \in ListPositions)
=============================================================================
