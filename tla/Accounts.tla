------------------------------ MODULE Accounts ------------------------------
(***************************************************************************)
(* Users and wallets of the API: registration and login (AuthService), the *)
(* link of a user to a Privy user, and the creation of a wallet            *)
(* (WalletsService.createWallet over PrivyWalletService).                  *)
(*                                                                         *)
(* No handler here runs in a database transaction: every await is a step   *)
(* of its own, and other requests run between two of them.  A user's id is *)
(* the registration that inserted the row, a wallet's id the creation that *)
(* did.  Privy is external: it refuses a second user with the same custom  *)
(* id or e-mail address, and may fail or lose an answer at any call.       *)
(***************************************************************************)
EXTENDS Naturals, FiniteSets

CONSTANTS
  Registrations,  \* requests POST /auth/register
  Creations,      \* requests POST /wallets
  Spellings,      \* e-mail addresses as typed
  Emails,         \* e-mail addresses after trim().toLowerCase()
  MaybeKnown,     \* addresses Privy may know a user of from elsewhere
  Normal,         \* Spellings -> Emails: what that normalisation yields
  Typed,          \* Registrations -> Spellings: the address of the request
  UserOf,         \* Creations -> Registrations: the user of the token
  Wants,          \* Creations -> {"primary", "plain", "unsaid"}: dto.isPrimary
  MaxAttempts,    \* DEFAULT_MAX_ATTEMPTS of withRetry
  MaxFaults,      \* bound: failures of Privy, the database or the process
  ServerKeys,     \* authorization key and quorum id are configured
  Quorum,         \* the key quorum that owns wallets the server may sign for
  None

ASSUME RequestsAssumption ==
  /\ MaybeKnown \subseteq Emails
  /\ Normal \in [Spellings -> Emails]
  /\ Typed \in [Registrations -> Spellings]
  /\ UserOf \in [Creations -> Registrations]
  /\ Wants \in [Creations -> {"primary", "plain", "unsaid"}]

ASSUME LimitsAssumption == MaxAttempts \in Nat \ {0} /\ MaxFaults \in Nat /\ ServerKeys \in BOOLEAN

ASSUME NamesAssumption ==
  /\ None \notin Emails \cup Creations \cup Registrations
  /\ Quorum \notin Emails \cup Creations \cup {None}

VARIABLES
  registration,  \* stage of each registration
  users,         \* rows of User
  tokens,        \* users somebody holds an access token of
  linked,        \* User.privyUserId
  privyUsers,    \* users Privy knows
  creation,      \* stage of each wallet creation
  asPrimary,     \* isPrimary of the creation
  privyUser,     \* privyUserId in the hand of the creation
  attempts,      \* calls of wallets().create so far
  minted,        \* wallets Privy made
  rows,          \* rows of Wallet: the creation, and the attempt it stores
  primary,       \* wallet rows whose isPrimary is set
  earlier,       \* history: creations that had ended when this one began
  cleared,       \* history: creations that have reset the flags of their user
  faults

userVars == <<registration, users, tokens>>
linkVars == <<linked, privyUsers>>
walletVars == <<minted, rows, primary>>
vars == <<userVars, linkVars, creation, asPrimary, privyUser,
          attempts, walletVars, earlier, cleared, faults>>

PrivyIds == Emails \cup Creations
Ended == {"done", "failed"}
CreationStages == {"idle", "clear", "read", "byCustomId", "byEmail", "create",
                   "link", "mint", "insert"} \cup Ended
RegistrationStages == {"idle", "hash", "respond", "registered", "conflict", "failed"}

(* Mutant of Email: the address is not normalised. *)
EmailAsTyped(r) == Typed[r]

Email(r) == Normal[Typed[r]]
Taken(r) == \E u \in users : Email(u) = Email(r)
WalletsOf(u) == {w \in Creations : rows[w] # 0 /\ UserOf[w] = u}

Fault == faults < MaxFaults /\ faults' = faults + 1

Init ==
  /\ registration = [r \in Registrations |-> "idle"]
  /\ users = {} /\ tokens = {}
  /\ linked = [r \in Registrations |-> None]
  /\ privyUsers \in SUBSET {[id |-> e, custom |-> None, email |-> e] : e \in MaybeKnown}
  /\ creation = [w \in Creations |-> "idle"]
  /\ asPrimary = [w \in Creations |-> FALSE]
  /\ privyUser = [w \in Creations |-> None]
  /\ attempts = [w \in Creations |-> 0]
  /\ minted = {}
  /\ rows = [w \in Creations |-> 0]
  /\ primary = {}
  /\ earlier = [w \in Creations |-> {}]
  /\ cleared = {}
  /\ faults = 0

-----------------------------------------------------------------------------
(* Registration and login. *)

CheckEmail(r) ==
  /\ registration[r] = "idle"
  /\ registration' = [registration EXCEPT ![r] = IF Taken(r) THEN "conflict" ELSE "hash"]
  /\ UNCHANGED <<users, tokens, linkVars, creation, asPrimary,
                 privyUser, attempts, walletVars, earlier, cleared, faults>>

(* The unique index on User.email refuses the second of two registrations  *)
(* that both passed the check; that one is answered with an internal error. *)
InsertUser(r) ==
  /\ registration[r] = "hash"
  /\ IF Taken(r)
     THEN /\ registration' = [registration EXCEPT ![r] = "failed"]
          /\ UNCHANGED users
     ELSE /\ registration' = [registration EXCEPT ![r] = "respond"]
          /\ users' = users \cup {r}
  /\ UNCHANGED <<tokens, linkVars, creation, asPrimary, privyUser,
                 attempts, walletVars, earlier, cleared, faults>>

(* The audit entry cannot fail the request: AuditService.log swallows errors. *)
RespondRegistered(r) ==
  /\ registration[r] = "respond"
  /\ registration' = [registration EXCEPT ![r] = "registered"]
  /\ tokens' = tokens \cup {r}
  /\ UNCHANGED <<users, linkVars, creation, asPrimary, privyUser,
                 attempts, walletVars, earlier, cleared, faults>>

RegistrationFails(r) ==
  /\ registration[r] \in {"hash", "respond"}
  /\ Fault
  /\ registration' = [registration EXCEPT ![r] = "failed"]
  /\ UNCHANGED <<users, tokens, linkVars, creation, asPrimary,
                 privyUser, attempts, walletVars, earlier, cleared>>

(* Login with the address and the password of a registration.  Every other  *)
(* pair is unauthorized and changes nothing: rows are never changed.        *)
Login(r) ==
  /\ r \in users /\ r \notin tokens
  /\ tokens' = tokens \cup {r}
  /\ UNCHANGED <<registration, users, linkVars, creation, asPrimary,
                 privyUser, attempts, walletVars, earlier, cleared, faults>>

-----------------------------------------------------------------------------
(* Creation of a wallet. *)

GoTo(w, stage) == creation' = [creation EXCEPT ![w] = stage]

Begin(w) ==
  LET flag == IF Wants[w] = "unsaid" THEN WalletsOf(UserOf[w]) = {} ELSE Wants[w] = "primary"
  IN  /\ creation[w] = "idle" /\ UserOf[w] \in tokens
      /\ asPrimary' = [asPrimary EXCEPT ![w] = flag]
      /\ GoTo(w, IF flag THEN "clear" ELSE "read")
      /\ earlier' = [earlier EXCEPT ![w] = {v \in Creations : creation[v] \in Ended}]
      /\ UNCHANGED <<userVars, linkVars, privyUser, attempts, walletVars, cleared, faults>>

(* Mutant of Cleared: the WHERE clause forgets the user. *)
ClearedForEverybody(w) == {}

Cleared(w) == {v \in primary : UserOf[v] # UserOf[w]}

ClearPrimary(w) ==
  /\ creation[w] = "clear"
  /\ primary' = Cleared(w)
  /\ cleared' = cleared \cup {w}
  /\ GoTo(w, "read")
  /\ UNCHANGED <<userVars, linkVars, asPrimary, privyUser, attempts,
                 minted, rows, earlier, faults>>

ReadUser(w) ==
  /\ creation[w] = "read"
  /\ privyUser' = [privyUser EXCEPT ![w] = linked[UserOf[w]]]
  /\ GoTo(w, IF linked[UserOf[w]] = None THEN "byCustomId" ELSE "mint")
  /\ UNCHANGED <<userVars, linkVars, asPrimary, attempts, walletVars,
                 earlier, cleared, faults>>

(* Either look-up answers with the Privy user, or goes on when there is none *)
(* or, whatever the reason, when the call throws: both catches are empty.    *)
LookUp(w, stage, matches, next) ==
  /\ creation[w] = stage
  /\ \/ \E p \in matches :
          /\ privyUser' = [privyUser EXCEPT ![w] = p.id]
          /\ GoTo(w, "link")
          /\ UNCHANGED faults
     \/ /\ matches = {}
        /\ GoTo(w, next)
        /\ UNCHANGED <<privyUser, faults>>
     \/ /\ Fault
        /\ GoTo(w, next)
        /\ UNCHANGED privyUser
  /\ UNCHANGED <<userVars, linkVars, asPrimary, attempts, walletVars, earlier, cleared>>

LookUpCustomId(w) ==
  LookUp(w, "byCustomId", {p \in privyUsers : p.custom = UserOf[w]}, "byEmail")

LookUpEmail(w) ==
  LookUp(w, "byEmail", {p \in privyUsers : p.email = Email(UserOf[w])}, "create")

(* Mutant of NewPrivyUser: the e-mail address is not linked. *)
PrivyUserWithoutEmail(w) == [id |-> w, custom |-> UserOf[w], email |-> None]

NewPrivyUser(w) == [id |-> w, custom |-> UserOf[w], email |-> Email(UserOf[w])]

(* Privy's rule: one user for a custom id, one for an e-mail address. *)
Refused(new) == \E p \in privyUsers : p.custom = new.custom \/ p.email = new.email

CreatePrivyUser(w) ==
  /\ creation[w] = "create"
  /\ IF Refused(NewPrivyUser(w))
     THEN GoTo(w, "failed") /\ UNCHANGED <<privyUsers, privyUser, faults>>
     ELSE /\ privyUsers' = privyUsers \cup {NewPrivyUser(w)}
          /\ \/ /\ privyUser' = [privyUser EXCEPT ![w] = w]
                /\ GoTo(w, "link")
                /\ UNCHANGED faults
             \/ Fault /\ GoTo(w, "failed") /\ UNCHANGED privyUser
  /\ UNCHANGED <<userVars, linked, asPrimary, attempts, walletVars, earlier, cleared>>

(* Mutant of LinkUser: the id just found or made is used and never written. *)
LinkForgotten(w) ==
  /\ creation[w] = "link"
  /\ GoTo(w, "mint")
  /\ UNCHANGED <<userVars, linkVars, asPrimary, privyUser, attempts,
                 walletVars, earlier, cleared, faults>>

(* User.privyUserId is unique: the update of a second user is refused. *)
LinkUser(w) ==
  /\ creation[w] = "link"
  /\ IF \E r \in Registrations \ {UserOf[w]} : linked[r] = privyUser[w]
     THEN GoTo(w, "failed") /\ UNCHANGED linked
     ELSE GoTo(w, "mint") /\ linked' = [linked EXCEPT ![UserOf[w]] = privyUser[w]]
  /\ UNCHANGED <<userVars, privyUsers, asPrimary, privyUser, attempts,
                 walletVars, earlier, cleared, faults>>

(* Each attempt has an idempotency key of its own, so each one that reaches *)
(* Privy makes a wallet, whether or not its answer comes back.              *)
(* Mutant of NewWallet: one count for all attempts, none of them told apart. *)
SameWallet(w) ==
  [creation |-> w, attempt |-> 1, owner |-> IF ServerKeys THEN Quorum ELSE privyUser[w]]

NewWallet(w) ==
  [creation |-> w, attempt |-> attempts[w] + 1,
   owner |-> IF ServerKeys THEN Quorum ELSE privyUser[w]]

Mint(w) ==
  /\ creation[w] = "mint"
  /\ minted' = minted \cup {NewWallet(w)}
  /\ attempts' = [attempts EXCEPT ![w] = @ + 1]
  /\ GoTo(w, "insert")
  /\ UNCHANGED <<userVars, linkVars, asPrimary, privyUser, rows, primary,
                 earlier, cleared, faults>>

MintFails(w) ==
  /\ creation[w] = "mint"
  /\ Fault
  /\ minted' \in {minted, minted \cup {NewWallet(w)}}
  /\ attempts' = [attempts EXCEPT ![w] = @ + 1]
  /\ GoTo(w, IF attempts[w] + 1 < MaxAttempts THEN "mint" ELSE "failed")
  /\ UNCHANGED <<userVars, linkVars, asPrimary, privyUser, rows, primary, earlier, cleared>>

InsertWallet(w) ==
  /\ creation[w] = "insert"
  /\ rows' = [rows EXCEPT ![w] = attempts[w]]
  /\ primary' = IF asPrimary[w] THEN primary \cup {w} ELSE primary
  /\ GoTo(w, "done")
  /\ UNCHANGED <<userVars, linkVars, asPrimary, privyUser, attempts,
                 minted, earlier, cleared, faults>>

(* A statement of the database fails, Privy refuses for good, or the process dies. *)
CreationFails(w) ==
  /\ creation[w] \notin Ended \cup {"idle"}
  /\ Fault
  /\ GoTo(w, "failed")
  /\ UNCHANGED <<userVars, linkVars, asPrimary, privyUser, attempts,
                 walletVars, earlier, cleared>>

-----------------------------------------------------------------------------
Register(r) ==
  CheckEmail(r) \/ InsertUser(r) \/ RespondRegistered(r) \/ RegistrationFails(r) \/ Login(r)

CreateWallet(w) ==
  \/ Begin(w) \/ ClearPrimary(w)
  \/ ReadUser(w) \/ LookUpCustomId(w) \/ LookUpEmail(w) \/ CreatePrivyUser(w) \/ LinkUser(w)
  \/ Mint(w) \/ MintFails(w) \/ InsertWallet(w) \/ CreationFails(w)

Next == (\E r \in Registrations : Register(r)) \/ (\E w \in Creations : CreateWallet(w))

Spec == Init /\ [][Next]_vars

-----------------------------------------------------------------------------
TypeOK ==
  /\ registration \in [Registrations -> RegistrationStages]
  /\ users \in SUBSET Registrations /\ tokens \in SUBSET users
  /\ linked \in [Registrations -> PrivyIds \cup {None}]
  /\ privyUsers \in SUBSET [id : PrivyIds, custom : Registrations \cup {None}, email : Emails]
  /\ creation \in [Creations -> CreationStages]
  /\ asPrimary \in [Creations -> BOOLEAN]
  /\ privyUser \in [Creations -> PrivyIds \cup {None}]
  /\ attempts \in [Creations -> 0 .. MaxAttempts]
  /\ minted \in SUBSET [creation : Creations, attempt : 1 .. MaxAttempts,
                        owner : PrivyIds \cup {Quorum}]
  /\ rows \in [Creations -> 0 .. MaxAttempts]
  /\ primary \in SUBSET Creations
  /\ earlier \in [Creations -> SUBSET Creations]
  /\ cleared \in SUBSET Creations
  /\ faults \in 0 .. MaxFaults

(***************************************************************************)
(* AuthService.register: one account per mailbox, whatever spellings raced  *)
(* through the look-up; "registered" is only said of a row that exists,     *)
(* "conflict" only when somebody else has the address, and an error leaves  *)
(* an account behind, or the address free, only when something failed.      *)
(***************************************************************************)
Mailbox(r) == Normal[Typed[r]]

OneAccountPerMailbox ==
  /\ \A u, v \in users : Mailbox(u) = Mailbox(v) => u = v
  /\ \A r \in Registrations :
       LET others == {u \in users \ {r} : Mailbox(u) = Mailbox(r)}
       IN  /\ registration[r] = "registered" => r \in users
           /\ registration[r] = "conflict" => others # {} /\ r \notin users
           /\ registration[r] = "failed" /\ faults = 0 => others # {} /\ r \notin users

(***************************************************************************)
(* WalletsService.createWallet, the flag isPrimary, with no transaction     *)
(* around the reset and the insert: a user has two primary wallets only if  *)
(* the two creations overlapped; and a user who once got a primary wallet   *)
(* has none only while, or because, a later creation that had reset the     *)
(* flag has not inserted its own row.                                       *)
(***************************************************************************)
OnePrimaryWallet ==
  /\ \A v, w \in primary : UserOf[v] = UserOf[w] /\ v # w => v \notin earlier[w]
  /\ \A v \in Creations :
       asPrimary[v] /\ rows[v] # 0 =>
         \/ \E w \in primary : UserOf[w] = UserOf[v]
         \/ \E w \in Creations : w \in cleared /\ UserOf[w] = UserOf[v] /\ rows[w] = 0

(***************************************************************************)
(* createWallet of the provider under withRetry: a row stores a wallet that *)
(* Privy really made for this creation, owned by the server's quorum or by  *)
(* the Privy user its user is linked to; and every failure leaves at most   *)
(* one wallet nobody has a row of.                                          *)
(***************************************************************************)
Awaited(m) == creation[m.creation] = "insert" /\ attempts[m.creation] = m.attempt
Orphans == {m \in minted : rows[m.creation] # m.attempt /\ ~Awaited(m)}
StoresOwnWallet(w, n) ==
  \E m \in minted : /\ m.creation = w /\ m.attempt = n
                    /\ m.owner \in {Quorum, linked[UserOf[w]]}

WalletsAccountedFor ==
  /\ \A w \in Creations : rows[w] # 0 => StoresOwnWallet(w, rows[w])
  /\ Cardinality(Orphans) <= faults

(***************************************************************************)
(* ensurePrivyUserId: a user's link to Privy is made once and never moved   *)
(* to another Privy user, although two creations may look it up and write   *)
(* it at the same time and a failed look-up counts as "not found".          *)
(***************************************************************************)
LinkIsFinal ==
  [][\A r \in Registrations : linked[r] # None => linked'[r] = linked[r]]_linked


(***************************************************************************)
(* The inductive invariant of the proofs.                                   *)
(***************************************************************************)
UsersMatchRegistrations ==
  \A r \in Registrations :
    /\ r \in users => registration[r] \in {"respond", "registered", "failed"}
    /\ registration[r] = "respond" => r \in users

PrivyUsersApart ==
  /\ \A p, q \in privyUsers : p.email = q.email => p = q
  /\ \A p \in privyUsers : p.custom # None => p.email = Email(p.custom)

(* Whatever id a creation holds or a user row stores is the one Privy user  *)
(* with the address of that user.                                           *)
IsPrivyUserOf(id, r) == \E p \in privyUsers : p.id = id /\ p.email = Email(r)

LinksAreRight ==
  /\ \A r \in Registrations : linked[r] # None => IsPrivyUserOf(linked[r], r)
  /\ \A w \in Creations :
       /\ creation[w] = "link" => IsPrivyUserOf(privyUser[w], UserOf[w])
       /\ creation[w] \in {"mint", "insert"} =>
            privyUser[w] # None /\ privyUser[w] = linked[UserOf[w]]

FlagsFollowRows ==
  /\ \A w \in primary : asPrimary[w] /\ rows[w] # 0
  /\ \A w \in Creations : rows[w] # 0 => creation[w] = "done"
  /\ \A w \in Creations : creation[w] = "clear" => asPrimary[w]
  /\ \A w \in Creations : creation[w] # "idle" => \A v \in earlier[w] : creation[v] \in Ended
  /\ \A w \in cleared : asPrimary[w] /\ creation[w] \notin {"idle", "clear"}
  /\ \A w \in Creations :
       asPrimary[w] /\ creation[w] \notin {"idle", "clear", "failed"} => w \in cleared
  /\ \A w \in cleared :
       \A v \in primary : UserOf[v] = UserOf[w] => v \notin earlier[w]

AttemptsAreCounted ==
  \A w \in Creations :
    /\ creation[w] = "mint" => attempts[w] < MaxAttempts
    /\ creation[w] = "insert" => attempts[w] # 0 /\ StoresOwnWallet(w, attempts[w])
    /\ creation[w] \notin {"mint", "insert"} \cup Ended => attempts[w] = 0

MintedInOrder ==
  /\ \A m \in minted : m.attempt <= attempts[m.creation]
  /\ \A m, n \in minted : m.creation = n.creation /\ m.attempt = n.attempt => m = n

RowsStoreOwnWallets == \A w \in Creations : rows[w] # 0 => StoresOwnWallet(w, rows[w])

AccountsInv ==
  /\ TypeOK
  /\ UsersMatchRegistrations
  /\ OneAccountPerMailbox
  /\ PrivyUsersApart
  /\ LinksAreRight
  /\ FlagsFollowRows
  /\ OnePrimaryWallet
  /\ AttemptsAreCounted
  /\ MintedInOrder
  /\ RowsStoreOwnWallets
=============================================================================
