------------------------------ MODULE Session ------------------------------
(***************************************************************************)
(* One browser tab of the web frontend: the session (client.ts,            *)
(* AuthContext), the list of wallets it shows (WalletContext) and the      *)
(* pages that call them, against an API whose answers may be late, may     *)
(* arrive in another order than they were asked for, or not at all.        *)
(*                                                                         *)
(* A list request is answered (the server reads) and delivered (all three  *)
(* calls of refresh have settled) in two steps.  So is a creation on the   *)
(* server: the primary flags are cleared before the wallet provider is     *)
(* asked for the wallet, which is stored when it has come.  A wallet of a  *)
(* user is its number.                                                     *)
(***************************************************************************)
EXTENDS Naturals, FiniteSets, Sequences, SequencesExt

CONSTANTS
  Users,
  MaxWallets,   \* bound: wallets of a user
  MaxLists,     \* bound: list requests
  MaxFaults,    \* bound: requests that fail
  MaxSignIns,   \* bound: submissions of the login form
  None

(* A create request under way: the token it was sent with, whether the server *)
(* has cleared the primary flags for it, and the wallet made, 0 if none yet.  *)
Creation == [token : Users, cleared : BOOLEAN, wallet : Nat]

ASSUME BoundsAssumption ==
  /\ {MaxWallets, MaxLists, MaxFaults, MaxSignIns} \subseteq Nat
  /\ None \notin Users /\ None \notin Creation

VARIABLES
  token,      \* accessToken, in memory and in localStorage
  user,       \* user of AuthContext
  loading,    \* loading of AuthContext: getMe is under way
  signIns,    \* users whose login or registration is under way
  effectDue,  \* somebody has signed in and the effect of WalletProvider has not run
  shown,      \* wallets of WalletContext
  creating,   \* creating of WalletContext
  creation,   \* the create request, or None
  abandoned,  \* creations without a wallet that the tab has given up; the server may
              \* go on with them
  calls,      \* faucet and verify requests under way
  lists,      \* list requests under way
  error,      \* error of WalletContext
  owned,      \* server: number of wallets of each user
  primary,    \* server: which of them have isPrimary
  asked,      \* number of list requests so far, and of sign-ins
  known,      \* history: how much of the server's list the tab shows
  createdAt,  \* history: list requests asked before the last creation ended
              \* in the tab, or the server's last step of one given up
  faults

authVars == <<token, user, loading, signIns>>
serverVars == <<owned, primary>>
sessionVars == <<authVars, effectDue, shown, creating, creation, abandoned, calls,
                 lists, error, serverVars, asked, known, createdAt, faults>>

Card(u, i, flag) == [owner |-> u, id |-> i, primary |-> flag]
Pending(flag) == Card(None, 0, flag)

(* listWallets of the API: primary first, then by creation. *)
Before(u, i, j) ==
  \/ i \in primary[u] /\ j \notin primary[u]
  \/ (i \in primary[u] <=> j \in primary[u]) /\ i < j

Place(u, i) == Cardinality({j \in 1 .. owned[u] : Before(u, j, i)}) + 1

Ranked(u, k) == CHOOSE i \in 1 .. owned[u] : Place(u, i) = k

WalletsOf(u) ==
  [k \in 1 .. owned[u] |-> Card(u, Ranked(u, k), Ranked(u, k) \in primary[u])]

(* Mutant of ServerList: the WHERE clause forgets the user. *)
ListOfEverybody(u) == WalletsOf(u) \o WalletsOf(CHOOSE v \in Users : v # u)

ServerList(u) == WalletsOf(u)

Cards == {shown[i] : i \in DOMAIN shown}

Fault == faults < MaxFaults /\ faults' = faults + 1

SessionInit ==
  /\ token \in Users \cup {None}
  /\ user = None
  /\ loading = (token # None)
  /\ signIns = {}
  /\ effectDue = FALSE
  /\ shown = <<>>
  /\ creating = FALSE /\ creation = None /\ abandoned = {}
  /\ calls = 0 /\ lists = {}
  /\ error = FALSE
  /\ owned \in [Users -> 0 .. 1]
  /\ primary = [u \in Users |-> 1 .. owned[u]]
  /\ asked = [list |-> 0, signIn |-> 0]
  /\ known = "nothing" /\ createdAt = 0
  /\ faults = 0

-----------------------------------------------------------------------------
(* AuthContext and LoginPage. *)

SignedInAs(u) == user' = u /\ effectDue' = TRUE /\ known' = "nothing"

GetMeReturns ==
  /\ loading
  /\ loading' = FALSE
  /\ \/ SignedInAs(token) /\ UNCHANGED <<token, faults>>
     \/ Fault /\ token' = None /\ UNCHANGED <<user, effectDue, known>>
  /\ UNCHANGED <<signIns, shown, creating, creation, abandoned, calls, lists, error, serverVars,
                 asked, createdAt>>

(* Mutant of MaySignIn: the login form does not wait for getMe. *)
MaySignInEarly == user = None

(* The login page shows its form when nobody is signed in and getMe is over. *)
MaySignIn == user = None /\ ~loading

(* Leaving the page and coming back enables the form while an earlier request *)
(* is still under way.                                                        *)
SubmitSignIn(u) ==
  /\ MaySignIn
  /\ u \notin signIns /\ asked.signIn < MaxSignIns
  /\ signIns' = signIns \cup {u}
  /\ asked' = [asked EXCEPT !.signIn = @ + 1]
  /\ UNCHANGED <<token, user, loading, effectDue, shown, creating, creation, abandoned, calls, lists,
                 error, serverVars, known, createdAt, faults>>

SignInReturns(u) ==
  /\ u \in signIns
  /\ signIns' = signIns \ {u}
  /\ token' = u
  /\ SignedInAs(u)
  /\ UNCHANGED <<loading, shown, creating, creation, abandoned, calls, lists, error, serverVars,
                 asked, createdAt, faults>>

SignInFails(u) ==
  /\ u \in signIns
  /\ Fault
  /\ signIns' = signIns \ {u}
  /\ UNCHANGED <<token, user, loading, effectDue, shown, creating, creation, abandoned, calls, lists,
                 error, serverVars, asked, known, createdAt>>

(* A click: React runs the effect, which empties the list, before the next event. *)
Logout ==
  /\ user # None /\ ~effectDue
  /\ token' = None /\ user' = None
  /\ shown' = <<>>
  /\ known' = "nothing"
  /\ UNCHANGED <<loading, signIns, effectDue, creating, creation, abandoned, calls, lists, error,
                 serverVars, asked, createdAt, faults>>

-----------------------------------------------------------------------------
(* WalletContext. *)

(* refresh: a request carries the token of the moment it is sent. *)
Send ==
  /\ asked.list < MaxLists
  /\ asked' = [asked EXCEPT !.list = @ + 1]
  /\ lists' = lists \cup {[number |-> asked.list + 1, token |-> token, answer |-> None,
                           alone |-> ~creating]}

UserEffect ==
  /\ effectDue
  /\ effectDue' = FALSE
  /\ Send
  /\ UNCHANGED <<authVars, shown, creating, creation, abandoned, calls, error, serverVars, known,
                 createdAt, faults>>

Retry ==
  /\ error /\ user # None /\ ~effectDue
  /\ Send
  /\ UNCHANGED <<authVars, effectDue, shown, creating, creation, abandoned, calls, error, serverVars,
                 known, createdAt, faults>>

AnswerList(r) ==
  /\ r.answer = None /\ r.token # None
  /\ lists' = (lists \ {r}) \cup {[r EXCEPT !.answer = ServerList(r.token)]}
  /\ UNCHANGED <<authVars, effectDue, shown, creating, creation, abandoned, calls, error, serverVars,
                 asked, known, createdAt, faults>>

(* An answer tells the truth about now when it is the newest one asked for,  *)
(* under this session, with no creation under way since.                     *)
TellsTheTruth(r) ==
  /\ r.token = user /\ r.number = asked.list
  /\ r.alone /\ r.number > createdAt /\ ~creating

Deliver(r) ==
  /\ r.answer # None
  /\ lists' = lists \ {r}
  /\ shown' = r.answer
  /\ error' = FALSE
  /\ known' = IF TellsTheTruth(r) THEN "everything" ELSE "nothing"
  /\ UNCHANGED <<authVars, effectDue, creating, creation, abandoned, calls, serverVars, asked,
                 createdAt, faults>>

(* The wallets call is rejected; the banner appears only if the chains and   *)
(* the environment are rejected with it.                                     *)
ListFails(r) ==
  /\ \/ r.token = None /\ UNCHANGED faults
     \/ r.token # None /\ Fault
  /\ lists' = lists \ {r}
  /\ error' \in BOOLEAN
  /\ UNCHANGED <<authVars, effectDue, shown, creating, creation, abandoned, calls, serverVars, asked,
                 known, createdAt>>

(* Faucet and verification of a card: a request, then a refresh. *)
CallWallet ==
  /\ user # None /\ ~effectDue /\ \E c \in Cards : c.owner # None
  /\ calls = 0
  /\ calls' = 1
  /\ error' = FALSE
  /\ UNCHANGED <<authVars, effectDue, shown, creating, creation, abandoned, lists, serverVars, asked,
                 known, createdAt, faults>>

CallReturns ==
  /\ calls # 0
  /\ calls' = 0
  /\ Send
  /\ UNCHANGED <<authVars, effectDue, shown, creating, creation, abandoned, error, serverVars, known,
                 createdAt, faults>>

CallFails ==
  /\ calls # 0
  /\ Fault
  /\ calls' = 0
  /\ UNCHANGED <<authVars, effectDue, shown, creating, creation, abandoned, lists, error, serverVars,
                 asked, known, createdAt>>

(* The button is disabled while a creation is under way, also across a       *)
(* logout: the provider stays mounted.                                       *)
CreateWallet ==
  /\ user # None /\ ~effectDue /\ ~creating /\ owned[user] < MaxWallets
  /\ creating' = TRUE
  /\ creation' = [token |-> token, cleared |-> FALSE, wallet |-> 0]
  /\ error' = FALSE
  /\ shown' = Append(shown, Pending(shown = <<>>))
  /\ UNCHANGED <<authVars, effectDue, abandoned, calls, lists, serverVars, asked, known, createdAt,
                 faults>>

(* createWallet of the API; the frontend always asks for a primary wallet. *)
ClearPrimary(u) == primary' = [primary EXCEPT ![u] = {}]

Insert(u) ==
  /\ owned[u] < MaxWallets
  /\ owned' = [owned EXCEPT ![u] = @ + 1]
  /\ primary' = [primary EXCEPT ![u] = @ \cup {owned'[u]}]

ServerClears ==
  /\ creation # None /\ ~creation.cleared
  /\ ClearPrimary(creation.token)
  /\ creation' = [creation EXCEPT !.cleared = TRUE]
  /\ UNCHANGED <<authVars, effectDue, shown, creating, abandoned, calls, lists, error, owned,
                 asked, known, createdAt, faults>>

ServerInserts ==
  /\ creation # None /\ creation.cleared /\ creation.wallet = 0
  /\ Insert(creation.token)
  /\ creation' = [creation EXCEPT !.wallet = owned'[creation.token]]
  /\ UNCHANGED <<authVars, effectDue, shown, creating, abandoned, calls, lists, error, asked, known,
                 createdAt, faults>>

(* Mutant of WithCreated: the wallet is appended and the pending card stays. *)
Appended(wallet) == Append(shown, wallet)

(* The pending card becomes the wallet; without the card the wallet is lost. *)
WithCreated(wallet) ==
  [i \in DOMAIN shown |-> IF shown[i].id = 0 THEN wallet ELSE shown[i]]

EndCreation ==
  /\ creating' = FALSE /\ creation' = None
  /\ createdAt' = asked.list

CreateReturns ==
  /\ creation # None /\ creation.wallet # 0
  /\ shown' = WithCreated(Card(creation.token, creation.wallet, TRUE))
  /\ EndCreation
  /\ known' = IF known # "nothing" /\ creation.token = user /\ ~effectDue
                 /\ \E c \in Cards : c.id = 0
              THEN "wallets" ELSE "nothing"
  /\ UNCHANGED <<authVars, effectDue, abandoned, calls, lists, error, serverVars, asked, faults>>

(* The API answers an error, the connection is lost, or the browser gives up *)
(* after 120 s.  A creation without a wallet is left as it is: the server may *)
(* go on with it at any time, or has thrown and never will.                  *)
CreateFails ==
  /\ creation # None
  /\ Fault
  /\ shown' = RemoveFirstMatch(shown, LAMBDA c : c.id = 0)
  /\ EndCreation
  /\ error' = TRUE
  /\ known' = "nothing"
  /\ abandoned' = abandoned \cup
       (IF creation.wallet = 0
        THEN {[number |-> faults', token |-> creation.token, cleared |-> creation.cleared]}
        ELSE {})
  /\ UNCHANGED <<authVars, effectDue, calls, lists, serverVars, asked>>

ClearsLate(a) ==
  /\ ~a.cleared
  /\ ClearPrimary(a.token)
  /\ abandoned' = (abandoned \ {a}) \cup {[a EXCEPT !.cleared = TRUE]}
  /\ createdAt' = asked.list
  /\ known' = "nothing"
  /\ UNCHANGED <<authVars, effectDue, shown, creating, creation, calls, lists, error, owned, asked,
                 faults>>

(* Nothing is cleared again: wallets created meanwhile stay primary too. *)
InsertsLate(a) ==
  /\ a.cleared
  /\ Insert(a.token)
  /\ abandoned' = abandoned \ {a}
  /\ createdAt' = asked.list
  /\ known' = "nothing"
  /\ UNCHANGED <<authVars, effectDue, shown, creating, creation, calls, lists, error, asked,
                 faults>>

-----------------------------------------------------------------------------
SessionNext ==
  \/ GetMeReturns \/ Logout
  \/ \E u \in Users : SubmitSignIn(u) \/ SignInReturns(u) \/ SignInFails(u)
  \/ UserEffect \/ Retry
  \/ \E r \in lists : AnswerList(r) \/ Deliver(r) \/ ListFails(r)
  \/ CallWallet \/ CallReturns \/ CallFails
  \/ CreateWallet \/ ServerClears \/ ServerInserts \/ CreateReturns \/ CreateFails
  \/ \E a \in abandoned : ClearsLate(a) \/ InsertsLate(a)

SessionSpec == SessionInit /\ [][SessionNext]_sessionVars

-----------------------------------------------------------------------------
(***************************************************************************)
(* AuthContext: the user shown is the one whose token the requests carry,   *)
(* because the login form waits for getMe; WalletContext: a pending card is *)
(* there at most once and only while a creation is under way.               *)
(***************************************************************************)
SessionInv ==
  /\ user # None => token = user /\ ~loading
  /\ creating <=> creation # None
  /\ \A i, j \in DOMAIN shown : shown[i].id = 0 /\ shown[j].id = 0 => i = j /\ creating

(***************************************************************************)
(* WalletContext.refresh and createWallet: the list on the screen is the    *)
(* server's list after an answer that was the newest one asked for, was     *)
(* asked for by this session and overlapped no creation, and creations in   *)
(* this tab then add to it what the server added; the primary wallet is     *)
(* the server's until the first such creation.  All this until the server   *)
(* takes another step of a creation the tab has given up: it clears the     *)
(* primary flags, or stores the wallet, long after the tab was told of a    *)
(* failure and has refreshed.                                               *)
(***************************************************************************)
ShownMatchesServer ==
  user # None /\ ~creating =>
    /\ known = "everything" => shown = WalletsOf(user)
    /\ known = "wallets" => {c.id : c \in Cards} = 1 .. owned[user]
    /\ known # "nothing" => \A c \in Cards : c.owner = user

(***************************************************************************)
(* A card of another user comes onto the screen only when the user changes  *)
(* or by the answer of a list or a creation that was asked for with another   *)
(* user's token: an answer that comes after its session.                    *)
(***************************************************************************)
Foreign == \E c \in Cards : c.owner \notin {user, None}

ForeignCardsComeLate ==
  [][Foreign' /\ ~Foreign =>
       \/ user' # user
       \/ \E r \in lists : r \notin lists' /\ r.token # user
       \/ creation # None /\ creation' = None /\ creation.token # user]_<<shown, user>>
=============================================================================
