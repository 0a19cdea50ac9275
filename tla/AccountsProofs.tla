--------------------------- MODULE AccountsProofs ---------------------------
(***************************************************************************)
(* Proofs about Accounts for every number of registrations, wallet          *)
(* creations and failures: AccountsInv is inductive, and with it accounts   *)
(* are unique, links to Privy are final and the primary flag is only ever   *)
(* shared by overlapping creations.                                         *)
(***************************************************************************)
EXTENDS Accounts, FiniteSetTheorems, TLAPS

USE RequestsAssumption, LimitsAssumption, NamesAssumption

creationVars == <<linked, privyUsers, creation, asPrimary, privyUser, attempts,
                  minted, rows, primary, earlier, cleared>>

(* Registration and login touch nothing of the wallets, and the other way   *)
(* round.                                                                   *)
LEMMA RegisterKeepsWallets ==
  ASSUME NEW r \in Registrations, Register(r)
  PROVE  UNCHANGED creationVars
  <1>1. CASE CheckEmail(r)
    BY <1>1 DEF CheckEmail, creationVars, linkVars, walletVars
  <1>2. CASE InsertUser(r)
    BY <1>2 DEF InsertUser, creationVars, linkVars, walletVars
  <1>3. CASE RespondRegistered(r)
    BY <1>3 DEF RespondRegistered, creationVars, linkVars, walletVars
  <1>4. CASE RegistrationFails(r)
    BY <1>4 DEF RegistrationFails, creationVars, linkVars, walletVars
  <1>5. CASE Login(r)
    BY <1>5 DEF Login, creationVars, linkVars, walletVars
  <1> QED
    BY <1>1, <1>2, <1>3, <1>4, <1>5 DEF Register

LEMMA WalletsKeepUsers ==
  ASSUME NEW w \in Creations, CreateWallet(w)
  PROVE  UNCHANGED userVars
  <1>1. CASE Begin(w)
    BY <1>1 DEF Begin, userVars
  <1>2. CASE ClearPrimary(w)
    BY <1>2 DEF ClearPrimary, userVars
  <1>3. CASE ReadUser(w)
    BY <1>3 DEF ReadUser, userVars
  <1>4. CASE LookUpCustomId(w)
    BY <1>4 DEF LookUpCustomId, LookUp, userVars
  <1>5. CASE LookUpEmail(w)
    BY <1>5 DEF LookUpEmail, LookUp, userVars
  <1>6. CASE CreatePrivyUser(w)
    BY <1>6 DEF CreatePrivyUser, userVars
  <1>7. CASE LinkUser(w)
    BY <1>7 DEF LinkUser, userVars
  <1>8. CASE Mint(w)
    BY <1>8 DEF Mint, userVars
  <1>9. CASE MintFails(w)
    BY <1>9 DEF MintFails, userVars
  <1>10. CASE InsertWallet(w)
    BY <1>10 DEF InsertWallet, userVars
  <1>11. CASE CreationFails(w)
    BY <1>11 DEF CreationFails, userVars
  <1> QED
    BY <1>1, <1>2, <1>3, <1>4, <1>5, <1>6, <1>7, <1>8, <1>9, <1>10, <1>11 DEF CreateWallet

(* The id a creation is about to write is a Privy id. *)
LEMMA PrivyUserInHand ==
  ASSUME AccountsInv, NEW w \in Creations, creation[w] = "link"
  PROVE  privyUser[w] \in PrivyIds /\ privyUser[w] # None
  <1>1. PICK p \in privyUsers : p.id = privyUser[w]
    BY DEF AccountsInv, LinksAreRight, IsPrivyUserOf
  <1>2. p.id \in PrivyIds
    BY <1>1 DEF AccountsInv, TypeOK
  <1> QED
    BY <1>1, <1>2 DEF PrivyIds

(* Writing a link again writes the same id: the address of a user belongs    *)
(* to one Privy user.                                                        *)
LEMMA LinkUserKeepsLinks ==
  ASSUME AccountsInv, NEW w \in Creations, LinkUser(w),
         NEW r \in Registrations, linked[r] # None
  PROVE  linked'[r] = linked[r]
  <1>1. CASE r # UserOf[w]
    BY <1>1 DEF LinkUser, AccountsInv, TypeOK
  <1>2. CASE r = UserOf[w]
    <2>1. PICK p \in privyUsers : p.id = linked[r] /\ p.email = Email(r)
      BY DEF AccountsInv, LinksAreRight, IsPrivyUserOf
    <2>2. PICK q \in privyUsers : q.id = privyUser[w] /\ q.email = Email(r)
      BY <1>2 DEF LinkUser, AccountsInv, LinksAreRight, IsPrivyUserOf
    <2>3. p = q
      BY <2>1, <2>2 DEF AccountsInv, PrivyUsersApart
    <2> QED
      BY <1>2, <2>1, <2>2, <2>3 DEF LinkUser, AccountsInv, TypeOK
  <1> QED
    BY <1>1, <1>2

(* Creations hold and store the right Privy user. *)
LEMMA WalletsKeepLinks ==
  ASSUME AccountsInv, NEW w \in Creations, CreateWallet(w)
  PROVE  LinksAreRight'
  <1>1. CASE Begin(w)
    BY <1>1 DEF AccountsInv, TypeOK, PrivyUsersApart, LinksAreRight, IsPrivyUserOf, Ended, CreationStages, linkVars, userVars, Begin, GoTo, Ended
  <1>2. CASE ClearPrimary(w)
    BY <1>2 DEF AccountsInv, TypeOK, PrivyUsersApart, LinksAreRight, IsPrivyUserOf, Ended, CreationStages, linkVars, userVars, ClearPrimary, GoTo, Cleared
  <1>3. CASE ReadUser(w)
    BY <1>3 DEF AccountsInv, TypeOK, PrivyUsersApart, LinksAreRight, IsPrivyUserOf, Ended, CreationStages, linkVars, userVars, ReadUser, GoTo
  <1>4. CASE LookUpCustomId(w)
    BY <1>4 DEF AccountsInv, TypeOK, PrivyUsersApart, LinksAreRight, IsPrivyUserOf, Ended, CreationStages, linkVars, userVars, LookUpCustomId, LookUp, GoTo, Fault
  <1>5. CASE LookUpEmail(w)
    BY <1>5 DEF AccountsInv, TypeOK, PrivyUsersApart, LinksAreRight, IsPrivyUserOf, Ended, CreationStages, linkVars, userVars, LookUpEmail, LookUp, GoTo, Fault
  <1>6. CASE CreatePrivyUser(w)
    <2> USE <1>6 DEF CreatePrivyUser
    <2>1. privyUsers \subseteq privyUsers'
      OBVIOUS
    <2>2. \A id, r : IsPrivyUserOf(id, r) => IsPrivyUserOf(id, r)'
      BY <2>1 DEF IsPrivyUserOf
    <2>3. \A r \in Registrations : linked'[r] # None => IsPrivyUserOf(linked[r], r)'
      BY <2>2 DEF AccountsInv, LinksAreRight
    <2>4. ASSUME NEW v \in Creations, v # w PROVE creation'[v] = creation[v] /\ privyUser'[v] = privyUser[v]
      BY <2>4 DEF AccountsInv, TypeOK, GoTo
    <2>5. creation'[w] \in {"link", "failed"}
      BY DEF AccountsInv, TypeOK, GoTo
    <2>6. creation'[w] = "link" => IsPrivyUserOf(privyUser[w], UserOf[w])'
      <3> SUFFICES ASSUME creation'[w] = "link" PROVE IsPrivyUserOf(privyUser[w], UserOf[w])'
        OBVIOUS
      <3>1. NewPrivyUser(w) \in privyUsers' /\ privyUser'[w] = w
        BY DEF AccountsInv, TypeOK, GoTo
      <3>2. NewPrivyUser(w).id = w /\ NewPrivyUser(w).email = Email(UserOf[w])
        BY DEF NewPrivyUser
      <3> QED
        BY <3>1, <3>2 DEF IsPrivyUserOf
    <2>7. \A v \in Creations :
            /\ creation'[v] = "link" => IsPrivyUserOf(privyUser[v], UserOf[v])'
            /\ creation'[v] \in {"mint", "insert"} =>
                 privyUser'[v] # None /\ privyUser'[v] = linked'[UserOf[v]]
      BY <2>2, <2>4, <2>5, <2>6 DEF AccountsInv, LinksAreRight
    <2> QED
      BY <2>3, <2>7 DEF LinksAreRight
  <1>7. CASE LinkUser(w)
    <2> USE <1>7
    <2>1. \A id, r : IsPrivyUserOf(id, r)' <=> IsPrivyUserOf(id, r)
      BY DEF LinkUser, IsPrivyUserOf
    <2>2. \A r \in Registrations : linked'[r] # None => IsPrivyUserOf(linked'[r], r)
      BY DEF LinkUser, AccountsInv, TypeOK, LinksAreRight
    <2>3. \A r \in Registrations : linked[r] # None => linked'[r] = linked[r]
      BY LinkUserKeepsLinks
    <2>4. privyUser'[w] # None
      BY PrivyUserInHand DEF LinkUser
    <2>5. ASSUME NEW v \in Creations, creation'[v] \in {"mint", "insert"}
          PROVE  privyUser'[v] # None /\ privyUser'[v] = linked'[UserOf[v]]
      <3>1. CASE v = w
        BY <2>4, <2>5, <3>1 DEF LinkUser, GoTo, AccountsInv, TypeOK
      <3>2. CASE v # w
        BY <2>3, <2>5, <3>2 DEF LinkUser, GoTo, AccountsInv, TypeOK, LinksAreRight
      <3> QED
        BY <3>1, <3>2
    <2>6. ASSUME NEW v \in Creations, creation'[v] = "link"
          PROVE  IsPrivyUserOf(privyUser'[v], UserOf[v])
      BY <2>6 DEF LinkUser, GoTo, AccountsInv, TypeOK, LinksAreRight
    <2> QED
      BY <2>1, <2>2, <2>5, <2>6 DEF LinksAreRight
  <1>8. CASE Mint(w)
    BY <1>8 DEF AccountsInv, TypeOK, PrivyUsersApart, LinksAreRight, IsPrivyUserOf, Ended, CreationStages, linkVars, userVars, Mint, NewWallet, GoTo
  <1>9. CASE MintFails(w)
    BY <1>9 DEF AccountsInv, TypeOK, PrivyUsersApart, LinksAreRight, IsPrivyUserOf, Ended, CreationStages, linkVars, userVars, MintFails, NewWallet, GoTo, Fault
  <1>10. CASE InsertWallet(w)
    BY <1>10 DEF AccountsInv, TypeOK, PrivyUsersApart, LinksAreRight, IsPrivyUserOf, Ended, CreationStages, linkVars, userVars, InsertWallet, GoTo
  <1>11. CASE CreationFails(w)
    BY <1>11 DEF AccountsInv, TypeOK, PrivyUsersApart, LinksAreRight, IsPrivyUserOf, Ended, CreationStages, linkVars, userVars, CreationFails, GoTo, Fault
  <1> QED
    BY <1>1, <1>2, <1>3, <1>4, <1>5, <1>6, <1>7, <1>8, <1>9, <1>10, <1>11 DEF CreateWallet

(* The flags follow the rows. *)
LEMMA WalletsKeepFlags ==
  ASSUME AccountsInv, NEW w \in Creations, CreateWallet(w)
  PROVE  FlagsFollowRows'
  <1>1. CASE Begin(w)
    <2> USE <1>1 DEF AccountsInv
    <2>1. ASSUME NEW v \in Creations, v # w
          PROVE  /\ creation'[v] = creation[v] /\ asPrimary'[v] = asPrimary[v]
                 /\ earlier'[v] = earlier[v]
      BY <2>1 DEF Begin, GoTo, TypeOK
    <2>2. /\ creation[w] = "idle" /\ creation'[w] \in {"clear", "read"}
          /\ creation'[w] = "clear" <=> asPrimary'[w]
          /\ earlier'[w] = {v \in Creations : creation[v] \in Ended}
      BY DEF Begin, GoTo, TypeOK
    <2>3. UNCHANGED <<rows, primary, cleared>> /\ w \notin cleared /\ rows[w] = 0 /\ w \notin primary
      BY <2>2 DEF Begin, walletVars, FlagsFollowRows
    <2>4. w \notin earlier'[w] /\ \A v \in earlier'[w] : creation'[v] \in Ended
      BY <2>1, <2>2 DEF Ended
    <2>5. ASSUME NEW v \in Creations, v # w, creation[v] # "idle"
          PROVE  \A u \in earlier'[v] : creation'[u] \in Ended
      <3>1. \A u \in earlier[v] : u \in Creations /\ creation[u] \in Ended
        BY <2>5 DEF FlagsFollowRows, TypeOK
      <3> QED
        BY <2>1, <2>2, <2>5, <3>1 DEF Ended
    <2>6. /\ \A v \in primary' : asPrimary'[v] /\ rows'[v] # 0
          /\ \A v \in Creations : rows'[v] # 0 => creation'[v] = "done"
          /\ \A v \in Creations : creation'[v] = "clear" => asPrimary'[v]
          /\ \A v \in Creations :
               creation'[v] # "idle" => \A u \in earlier'[v] : creation'[u] \in Ended
      BY <2>1, <2>2, <2>3, <2>4, <2>5 DEF FlagsFollowRows, TypeOK
    <2>7. /\ \A v \in cleared' : asPrimary'[v] /\ creation'[v] \notin {"idle", "clear"}
          /\ \A v \in Creations :
               asPrimary'[v] /\ creation'[v] \notin {"idle", "clear", "failed"} => v \in cleared'
          /\ \A v \in cleared' :
               \A u \in primary' : UserOf[u] = UserOf[v] => u \notin earlier'[v]
      BY <2>1, <2>2, <2>3 DEF FlagsFollowRows, TypeOK
    <2> QED
      BY <2>6, <2>7 DEF FlagsFollowRows
  <1>2. CASE ClearPrimary(w)
    BY <1>2 DEF AccountsInv, TypeOK, FlagsFollowRows, AttemptsAreCounted, Ended, CreationStages, walletVars, ClearPrimary, GoTo, Cleared
  <1>3. CASE ReadUser(w)
    BY <1>3 DEF AccountsInv, TypeOK, FlagsFollowRows, AttemptsAreCounted, Ended, CreationStages, walletVars, ReadUser, GoTo
  <1>4. CASE LookUpCustomId(w)
    BY <1>4 DEF AccountsInv, TypeOK, FlagsFollowRows, AttemptsAreCounted, Ended, CreationStages, walletVars, LookUpCustomId, LookUp, GoTo, Fault
  <1>5. CASE LookUpEmail(w)
    BY <1>5 DEF AccountsInv, TypeOK, FlagsFollowRows, AttemptsAreCounted, Ended, CreationStages, walletVars, LookUpEmail, LookUp, GoTo, Fault
  <1>6. CASE CreatePrivyUser(w)
    BY <1>6 DEF AccountsInv, TypeOK, FlagsFollowRows, AttemptsAreCounted, Ended, CreationStages, walletVars, CreatePrivyUser, NewPrivyUser, Refused, GoTo, Fault
  <1>7. CASE LinkUser(w)
    BY <1>7 DEF AccountsInv, TypeOK, FlagsFollowRows, AttemptsAreCounted, Ended, CreationStages, walletVars, LinkUser, GoTo
  <1>8. CASE Mint(w)
    BY <1>8 DEF AccountsInv, TypeOK, FlagsFollowRows, AttemptsAreCounted, Ended, CreationStages, walletVars, Mint, NewWallet, GoTo
  <1>9. CASE MintFails(w)
    BY <1>9 DEF AccountsInv, TypeOK, FlagsFollowRows, AttemptsAreCounted, Ended, CreationStages, walletVars, MintFails, NewWallet, GoTo, Fault
  <1>10. CASE InsertWallet(w)
    BY <1>10 DEF AccountsInv, TypeOK, FlagsFollowRows, AttemptsAreCounted, Ended, CreationStages, walletVars, InsertWallet, GoTo
  <1>11. CASE CreationFails(w)
    BY <1>11 DEF AccountsInv, TypeOK, FlagsFollowRows, AttemptsAreCounted, Ended, CreationStages, walletVars, CreationFails, GoTo, Fault
  <1> QED
    BY <1>1, <1>2, <1>3, <1>4, <1>5, <1>6, <1>7, <1>8, <1>9, <1>10, <1>11 DEF CreateWallet

(* The flag is only shared by overlapping creations, and lost to pending ones. *)
LEMMA WalletsKeepPrimary ==
  ASSUME AccountsInv, NEW w \in Creations, CreateWallet(w)
  PROVE  OnePrimaryWallet'
  <1>1. CASE Begin(w)
    BY <1>1 DEF AccountsInv, TypeOK, FlagsFollowRows, OnePrimaryWallet, AttemptsAreCounted, Ended, CreationStages, walletVars, Begin, GoTo, Ended
  <1>2. CASE ClearPrimary(w)
    BY <1>2 DEF AccountsInv, TypeOK, FlagsFollowRows, OnePrimaryWallet, AttemptsAreCounted, Ended, CreationStages, walletVars, ClearPrimary, GoTo, Cleared
  <1>3. CASE ReadUser(w)
    BY <1>3 DEF AccountsInv, TypeOK, FlagsFollowRows, OnePrimaryWallet, AttemptsAreCounted, Ended, CreationStages, walletVars, ReadUser, GoTo
  <1>4. CASE LookUpCustomId(w)
    BY <1>4 DEF AccountsInv, TypeOK, FlagsFollowRows, OnePrimaryWallet, AttemptsAreCounted, Ended, CreationStages, walletVars, LookUpCustomId, LookUp, GoTo, Fault
  <1>5. CASE LookUpEmail(w)
    BY <1>5 DEF AccountsInv, TypeOK, FlagsFollowRows, OnePrimaryWallet, AttemptsAreCounted, Ended, CreationStages, walletVars, LookUpEmail, LookUp, GoTo, Fault
  <1>6. CASE CreatePrivyUser(w)
    BY <1>6 DEF AccountsInv, TypeOK, FlagsFollowRows, OnePrimaryWallet, AttemptsAreCounted, Ended, CreationStages, walletVars, CreatePrivyUser, NewPrivyUser, Refused, GoTo, Fault
  <1>7. CASE LinkUser(w)
    BY <1>7 DEF AccountsInv, TypeOK, FlagsFollowRows, OnePrimaryWallet, AttemptsAreCounted, Ended, CreationStages, walletVars, LinkUser, GoTo
  <1>8. CASE Mint(w)
    BY <1>8 DEF AccountsInv, TypeOK, FlagsFollowRows, OnePrimaryWallet, AttemptsAreCounted, Ended, CreationStages, walletVars, Mint, NewWallet, GoTo
  <1>9. CASE MintFails(w)
    BY <1>9 DEF AccountsInv, TypeOK, FlagsFollowRows, OnePrimaryWallet, AttemptsAreCounted, Ended, CreationStages, walletVars, MintFails, NewWallet, GoTo, Fault
  <1>10. CASE InsertWallet(w)
    BY <1>10 DEF AccountsInv, TypeOK, FlagsFollowRows, OnePrimaryWallet, AttemptsAreCounted, Ended, CreationStages, walletVars, InsertWallet, GoTo
  <1>11. CASE CreationFails(w)
    BY <1>11 DEF AccountsInv, TypeOK, FlagsFollowRows, OnePrimaryWallet, AttemptsAreCounted, Ended, CreationStages, walletVars, CreationFails, GoTo, Fault
  <1> QED
    BY <1>1, <1>2, <1>3, <1>4, <1>5, <1>6, <1>7, <1>8, <1>9, <1>10, <1>11 DEF CreateWallet

(* Attempts are counted, and the wallet to be stored was made. *)
LEMMA WalletsKeepAttempts ==
  ASSUME AccountsInv, NEW w \in Creations, CreateWallet(w)
  PROVE  AttemptsAreCounted'
  <1>1. CASE Begin(w)
    BY <1>1 DEF AccountsInv, TypeOK, AttemptsAreCounted, LinksAreRight, StoresOwnWallet, Ended, CreationStages, walletVars, linkVars, Begin, GoTo, Ended
  <1>2. CASE ClearPrimary(w)
    BY <1>2 DEF AccountsInv, TypeOK, AttemptsAreCounted, LinksAreRight, StoresOwnWallet, Ended, CreationStages, walletVars, linkVars, ClearPrimary, GoTo, Cleared
  <1>3. CASE ReadUser(w)
    BY <1>3 DEF AccountsInv, TypeOK, AttemptsAreCounted, LinksAreRight, StoresOwnWallet, Ended, CreationStages, walletVars, linkVars, ReadUser, GoTo
  <1>4. CASE LookUpCustomId(w)
    BY <1>4 DEF AccountsInv, TypeOK, AttemptsAreCounted, LinksAreRight, StoresOwnWallet, Ended, CreationStages, walletVars, linkVars, LookUpCustomId, LookUp, GoTo, Fault
  <1>5. CASE LookUpEmail(w)
    BY <1>5 DEF AccountsInv, TypeOK, AttemptsAreCounted, LinksAreRight, StoresOwnWallet, Ended, CreationStages, walletVars, linkVars, LookUpEmail, LookUp, GoTo, Fault
  <1>6. CASE CreatePrivyUser(w)
    BY <1>6 DEF AccountsInv, TypeOK, AttemptsAreCounted, LinksAreRight, StoresOwnWallet, Ended, CreationStages, walletVars, linkVars, CreatePrivyUser, NewPrivyUser, Refused, GoTo, Fault
  <1>7. CASE LinkUser(w)
    <2> USE <1>7
    <2>1. ASSUME NEW v \in Creations
          PROVE  /\ creation'[v] = "mint" => attempts'[v] < MaxAttempts
                 /\ creation'[v] \notin {"mint", "insert"} \cup Ended => attempts'[v] = 0
      BY DEF LinkUser, GoTo, AccountsInv, TypeOK, AttemptsAreCounted, Ended
    <2>2. ASSUME NEW v \in Creations, creation'[v] = "insert"
          PROVE  attempts'[v] # 0 /\ StoresOwnWallet(v, attempts[v])'
      <3>1. v # w /\ creation[v] = "insert"
        BY <2>2 DEF LinkUser, GoTo, AccountsInv, TypeOK
      <3>2. attempts[v] # 0 /\ StoresOwnWallet(v, attempts[v]) /\ linked[UserOf[v]] # None
        BY <3>1 DEF AccountsInv, AttemptsAreCounted, LinksAreRight
      <3>3. linked'[UserOf[v]] = linked[UserOf[v]]
        BY <3>2, LinkUserKeepsLinks
      <3> QED
        BY <3>2, <3>3 DEF LinkUser, StoresOwnWallet, walletVars
    <2> QED
      BY <2>1, <2>2 DEF AttemptsAreCounted
  <1>8. CASE Mint(w)
    <2> USE <1>8
    <2>1. ASSUME NEW v \in Creations, v # w
          PROVE  creation'[v] = creation[v] /\ attempts'[v] = attempts[v]
      BY <2>1 DEF Mint, GoTo, AccountsInv, TypeOK
    <2>2. minted \subseteq minted' /\ UNCHANGED linked
      BY DEF Mint, linkVars
    <2>3. creation'[w] = "insert" /\ attempts'[w] = attempts[w] + 1 /\ attempts[w] \in Nat
      BY DEF Mint, GoTo, AccountsInv, TypeOK
    <2>4. \A v, n : StoresOwnWallet(v, n) => StoresOwnWallet(v, n)'
      BY <2>2 DEF StoresOwnWallet
    <2>5. StoresOwnWallet(w, attempts[w])'
      <3>1. NewWallet(w) \in minted'
        BY DEF Mint
      <3>2. /\ NewWallet(w).creation = w /\ NewWallet(w).attempt = attempts'[w]
            /\ NewWallet(w).owner \in {Quorum, privyUser[w]}
        BY <2>3 DEF NewWallet
      <3>3. privyUser[w] = linked'[UserOf[w]]
        BY <2>2 DEF Mint, AccountsInv, LinksAreRight
      <3> QED
        BY <3>1, <3>2, <3>3 DEF StoresOwnWallet
    <2>6. ASSUME NEW v \in Creations
          PROVE  /\ creation'[v] = "mint" => attempts'[v] < MaxAttempts
                 /\ creation'[v] = "insert" => attempts'[v] # 0 /\ StoresOwnWallet(v, attempts[v])'
                 /\ creation'[v] \notin {"mint", "insert"} \cup Ended => attempts'[v] = 0
      <3>1. CASE v = w
        BY <2>3, <2>5, <3>1
      <3>2. CASE v # w
        BY <2>1, <2>4, <3>2 DEF AccountsInv, AttemptsAreCounted
      <3> QED
        BY <3>1, <3>2
    <2> QED
      BY <2>6 DEF AttemptsAreCounted
  <1>9. CASE MintFails(w)
    BY <1>9 DEF AccountsInv, TypeOK, AttemptsAreCounted, LinksAreRight, StoresOwnWallet, Ended, CreationStages, walletVars, linkVars, MintFails, NewWallet, GoTo, Fault
  <1>10. CASE InsertWallet(w)
    BY <1>10 DEF AccountsInv, TypeOK, AttemptsAreCounted, LinksAreRight, StoresOwnWallet, Ended, CreationStages, walletVars, linkVars, InsertWallet, GoTo
  <1>11. CASE CreationFails(w)
    BY <1>11 DEF AccountsInv, TypeOK, AttemptsAreCounted, LinksAreRight, StoresOwnWallet, Ended, CreationStages, walletVars, linkVars, CreationFails, GoTo, Fault
  <1> QED
    BY <1>1, <1>2, <1>3, <1>4, <1>5, <1>6, <1>7, <1>8, <1>9, <1>10, <1>11 DEF CreateWallet

(* No wallet was made by an attempt still to come. *)
LEMMA WalletsKeepOrder ==
  ASSUME AccountsInv, NEW w \in Creations, CreateWallet(w)
  PROVE  MintedInOrder'
  <1>1. CASE Begin(w)
    BY <1>1 DEF AccountsInv, TypeOK, MintedInOrder, walletVars, Begin, GoTo, Ended
  <1>2. CASE ClearPrimary(w)
    BY <1>2 DEF AccountsInv, TypeOK, MintedInOrder, walletVars, ClearPrimary, GoTo, Cleared
  <1>3. CASE ReadUser(w)
    BY <1>3 DEF AccountsInv, TypeOK, MintedInOrder, walletVars, ReadUser, GoTo
  <1>4. CASE LookUpCustomId(w)
    BY <1>4 DEF AccountsInv, TypeOK, MintedInOrder, walletVars, LookUpCustomId, LookUp, GoTo, Fault
  <1>5. CASE LookUpEmail(w)
    BY <1>5 DEF AccountsInv, TypeOK, MintedInOrder, walletVars, LookUpEmail, LookUp, GoTo, Fault
  <1>6. CASE CreatePrivyUser(w)
    BY <1>6 DEF AccountsInv, TypeOK, MintedInOrder, walletVars, CreatePrivyUser, NewPrivyUser, Refused, GoTo, Fault
  <1>7. CASE LinkUser(w)
    BY <1>7 DEF AccountsInv, TypeOK, MintedInOrder, walletVars, LinkUser, GoTo
  <1>8. CASE Mint(w)
    BY <1>8 DEF AccountsInv, TypeOK, MintedInOrder, walletVars, Mint, NewWallet, GoTo
  <1>9. CASE MintFails(w)
    BY <1>9 DEF AccountsInv, TypeOK, MintedInOrder, walletVars, MintFails, NewWallet, GoTo, Fault
  <1>10. CASE InsertWallet(w)
    BY <1>10 DEF AccountsInv, TypeOK, MintedInOrder, walletVars, InsertWallet, GoTo
  <1>11. CASE CreationFails(w)
    BY <1>11 DEF AccountsInv, TypeOK, MintedInOrder, walletVars, CreationFails, GoTo, Fault
  <1> QED
    BY <1>1, <1>2, <1>3, <1>4, <1>5, <1>6, <1>7, <1>8, <1>9, <1>10, <1>11 DEF CreateWallet

(* A stored wallet stays the wallet of its row. *)
LEMMA WalletsKeepStored ==
  ASSUME AccountsInv, NEW w \in Creations, CreateWallet(w)
  PROVE  RowsStoreOwnWallets'
  <1>1. CASE Begin(w)
    BY <1>1 DEF AccountsInv, TypeOK, RowsStoreOwnWallets, AttemptsAreCounted, StoresOwnWallet, walletVars, linkVars, Begin, GoTo, Ended
  <1>2. CASE ClearPrimary(w)
    BY <1>2 DEF AccountsInv, TypeOK, RowsStoreOwnWallets, AttemptsAreCounted, StoresOwnWallet, walletVars, linkVars, ClearPrimary, GoTo, Cleared
  <1>3. CASE ReadUser(w)
    BY <1>3 DEF AccountsInv, TypeOK, RowsStoreOwnWallets, AttemptsAreCounted, StoresOwnWallet, walletVars, linkVars, ReadUser, GoTo
  <1>4. CASE LookUpCustomId(w)
    BY <1>4 DEF AccountsInv, TypeOK, RowsStoreOwnWallets, AttemptsAreCounted, StoresOwnWallet, walletVars, linkVars, LookUpCustomId, LookUp, GoTo, Fault
  <1>5. CASE LookUpEmail(w)
    BY <1>5 DEF AccountsInv, TypeOK, RowsStoreOwnWallets, AttemptsAreCounted, StoresOwnWallet, walletVars, linkVars, LookUpEmail, LookUp, GoTo, Fault
  <1>6. CASE CreatePrivyUser(w)
    BY <1>6 DEF AccountsInv, TypeOK, RowsStoreOwnWallets, AttemptsAreCounted, StoresOwnWallet, walletVars, linkVars, CreatePrivyUser, NewPrivyUser, Refused, GoTo, Fault
  <1>7. CASE LinkUser(w)
    <2>1. ASSUME NEW v \in Creations, rows'[v] # 0
          PROVE  StoresOwnWallet(v, rows[v])'
      <3>1. PICK m \in minted : /\ m.creation = v /\ m.attempt = rows[v]
                                /\ m.owner \in {Quorum, linked[UserOf[v]]}
        BY <1>7, <2>1 DEF AccountsInv, RowsStoreOwnWallets, StoresOwnWallet, LinkUser, walletVars
      <3>2. m.owner # Quorum => linked[UserOf[v]] # None
        BY <3>1 DEF AccountsInv, TypeOK, PrivyIds
      <3>3. m.owner \in {Quorum, linked'[UserOf[v]]}
        BY <1>7, <3>1, <3>2, LinkUserKeepsLinks
      <3> QED
        BY <1>7, <3>1, <3>3 DEF StoresOwnWallet, LinkUser, walletVars
    <2> QED
      BY <2>1 DEF RowsStoreOwnWallets
  <1>8. CASE Mint(w)
    BY <1>8 DEF AccountsInv, TypeOK, RowsStoreOwnWallets, AttemptsAreCounted, StoresOwnWallet, walletVars, linkVars, Mint, NewWallet, GoTo
  <1>9. CASE MintFails(w)
    BY <1>9 DEF AccountsInv, TypeOK, RowsStoreOwnWallets, AttemptsAreCounted, StoresOwnWallet, walletVars, linkVars, MintFails, NewWallet, GoTo, Fault
  <1>10. CASE InsertWallet(w)
    BY <1>10 DEF AccountsInv, TypeOK, RowsStoreOwnWallets, AttemptsAreCounted, StoresOwnWallet, walletVars, linkVars, InsertWallet, GoTo
  <1>11. CASE CreationFails(w)
    BY <1>11 DEF AccountsInv, TypeOK, RowsStoreOwnWallets, AttemptsAreCounted, StoresOwnWallet, walletVars, linkVars, CreationFails, GoTo, Fault
  <1> QED
    BY <1>1, <1>2, <1>3, <1>4, <1>5, <1>6, <1>7, <1>8, <1>9, <1>10, <1>11 DEF CreateWallet

(* The stages of a registration and the rows it may have inserted. *)
LEMMA RegistersKeepUsers ==
  ASSUME AccountsInv, NEW r \in Registrations, Register(r)
  PROVE  UsersMatchRegistrations' /\ OneAccountPerMailbox'
  <1> USE DEF AccountsInv, TypeOK, UsersMatchRegistrations, OneAccountPerMailbox,
              Mailbox, Taken, Email
  <1>1. CASE CheckEmail(r)
    BY <1>1 DEF CheckEmail
  <1>2. CASE InsertUser(r)
    BY <1>2 DEF InsertUser
  <1>3. CASE RespondRegistered(r)
    BY <1>3 DEF RespondRegistered
  <1>4. CASE RegistrationFails(r)
    BY <1>4 DEF RegistrationFails, Fault
  <1>5. CASE Login(r)
    BY <1>5 DEF Login
  <1> QED
    BY <1>1, <1>2, <1>3, <1>4, <1>5 DEF Register

(* The count of failures never falls. *)
LEMMA FaultsGrow ==
  ASSUME AccountsInv, [Next]_vars
  PROVE  faults' \in Nat /\ faults' >= faults
  <1> USE DEF AccountsInv, TypeOK
  <1>1. CASE \E r \in Registrations : Register(r)
    BY <1>1 DEF Register, CheckEmail, InsertUser, RespondRegistered, RegistrationFails, Login, Fault
  <1>2. ASSUME NEW w \in Creations, CreateWallet(w) PROVE faults' = faults \/ faults' = faults + 1
    BY <1>2 DEF CreateWallet, Begin, ClearPrimary, ReadUser, LookUpCustomId, LookUpEmail, LookUp,
                CreatePrivyUser, LinkUser, Mint, MintFails, InsertWallet, CreationFails, Fault
  <1>3. CASE UNCHANGED vars
    BY <1>3 DEF vars
  <1> QED
    BY <1>1, <1>2, <1>3 DEF Next

(* Only CreatePrivyUser adds a Privy user, and Privy refuses a second one of *)
(* an address.                                                               *)
LEMMA WalletsKeepPrivyUsers ==
  ASSUME AccountsInv, NEW w \in Creations, CreateWallet(w)
  PROVE  PrivyUsersApart'
  <1> USE DEF AccountsInv, TypeOK, PrivyUsersApart
  <1>1. CASE CreatePrivyUser(w)
    BY <1>1 DEF CreatePrivyUser, NewPrivyUser, Refused
  <1>2. CASE UNCHANGED privyUsers
    BY <1>2
  <1>3. CreatePrivyUser(w) \/ UNCHANGED privyUsers
    BY DEF CreateWallet, Begin, ClearPrimary, ReadUser, LookUpCustomId, LookUpEmail, LookUp,
           LinkUser, Mint, MintFails, InsertWallet, CreationFails, linkVars
  <1> QED
    BY <1>1, <1>2, <1>3


(* Types. *)
LEMMA RegistersKeepType ==
  ASSUME AccountsInv, NEW r \in Registrations, Register(r)
  PROVE  TypeOK'
  <1> USE DEF AccountsInv, TypeOK, RegistrationStages
  <1>1. CASE CheckEmail(r)
    BY <1>1 DEF CheckEmail, linkVars, walletVars
  <1>2. CASE InsertUser(r)
    BY <1>2 DEF InsertUser, linkVars, walletVars
  <1>3. CASE RespondRegistered(r)
    BY <1>3 DEF RespondRegistered, linkVars, walletVars, UsersMatchRegistrations
  <1>4. CASE RegistrationFails(r)
    BY <1>4 DEF RegistrationFails, linkVars, walletVars, Fault
  <1>5. CASE Login(r)
    BY <1>5 DEF Login, linkVars, walletVars
  <1> QED
    BY <1>1, <1>2, <1>3, <1>4, <1>5 DEF Register

LEMMA WalletsKeepType ==
  ASSUME AccountsInv, NEW w \in Creations, CreateWallet(w)
  PROVE  TypeOK'
  <1> USE DEF AccountsInv, TypeOK, CreationStages, Ended, PrivyIds
  <1>1. CASE Begin(w)
    BY <1>1 DEF Begin, GoTo, Ended, userVars, linkVars, walletVars
  <1>2. CASE ClearPrimary(w)
    BY <1>2 DEF ClearPrimary, GoTo, Cleared, userVars, linkVars
  <1>3. CASE ReadUser(w)
    BY <1>3 DEF ReadUser, GoTo, userVars, linkVars, walletVars
  <1>4. CASE LookUpCustomId(w)
    BY <1>4 DEF LookUpCustomId, LookUp, GoTo, Fault, userVars, linkVars, walletVars
  <1>5. CASE LookUpEmail(w)
    BY <1>5 DEF LookUpEmail, LookUp, GoTo, Fault, userVars, linkVars, walletVars
  <1>6. CASE CreatePrivyUser(w)
    BY <1>6 DEF CreatePrivyUser, NewPrivyUser, Refused, GoTo, Fault, Email, userVars, walletVars
  <1>7. CASE LinkUser(w)
    BY PrivyUserInHand, <1>7 DEF LinkUser, GoTo, userVars, walletVars
  <1>8. CASE Mint(w)
    BY <1>8 DEF Mint, NewWallet, GoTo, userVars, linkVars, AttemptsAreCounted, LinksAreRight
  <1>9. CASE MintFails(w)
    BY <1>9 DEF MintFails, NewWallet, GoTo, Fault, userVars, linkVars, AttemptsAreCounted, LinksAreRight
  <1>10. CASE InsertWallet(w)
    BY <1>10 DEF InsertWallet, GoTo, userVars, linkVars
  <1>11. CASE CreationFails(w)
    BY <1>11 DEF CreationFails, GoTo, Fault, userVars, linkVars, walletVars
  <1> QED
    BY <1>1, <1>2, <1>3, <1>4, <1>5, <1>6, <1>7, <1>8, <1>9, <1>10, <1>11 DEF CreateWallet


(***************************************************************************)
(* AccountsInv holds in every reachable state: users, links, flags and      *)
(* attempts fit together (AuthService, WalletsService, PrivyWalletService). *)
(***************************************************************************)
LEMMA AccountsInit == Init => AccountsInv
  <1> SUFFICES ASSUME Init PROVE AccountsInv
    OBVIOUS
  <1> USE DEF Init
  <1>1. TypeOK
    BY DEF TypeOK, RegistrationStages, CreationStages, Ended, PrivyIds
  <1>2. UsersMatchRegistrations /\ OneAccountPerMailbox
    BY DEF UsersMatchRegistrations, OneAccountPerMailbox
  <1>3. PrivyUsersApart /\ LinksAreRight
    BY DEF PrivyUsersApart, LinksAreRight
  <1>4. FlagsFollowRows /\ OnePrimaryWallet /\ AttemptsAreCounted /\ MintedInOrder /\ RowsStoreOwnWallets
    BY DEF FlagsFollowRows, OnePrimaryWallet, AttemptsAreCounted, MintedInOrder, RowsStoreOwnWallets, Ended
  <1> QED
    BY <1>1, <1>2, <1>3, <1>4 DEF AccountsInv

LEMMA AccountsStep ==
  ASSUME AccountsInv, [Next]_vars
  PROVE  AccountsInv'
  <1>1. CASE UNCHANGED vars
    BY <1>1 DEF vars, userVars, linkVars, walletVars, AccountsInv, TypeOK, UsersMatchRegistrations,
                OneAccountPerMailbox, PrivyUsersApart, LinksAreRight, IsPrivyUserOf, FlagsFollowRows,
                OnePrimaryWallet, AttemptsAreCounted, MintedInOrder, RowsStoreOwnWallets, StoresOwnWallet, Mailbox, Email
  <1>2. ASSUME NEW r \in Registrations, Register(r) PROVE AccountsInv'
    <2>1. UNCHANGED creationVars
      BY <1>2, RegisterKeepsWallets
    <2>2. PrivyUsersApart' /\ LinksAreRight'
      BY <2>1 DEF creationVars, AccountsInv, PrivyUsersApart, LinksAreRight, IsPrivyUserOf, Email
    <2>3. FlagsFollowRows' /\ OnePrimaryWallet'
      BY <2>1 DEF creationVars, AccountsInv, FlagsFollowRows, OnePrimaryWallet
    <2>4. AttemptsAreCounted' /\ MintedInOrder' /\ RowsStoreOwnWallets'
      BY <2>1 DEF creationVars, AccountsInv, AttemptsAreCounted, MintedInOrder, RowsStoreOwnWallets, StoresOwnWallet
    <2> QED
      BY <1>2, <2>2, <2>3, <2>4, RegistersKeepType, RegistersKeepUsers DEF AccountsInv
  <1>3. ASSUME NEW w \in Creations, CreateWallet(w) PROVE AccountsInv'
    <2>1. UNCHANGED userVars
      BY <1>3, WalletsKeepUsers
    <2>2. faults' \in Nat /\ faults' >= faults /\ faults \in Nat
      BY <1>3, FaultsGrow DEF Next, AccountsInv, TypeOK
    <2>3. UsersMatchRegistrations' /\ OneAccountPerMailbox'
      BY <2>1, <2>2 DEF userVars, AccountsInv, UsersMatchRegistrations, OneAccountPerMailbox
    <2> QED
      BY <1>3, <2>3, WalletsKeepType, WalletsKeepPrivyUsers, WalletsKeepLinks, WalletsKeepFlags,
         WalletsKeepPrimary, WalletsKeepAttempts, WalletsKeepOrder, WalletsKeepStored DEF AccountsInv
  <1> QED
    BY <1>1, <1>2, <1>3 DEF Next

THEOREM AccountsInvariance == Spec => []AccountsInv
  <1> QED
    BY AccountsInit, AccountsStep, PTL DEF Spec

(***************************************************************************)
(* AuthService.register: one account per mailbox, and truthful answers.     *)
(***************************************************************************)
THEOREM AccountsUnique == Spec => []OneAccountPerMailbox
  <1>1. AccountsInv => OneAccountPerMailbox
    BY DEF AccountsInv
  <1> QED
    BY <1>1, AccountsInvariance, PTL

(***************************************************************************)
(* WalletsService.createWallet: two primary wallets only from overlapping   *)
(* creations, none only because of a creation that has reset the flag and   *)
(* not inserted its row.                                                    *)
(***************************************************************************)
THEOREM PrimaryWallets == Spec => []OnePrimaryWallet
  <1>1. AccountsInv => OnePrimaryWallet
    BY DEF AccountsInv
  <1> QED
    BY <1>1, AccountsInvariance, PTL

(***************************************************************************)
(* ensurePrivyUserId never moves a user to another Privy user.              *)
(***************************************************************************)
THEOREM LinksNeverMove == Spec => LinkIsFinal
  <1>1. ASSUME AccountsInv, [Next]_vars
        PROVE  [\A r \in Registrations : linked[r] # None => linked'[r] = linked[r]]_linked
    <2>1. CASE UNCHANGED linked
      BY <2>1
    <2>2. ASSUME NEW w \in Creations, LinkUser(w)
          PROVE  \A r \in Registrations : linked[r] # None => linked'[r] = linked[r]
      BY <1>1, <2>2, LinkUserKeepsLinks
    <2>3. ASSUME NEW w \in Creations, CreateWallet(w), ~LinkUser(w)
          PROVE  UNCHANGED linked
      BY <2>3 DEF CreateWallet, Begin, ClearPrimary, ReadUser, LookUpCustomId, LookUpEmail, LookUp,
                  CreatePrivyUser, Mint, MintFails, InsertWallet, CreationFails, linkVars
    <2>4. ASSUME NEW r \in Registrations, Register(r)
          PROVE  UNCHANGED linked
      BY <2>4, RegisterKeepsWallets DEF creationVars
    <2>5. CASE UNCHANGED vars
      BY <2>5 DEF vars, linkVars
    <2> QED
      BY <1>1, <2>1, <2>2, <2>3, <2>4, <2>5 DEF Next
  <1> QED
    BY <1>1, AccountsInvariance, PTL DEF Spec, LinkIsFinal

(* A step adds at most one orphan, and only by a failure. *)
LEMMA OrphansStep ==
  ASSUME AccountsInv, NEW w \in Creations, CreateWallet(w)
  PROVE  \/ Orphans' \subseteq Orphans
         \/ faults' = faults + 1 /\ \E m : Orphans' \subseteq Orphans \cup {m}
  <1> USE DEF AccountsInv, TypeOK, Orphans, Awaited
  <1>1. CASE Mint(w)
    BY <1>1 DEF Mint, NewWallet, GoTo
  <1>2. CASE MintFails(w)
    <2>1. Orphans' \subseteq Orphans \cup {NewWallet(w)}
      BY <1>2 DEF MintFails, GoTo, AttemptsAreCounted, MintedInOrder
    <2> QED
      BY <1>2, <2>1 DEF MintFails, Fault
  <1>3. CASE InsertWallet(w)
    BY <1>3 DEF InsertWallet, GoTo, FlagsFollowRows
  <1>4. CASE CreationFails(w)
    <2>1. faults' = faults + 1
      BY <1>4 DEF CreationFails, Fault
    <2>2. CASE creation[w] # "insert"
      BY <1>4, <2>2 DEF CreationFails, GoTo, walletVars
    <2>3. CASE creation[w] = "insert"
      <3>1. PICK n \in minted : n.creation = w /\ n.attempt = attempts[w]
        BY <2>3 DEF AttemptsAreCounted, StoresOwnWallet
      <3>2. ASSUME NEW m \in minted, Awaited(m), m.creation = w
            PROVE  m = n
        BY <3>1, <3>2, <2>3 DEF MintedInOrder
      <3>3. Orphans' \subseteq Orphans \cup {n}
        BY <1>4, <3>2 DEF CreationFails, GoTo, walletVars
      <3> QED
        BY <2>1, <3>3
    <2> QED
      BY <2>2, <2>3
  <1>5. ASSUME UNCHANGED walletVars, UNCHANGED attempts, creation[w] # "insert", creation'[w] # "insert",
               creation' = [creation EXCEPT ![w] = creation'[w]]
        PROVE  Orphans' \subseteq Orphans
    BY <1>5 DEF walletVars
  <1>6. CASE ClearPrimary(w)
    BY <1>6 DEF ClearPrimary, GoTo
  <1>7. CASE Begin(w)
    BY <1>7, <1>5 DEF Begin, GoTo
  <1>8. CASE ReadUser(w)
    BY <1>8, <1>5 DEF ReadUser, GoTo
  <1>9. CASE LookUpCustomId(w)
    BY <1>9, <1>5 DEF LookUpCustomId, LookUp, GoTo
  <1>10. CASE LookUpEmail(w)
    BY <1>10, <1>5 DEF LookUpEmail, LookUp, GoTo
  <1>11. CASE CreatePrivyUser(w)
    BY <1>11, <1>5 DEF CreatePrivyUser, GoTo
  <1>12. CASE LinkUser(w)
    BY <1>12, <1>5 DEF LinkUser, GoTo
  <1> QED
    BY <1>1, <1>2, <1>3, <1>4, <1>6, <1>7, <1>8, <1>9, <1>10, <1>11, <1>12 DEF CreateWallet

(***************************************************************************)
(* Every row stores a wallet Privy made for it, and there are no more       *)
(* wallets without a row than there were failures.                          *)
(***************************************************************************)
OrphansAreFew == IsFiniteSet(Orphans) /\ Cardinality(Orphans) <= faults

THEOREM WalletsAccounted == Spec => []WalletsAccountedFor
  <1>1. Init => OrphansAreFew
    BY FS_EmptySet DEF Init, OrphansAreFew, Orphans
  <1>2. ASSUME AccountsInv, OrphansAreFew, [Next]_vars
        PROVE  OrphansAreFew'
    <2>1. faults' \in Nat /\ faults' >= faults /\ faults \in Nat
      BY <1>2, FaultsGrow DEF AccountsInv, TypeOK
    <2>2. CASE Orphans' \subseteq Orphans
      <3>1. IsFiniteSet(Orphans') /\ Cardinality(Orphans') <= Cardinality(Orphans)
        BY <1>2, <2>2, FS_Subset DEF OrphansAreFew
      <3> QED
        BY <1>2, <2>1, <3>1, FS_CardinalityType DEF OrphansAreFew
    <2>3. ASSUME NEW m, Orphans' \subseteq Orphans \cup {m}, faults' = faults + 1
          PROVE  OrphansAreFew'
      <3>1. /\ IsFiniteSet(Orphans \cup {m})
            /\ Cardinality(Orphans \cup {m}) <= Cardinality(Orphans) + 1
        <4>1. IsFiniteSet(Orphans) /\ Cardinality(Orphans) \in Nat
          BY <1>2, FS_CardinalityType DEF OrphansAreFew
        <4>2. /\ IsFiniteSet(Orphans \cup {m})
              /\ \/ Cardinality(Orphans \cup {m}) = Cardinality(Orphans)
                 \/ Cardinality(Orphans \cup {m}) = Cardinality(Orphans) + 1
          BY <4>1, FS_AddElement, Zenon
        <4> QED
          BY <4>1, <4>2
      <3>2. /\ IsFiniteSet(Orphans')
            /\ Cardinality(Orphans') <= Cardinality(Orphans \cup {m})
        BY <2>3, <3>1, FS_Subset
      <3> QED
        BY <1>2, <2>1, <2>3, <3>1, <3>2, FS_CardinalityType DEF OrphansAreFew
    <2>4. ASSUME UNCHANGED creationVars PROVE Orphans' \subseteq Orphans
      BY <2>4 DEF creationVars, Orphans, Awaited
    <2>5. CASE UNCHANGED vars
      BY <2>2, <2>4, <2>5 DEF vars, linkVars, walletVars, creationVars
    <2>6. ASSUME NEW r \in Registrations, Register(r) PROVE OrphansAreFew'
      BY <2>2, <2>4, <2>6, RegisterKeepsWallets
    <2>7. ASSUME NEW w \in Creations, CreateWallet(w) PROVE OrphansAreFew'
      BY <1>2, <2>2, <2>3, <2>7, OrphansStep
    <2> QED
      BY <1>2, <2>5, <2>6, <2>7 DEF Next
  <1>3. ASSUME AccountsInv, OrphansAreFew PROVE WalletsAccountedFor
    BY <1>3 DEF AccountsInv, RowsStoreOwnWallets, OrphansAreFew, WalletsAccountedFor
  <1> QED
    BY <1>1, <1>2, <1>3, AccountsInvariance, PTL DEF Spec


=============================================================================
