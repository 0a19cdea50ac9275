----------------------------- MODULE MCAccounts -----------------------------
(* Three registrations, two of one mailbox in two spellings, and wallets for *)
(* two of the users.                                                         *)
EXTENDS Accounts, TLC

CONSTANTS ann, anne, bob, w1, w2, w3, typed, shouted, other, mailA, mailB

MCNormal == (typed :> mailA) @@ (shouted :> mailA) @@ (other :> mailB)
MCTyped == (ann :> typed) @@ (anne :> shouted) @@ (bob :> other)
MCUserOf == (w1 :> ann) @@ (w2 :> ann) @@ (w3 :> bob)
MCWants == (w1 :> "unsaid") @@ (w2 :> "primary") @@ (w3 :> "unsaid")
=============================================================================
