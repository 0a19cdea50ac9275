SPECIFICATION FairSpec
CONSTANTS
    w1 = w1  w2 = w2  other = other
    Wallets = {w1, w2, other}
    Owned = {w1, w2}
    Supported = {w1, other}
    FaucetWallets = {w1}
    MaxAttempts = 3
    NoWallet = NoWallet
INVARIANTS
    CallsAreBounded
PROPERTIES
    RequestsEnd
