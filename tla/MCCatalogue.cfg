SPECIFICATION CatalogueSpec
CONSTANTS
    test = test  main = main  v1 = v1  v2 = v2
    w1 = w1  w2 = w2  w3 = w3  other = other
    Chains = {test, main}
    Testnets = {test}
    Vaults = {v1, v2}
    Wallets = {w1, w2, w3, other}
    Owned = {w1, w2, w3}
    ChainOf <- MCChainOf
    Amounts = {1, 2}
    NoChain = NoChain
    MaxRestarts = 2
    MaxRequests = 2
    MaxDrift = 1
INVARIANTS
    MoneyInCanLeave
    EndpointsAgree
SYMMETRY MCSymmetry
CHECK_DEADLOCK FALSE
