SPECIFICATION FairSpec
CONSTANTS
    a1 = a1
    a2 = a2
    NoAccount = NoAccount
    Accounts = {a1, a2}
    Requests = {r1, r2}
    Cap = 1
    Pins = {NoAccount, a1}
    Resets = TRUE
INVARIANTS Inv
PROPERTIES EnsureEnds
