SPECIFICATION Spec
CONSTANTS
    a1 = a1
    a2 = a2
    r1 = r1
    r2 = r2
    r3 = r3
    w1 = w1
    w2 = w2
    NoAccount = NoAccount
    Accounts = {a1, a2}
    Requests = {r1, r2, r3}
    Admins = {w1}
    Resetters = {w1}
    Configs <- AllConfigs
    Wants <- SomeWants
    MaySwitch = {r3}
    MayCancel = {r3}
SYMMETRY RequestSymmetry
INVARIANTS Inv
PROPERTIES FifoWakeups KeepsPromise
