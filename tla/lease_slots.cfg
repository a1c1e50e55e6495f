SPECIFICATION Spec
CONSTANTS
    Accounts = {a1, a2, a3}
    NoAccount = NoAccount
    Streams = {s1, s2}
    Cap = 1
SYMMETRY Symmetric
CHECK_DEADLOCK FALSE
INVARIANTS SlotsAttended CallsEndFirst
PROPERTIES NoResurrection
