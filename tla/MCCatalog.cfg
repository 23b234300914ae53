CONSTANTS
    Writers = {w1, w2}
    Readers = {r1, r2}
SPECIFICATION Spec
INVARIANT StaleIsOwed
PROPERTY ProtectedLinksKept
