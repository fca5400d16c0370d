SPECIFICATION Spec
CONSTANTS
    Bridges = {b1, b2}
    Runs = {r1, r2}
    Paths = {p1, p2}
    Requests = {q1}
    Operator = operator
    Original = original
    None = None
    SealMayFail = FALSE
    Serial = TRUE
SYMMETRY Symmetry
INVARIANTS OneDriver BaselineIsRunWork
CHECK_DEADLOCK FALSE
