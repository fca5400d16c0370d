\* The freezing of a settled run's manifest fails; it is made up for when the
\* operator asks for a cleanup, from the worktree as it is by then.
SPECIFICATION Spec
CONSTANTS
    Bridges = {b1}
    Runs = {r1}
    Paths = {p1, p2}
    Requests = {q1}
    Operator = operator
    Original = original
    None = None
    SealMayFail = TRUE
    Serial = TRUE
PROPERTIES CleanupTakesOwnOnly
CHECK_DEADLOCK FALSE
