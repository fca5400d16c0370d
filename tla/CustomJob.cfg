SPECIFICATION Spec
CONSTANTS
    Runner = runner
    Clis = {c1, c2}
    Writers <- MCWriters
    Events <- MCEvents
    Shapes <- MCShapes
    None = None
    MaxFaults = 2
    MaxId = 8
    MaxEdits = 3
    Unchecked = {}
SYMMETRY Symmetry
INVARIANTS LedgerValid NothingUnrecorded CandidateWhole
PROPERTIES ImplementsLog
CHECK_DEADLOCK FALSE
