\* Four controllers over three PIDs: a dead owner, a reconciler, its successor
\* and a bystander; PIDs are reused by controllers and by other processes.
CONSTANTS
  Agents = {a1, a2, a3, a4}
  NoAgent = NoAgent
  Pids = {p1, p2, p3}
  NoPid = NoPid
  OverlappingReconciles = FALSE
  ClockCanStep = FALSE
SPECIFICATION Spec
SYMMETRY Symmetry
INVARIANTS MutualExclusion
PROPERTIES LiveLockKept ImplementsOwnership
CHECK_DEADLOCK FALSE
