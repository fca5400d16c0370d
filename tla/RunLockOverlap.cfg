\* A dead owner, and two reconcilers that both saw its lock.
CONSTANTS
  Agents = {a1, a2, a3}
  NoAgent = NoAgent
  Pids = {p1, p2, p3}
  NoPid = NoPid
  OverlappingReconciles = TRUE
  ClockCanStep = FALSE
SPECIFICATION Spec
INVARIANTS MutualExclusion
CHECK_DEADLOCK FALSE
