\* Overlapping reconciles take a live lock away; its owner must notice.
CONSTANTS
  Agents = {a1, a2, a3}
  NoAgent = NoAgent
  Pids = {p1, p2, p3}
  NoPid = NoPid
  OverlappingReconciles = TRUE
  ClockCanStep = TRUE
SPECIFICATION FairSpec
PROPERTIES LostOwnerStops
CHECK_DEADLOCK FALSE
