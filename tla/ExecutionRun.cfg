\* Three phases over two profiles, stopped once.
SPECIFICATION Spec
CONSTANTS
  Calls <- MCRun
  OneShot = {1}
  Profiles = {p1, p2}
  MaxFailovers = 1
  NoProfile = NoProfile
  MaxExecs = 6
  MaxStops = 1
INVARIANTS EffectsOnce ResultKept RetriedOnce
CHECK_DEADLOCK FALSE
