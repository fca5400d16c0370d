\* Two people, three workers, two stop requests.
SPECIFICATION FairSpec
CONSTANTS
  MaxStops = 2
  MaxCalls = 2
  Users = {u1, u2}
  MaxLaunches = 3
INVARIANTS SafeSparesEffects NoProcessEscapes RecordsAreTrue
PROPERTIES StopEnds
CHECK_DEADLOCK FALSE
