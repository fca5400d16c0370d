SPECIFICATION Spec
CONSTANTS
  Routing <- MCRouting
  RepairEscalation <- MCRepairEscalation
  PolicyProfiles <- MCPolicyProfiles
  Unrunnable = {"ANTIGRAVITY_FREE", "OPUS_5_5_MEDIUM"}
  MaxFailovers = 2
  RepairLimit = 2
  LightReview = FALSE
  Keys = {"f1", "f2"}
  Findings = {{"f1"}, {"f2"}}
  FirstFindings = {{"f1"}}
  Plans <- MCPlans
  FailureClasses = {"RATE_LIMIT", "TIMEOUT"}
  Snapshots <- MCSnapshots
  Pauses = {20, 300}
  MaxRepairs = 4
  MaxTroubles = 2
INVARIANTS
  ReviewIndependent
  RepairsClimb
  LedgerTold
