\* Workflows with fan-out, merges, repairs and a rejoin; two runs, the
\* second resumed from any node; two faults.
SPECIFICATION FairSpec
CONSTANTS
  Workflows <- MCWorkflows
  Results <- MCResults
  MaxRuns = 2
  MaxFaults = 2
  JournalMayStay = FALSE
  ResumeAtMerge = FALSE
INVARIANTS SettledTwiceStops CompletedIsWhole MergedFromResults MergeAtomic
PROPERTIES InheritsNoStale RunSettles
CHECK_DEADLOCK FALSE
