SPECIFICATION FairSpec
CONSTANTS
  Tasks = {"t1", "t2", "t3"}
  NoTask = NoTask
  Order <- MCOrder
  QueueOf <- MCQueueOf
  Backlog <- MCBacklog
  Worktree <- MCWorktree
  AutoContinue <- MCAutoContinue
  Unready = {"t3"}
  Pids = {1, 2}
  NoPid = 0
  Limits = {1, 2}
  MaxActs = 3
  MaxRestarts = 1
PROPERTIES OnlyPassContinues RunningSettles HeldQueueStarts
CHECK_DEADLOCK FALSE
