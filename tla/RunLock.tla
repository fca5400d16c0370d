------------------------------ MODULE RunLock -------------------------------
(***************************************************************************)
(* autonomy_run_lock.py: the file controller.lock that keeps two           *)
(* controllers from driving one run, with the processes that use it:       *)
(* AutonomyController.run (autonomy_controller.py) and the product worker  *)
(* (product_runs.worker_main), which may first retire a stale lock.        *)
(*                                                                         *)
(* An agent is one controller process with its RunLock object.  A process  *)
(* acquires at most once, so the agent stands for its random owner_token.  *)
(* Each step reads or writes the lock file once: reading it, deciding, and *)
(* unlinking it are separate steps, and other processes, crashes and the   *)
(* operating system's reuse of PIDs come between them.                     *)
(***************************************************************************)
EXTENDS Naturals, FiniteSets

CONSTANTS
  Agents,                \* controller processes that may come to exist
  NoAgent,               \* "no lock file", "no expected token"
  Pids,                  \* process identifiers the host hands out
  NoPid,                 \* the PID of a process that was never started
  OverlappingReconciles, \* may two reconcile_stale_lock calls overlap?
  ClockCanStep           \* may the wall clock be stepped under a live owner?

ASSUME AgentAssumption == NoAgent \notin Agents
ASSUME PidAssumption   == NoPid \notin Pids
ASSUME FlagAssumption  == /\ OverlappingReconciles \in BOOLEAN
                          /\ ClockCanStep \in BOOLEAN

VARIABLES
  lock,     \* the agent recorded in controller.lock, or NoAgent
  pc,       \* where each agent's code stands
  pid,      \* the PID each agent was given; it stays in the lock record
  expected, \* --reconcile-lock TOKEN: the lock the operator inspected
  foreign   \* PIDs now used by processes that are not controllers

vars == <<lock, pc, pid, expected, foreign>>

PcValues == {"unborn", "reconcile", "unlink", "acquire",
             "boundary", "phase", "releasing", "gone"}

TypeOK == /\ lock \in Agents \cup {NoAgent}
          /\ pc \in [Agents -> PcValues]
          /\ pid \in [Agents -> Pids \cup {NoPid}]
          /\ expected \in [Agents -> Agents \cup {NoAgent}]
          /\ foreign \subseteq Pids

Init == /\ lock = NoAgent
        /\ pc = [a \in Agents |-> "unborn"]
        /\ pid = [a \in Agents |-> NoPid]
        /\ expected = [a \in Agents |-> NoAgent]
        /\ foreign = {}

-----------------------------------------------------------------------------
Alive(a)   == pc[a] \notin {"unborn", "gone"}
Driving(a) == pc[a] \in {"boundary", "phase"}
PidsInUse  == foreign \cup {pid[a] : a \in {b \in Agents : Alive(b)}}

\* owner_liveness: what can be found out about the process recorded in a lock.
\* Any question to the operating system may go unanswered (UNKNOWN).  A reused
\* PID is told apart by its creation time, but two instants within a second
\* are the same instant.  The recorded time is derived from the boot time, so
\* it moves when the wall clock is stepped under a live owner.
Liveness(o) ==
  {"UNKNOWN"} \cup
  (IF Alive(o) THEN {"ALIVE"} \cup (IF ClockCanStep THEN {"PID_REUSED"} ELSE {})
   ELSE IF pid[o] \in PidsInUse THEN {"PID_REUSED", "ALIVE"}
   ELSE {"DEAD"})

\* Mutant: only a proven ALIVE keeps a lock.
AnyDoubtIsStale(o) == Liveness(o) \ {"ALIVE"} # {}

\* inspect_lock: RUN_LOCK_STALE only for these verdicts, RUN_LOCK_BUSY for
\* every other one.
StaleVerdicts == {"DEAD", "PID_REUSED"}
MayBeFoundStale(o) == Liveness(o) \cap StaleVerdicts # {}
MayBeFoundBusy(o)  == Liveness(o) \ StaleVerdicts # {}

Goto(a, where) == pc' = [pc EXCEPT ![a] = where]

-----------------------------------------------------------------------------
\* A process is started on the run: AutonomyController.start, or resume with
\* no lock to retire.
Launch(a, p) == /\ pc[a] = "unborn"
                /\ p \in Pids \ PidsInUse
                /\ pid' = [pid EXCEPT ![a] = p]
                /\ Goto(a, "acquire")
                /\ UNCHANGED <<lock, expected, foreign>>

\* RESUME on a lock found stale: the token just inspected is handed to the
\* new worker.
LaunchReconciling(a, p) ==
  /\ pc[a] = "unborn"
  /\ p \in Pids \ PidsInUse
  /\ lock # NoAgent
  /\ MayBeFoundStale(lock)
  /\ pid' = [pid EXCEPT ![a] = p]
  /\ expected' = [expected EXCEPT ![a] = lock]
  /\ Goto(a, "reconcile")
  /\ UNCHANGED <<lock, foreign>>

\* reconcile_stale_lock up to the unlink: the lock is read and judged again.
ReconcileInspect(a) ==
  /\ pc[a] = "reconcile"
  /\ OverlappingReconciles \/ \A b \in Agents : pc[b] # "unlink"
  /\ lock # NoAgent
  /\ lock = expected[a]
  /\ MayBeFoundStale(lock)
  /\ Goto(a, "unlink")
  /\ UNCHANGED <<lock, pid, expected, foreign>>

\* The three refusals; the worker records WORKER_ERROR and exits.
ReconcileRefused(a) ==
  /\ pc[a] = "reconcile"
  /\ \/ lock = NoAgent
     \/ lock # expected[a]
     \/ lock = expected[a] /\ MayBeFoundBusy(lock)
  /\ Goto(a, "gone")
  /\ UNCHANGED <<lock, pid, expected, foreign>>

\* lock_path(run_dir).unlink(): whatever file has that name now.  Without a
\* file it raises FileNotFoundError and the worker exits.
ReconcileUnlink(a) ==
  /\ pc[a] = "unlink"
  /\ lock' = NoAgent
  /\ Goto(a, IF lock = NoAgent THEN "gone" ELSE "acquire")
  /\ UNCHANGED <<pid, expected, foreign>>

\* Mutant: os.replace instead of os.link.
AcquireReplacing(a) == /\ pc[a] = "acquire"
                       /\ lock' = a
                       /\ Goto(a, "boundary")
                       /\ UNCHANGED <<pid, expected, foreign>>

\* RunLock.acquire: os.link publishes the record or fails on an existing name.
Acquire(a) ==
  /\ pc[a] = "acquire"
  /\ lock' = IF lock = NoAgent THEN a ELSE lock
  /\ Goto(a, IF lock = NoAgent THEN "boundary" ELSE "gone")
  /\ UNCHANGED <<pid, expected, foreign>>

\* Mutant: no assert_held.
BeginPhaseUnchecked(a) == /\ pc[a] = "boundary"
                          /\ Goto(a, "phase")
                          /\ UNCHANGED <<lock, pid, expected, foreign>>

\* One turn of the loop in run: assert_held re-reads the file, then a phase
\* handler works for as long as it takes.
BeginPhase(a) == /\ pc[a] = "boundary"
                 /\ lock = a
                 /\ Goto(a, "phase")
                 /\ UNCHANGED <<lock, pid, expected, foreign>>

EndPhase(a) == /\ pc[a] = "phase"
               /\ Goto(a, "boundary")
               /\ UNCHANGED <<lock, pid, expected, foreign>>

\* The loop ends (no longer RUNNING, a pause, an exception of a handler, or
\* RunLockError from assert_held) and release reads the file.
ReleaseCheck(a) ==
  /\ Driving(a)
  /\ Goto(a, IF lock = a THEN "releasing" ELSE "gone")
  /\ UNCHANGED <<lock, pid, expected, foreign>>

\* release unlinks the name it found to be its own.
ReleaseUnlink(a) == /\ pc[a] = "releasing"
                    /\ lock' = NoAgent
                    /\ Goto(a, "gone")
                    /\ UNCHANGED <<pid, expected, foreign>>

\* Mutant: an exit hook of a dying process removes its lock.
CrashCleaningUp(a) == /\ Alive(a)
                      /\ Goto(a, "gone")
                      /\ lock' = IF lock = a THEN NoAgent ELSE lock
                      /\ UNCHANGED <<pid, expected, foreign>>

\* The process dies anywhere; its lock file stays.
Crash(a) == /\ Alive(a)
            /\ Goto(a, "gone")
            /\ UNCHANGED <<lock, pid, expected, foreign>>

\* Processes that are not controllers come and go and use PIDs.
ForeignStart(p) == /\ p \in Pids \ PidsInUse
                   /\ foreign' = foreign \cup {p}
                   /\ UNCHANGED <<lock, pc, pid, expected>>

ForeignExit(p) == /\ p \in foreign
                  /\ foreign' = foreign \ {p}
                  /\ UNCHANGED <<lock, pc, pid, expected>>

Step(a) == \/ ReconcileInspect(a) \/ ReconcileRefused(a) \/ ReconcileUnlink(a)
           \/ Acquire(a) \/ BeginPhase(a) \/ EndPhase(a)
           \/ ReleaseCheck(a) \/ ReleaseUnlink(a)

Environment == \/ \E a \in Agents : Crash(a)
               \/ \E a \in Agents, p \in Pids : Launch(a, p) \/ LaunchReconciling(a, p)
               \/ \E p \in Pids : ForeignStart(p) \/ ForeignExit(p)

Next == (\E a \in Agents : Step(a)) \/ Environment

Spec == Init /\ [][Next]_vars

\* A process that is alive keeps executing: the operating system schedules it,
\* and every executor call of a phase has a timeout.  Nobody has to crash, to
\* press RESUME or to start another program.
FairSpec == Spec /\ \A a \in Agents : WF_vars(Step(a))

-----------------------------------------------------------------------------
\* "Two autonomy_controller processes must never drive the same run".
MutualExclusion == \A a, b \in Agents : Driving(a) /\ Driving(b) => a = b

\* Whoever drives the run, or is about to unlink the lock as its own, is the
\* agent recorded on disk: nobody works on under a lost lock, and release
\* cannot delete the lock of a successor.
OwnerOnDisk == \A a \in Agents : Driving(a) \/ pc[a] = "releasing" => lock = a

\* A lock that a reconciler is about to unlink belongs to a process that has
\* ended: the verdict is still true, and about the same file, when it is used.
RetiredIsGone == \A a \in Agents :
                   pc[a] = "unlink" => lock = expected[a] /\ pc[lock] = "gone"

\* Nobody but the owner takes the lock of a living owner away: the promise
\* "Refuses when the owner is alive or ambiguous" of reconcile_stale_lock.
LiveLockKept ==
  [][\A a \in Agents : lock = a /\ Alive(a) /\ lock' # a => pc[a] = "releasing"]_vars

\* The safety net of assert_held: a driver whose lock was taken away all the
\* same stops by itself.
LostOwnerStops == \A a \in Agents : Driving(a) /\ lock # a ~> ~Driving(a)

\* The lock file is a refinement of the ownership it stands for.
Ownership == INSTANCE RunOwnership
               WITH owner   <- lock,
                    driving <- {a \in Agents : Driving(a)},
                    left    <- {a \in Agents : pc[a] = "gone"}

ImplementsOwnership == Ownership!Spec
=============================================================================
