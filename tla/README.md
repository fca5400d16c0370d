# Formal models of the Adaptive AI Work Engine

TLA+ models of the engine: what keeps two controllers from driving one run, how
an executor call survives crashes, how iterations, reviews and chains lead to
the Human Gate, how a stop reaches the processes it must and spares the ones it
must not, how workflows fan out and merge, how the edits of a run are kept apart
from the operator's, how custom jobs are recorded, who is asked to do what
when providers fail, and how the Control Center works through its task queues.
TLC checks every model on small instances; TLAPS proves the most important
properties for all instances.

Paths are relative to the repository. `PROJECT.json` maps every definition to
the lines it models, and lists the runs, the mutants, the hazards and the
theorems.

## 1. The system

The engine has three ways to do work, and all of them end at a human:

* an **autonomous run** of a product task: a directory under `runs/` with
  `autonomy_state.json` (saved atomically after every decision), an append-only
  ledger, result artifacts, an isolated Git worktree and `controller.lock`. One
  process, the controller, advances it phase by phase:

      PLAN -> EXECUTE -> SELF_VERIFY -> AWAITING_REVIEW -> REVIEW -> FINAL_REVIEW
           -> ROADMAP_CHECK -> PLAN ... -> AWAITING_HUMAN -> HUMAN_APPROVED -> PROMOTED

  with REPAIR between a failed check and the next SELF_VERIFY. Most phases call
  a provider (a model behind a CLI), which a policy prefers and a router ranks;
* a **workflow run**: a graph of nodes (implementers, reviewers, repairs,
  machine gates, merges) drained by one loop over workers, in a worktree the UX
  bridge has leased for it;
* a **custom job**: a fixed program of nodes, driven by a command-line runner
  and finished by the operator's commands.

| component | state | operations | interacts through |
|---|---|---|---|
| run lock (`autonomy_run_lock.py`) | `controller.lock` | acquire, assert_held, release, inspect, reconcile | files; PIDs and creation times of processes |
| controller (`autonomy_controller.py`, `autonomy_contract.py`, `autonomy_chain.py`) | state file, journal, worktree | start, run, resume, one handler per phase | executors, ledger, lock, Git |
| execution protocol (`_call_once`, `_reconcile_in_flight`, `autonomy_adapters.py`) | in-flight marker, descriptors, artifacts | dispatch, retry, fail over, adopt, replay | router, ledger, provider processes |
| policy and router (`autonomy_policy.py`, `model_router.py`) | demoted pools, cooldowns, last pool | prefer, rank, record success or failure | called by `_call` |
| repair ladder (`repair_escalation.py`) | rung, attempts, escalation ledger | assess, next step, reset | called by `_begin_repair` |
| Human Gate (`approve_promotion`, `reject`, `promote`, `adopt_timed_out_side_effect_result`) | human hold, approval, token | approve, reject, promote, recover | takes the run lock |
| cancellation (`run_cancellation.py`, `product_runs.py`) | stop-request file, token, registered processes | request, register, unregister, watch | threads; the token reaches every process wait |
| product tasks (`product_runs.py`, `product_home.py`) | task records, launches, decisions | launch, stop, RESUME, accept, reject, continue | worker processes; HTTP threads |
| ledger (`execution_ledger.py`, `execution_contract.py`) | JSONL files, each with a lock | append, scan, seal a torn tail | all writers of a run |
| workflow runner (`workflow_runner.py`, `routing_contract.py`) | run state, frontier, arrivals, merge journal | execute, recover, verdict, resume | workers, worktrees |
| UX bridge (`aaw_bridge.py`) | active worktrees, runs | start, settle, keep, discard, adopt; save workflows | HTTP threads; the runner |
| run recovery (`run_recovery.py`) | lease, ownership manifest, authorized baseline | freeze, clean path by path | Git worktrees |
| custom jobs (`custom_job_runner.py`) | job state, candidate, decisions | execute, human_verdict, selected_repair | ledger, adapters, Git |
| Control Center queues (`CONTROL_CENTER/aaw_control_center.py`) | queue files, supervised processes, dialogs | start, pause, resume, edit, poll, reload | threads and their events; the runners' processes |
| planner proposals, MCP, product views, evidence, local models | see section 5 | | |

### What is hard, and what makes each part correct

* **Run lock.** Reading, judging and unlinking the lock file are separate
  steps of processes that crash, while the host reuses PIDs. One driver;
  nobody's live lock is taken away; a driver that lost it stops.
* **Execution protocol.** The controller dies between any two durable writes,
  while the provider lives on as an orphan. An implementer's effects are
  applied once, a completed result is neither lost nor counted twice, and no
  execution is retried by two others.
* **Router and ladder.** Failures, quotas and findings change while a run
  spreads its work over models. Nobody reviews what its model wrote; ordinary
  work does not eat the reserve; a provider in cooldown is left alone; repairs
  climb and end; the escalation ledger tells what happened, crashes included.
* **Controller.** Long sequences of legal steps: repairs after passed reviews,
  provisional chains, stubs planned ahead, a polish pass beyond the budget.
  Accepted work was reviewed as it is, provisional work stays bounded, the run
  ends at the gate.
* **Human Gate.** The worktree changes between review, offer, approval and
  promotion; promotion is interrupted. An integration starts only where the
  approved content was found; what happens to the worktree between that check
  and its use is beyond the gate.
* **Stop requests.** A stop is a file, a token, a watcher thread and a worker
  that may already have been replaced by the next. A safe stop never kills a
  side effect, an urgent one reaches every process, and it ends the worker.
* **Ledger.** Several writers, torn tails, deaths in the middle of a line. It
  is a log that only grows, without gaps, with every request in it once.
* **Workflow runner.** Parallel branches, merges that wait, repairs minted at
  run time, crashes inside a merge, resumption from the middle. Nothing
  selected is forgotten, budgets hold over resumptions, a merge is whole or
  absent, what is inherited is not stale, every run settles.
* **Recovery.** Leases of two kinds, a manifest sealed when the run settles, and
  an operator who edits, commits, starts and cleans. One run drives a worktree,
  and a run starts from nothing but commits and the work of settled runs. That
  cleanup removes a run's own edits and nothing else is said, but not so.
* **Custom jobs.** The ledger fails or its answer is lost, the operator decides
  from another process. Nothing runs unrecorded; what is offered was reviewed.

* **Task queues.** Threads report to a user interface that may be closed before
  they do, or reload its documents at any time. A stopped queue does not go on unasked, nothing is RUNNING for ever
  and nothing that waits is forgotten.

## 2. The modules

| module | models |
|---|---|
| `RunOwnership` | abstract: one owner per run; ownership is given up by its holder, or retired once the holder is gone |
| `RunLock` | the lock file, with every file access a step; implements `RunOwnership` |
| `ExecutionProtocol` | the calls of a row of phases, every durable write a step, crashes between them |
| `ModelRouter` | the router's filters, quota zones, scores, demotion, cooldown and ranking, as operators |
| `RepairLadder` | the rungs a surviving finding climbs, and what counts as progress, as operators |
| `RepairRun` | one iteration from EXECUTE to its acceptance or the gate: composes policy, `ModelRouter`, `RepairLadder` and the escalation ledger |
| `PromotionGate` | abstract: what is offered, decided and integrated |
| `AutonomyController` | every phase handler a step; iterations, roadmap, chains, polish, Human Gate; implements `PromotionGate` |
| `SafeStop` | the two threads of a worker, the cancellation token and the provider process it waits for |
| `ProductTask` | one task: people, launches, lock, decisions; composes `SafeStop` with the life of workers |
| `RoutingContract` | verdicts, edge conditions, gates, merge policies, ancestry and cones, as operators |
| `WorkflowRun` | a workflow, its run and the one that resumes it; uses `RoutingContract` |
| `WorkspaceRecovery` | one worktree: leases, runs, manifests, baselines, recovery requests |
| `EventLog` | abstract: a gapless log with each request at most once |
| `ExecutionLedger` | the ledger file and its append, write by write |
| `CustomJob` | a custom job over `ExecutionLedger`; implements `EventLog` |
| `TaskQueues` | the task queues of the Control Center, their threads, events, dialogs and restarts |
| `MC...` | constants for TLC: symmetry sets, rows of calls, roadmaps, workflows, jobs, queues, the shipped routing configuration |
| `RunLockProofs`, `ExecutionProtocolProofs`, `AutonomyControllerProofs`, `ProductTaskProofs`, `WorkflowRunProofs`, `CustomJobProofs`, `RepairRunProofs` | theorems about the module of that name and those it extends |
| `WorktreeProofs` | theorems about `WorkspaceRecovery` and `TaskQueues`: who works in a worktree |

The autonomous run is cut by grain. `RunLock` treats a phase as an interval
("boundary" to "phase" and back); `ExecutionProtocol` opens that interval and
treats phases as a fixed row; `RepairRun` sees the calls of one iteration and
asks who makes them; `AutonomyController` treats each phase as one step and
decides which comes next; `ProductTask` sees only the three kinds of calls a
stop tells apart. Each says what it takes from the others: all but `RunLock`
rely on there being one controller.

### RunLock

An agent is one process with its `RunLock` object; since a process acquires
once, the agent stands for its random `owner_token`. `pc` follows
`worker_main`/`resume` (reconcile, unlink, acquire), the loop of
`AutonomyController.run` (boundary, phase) and `release` (releasing). `Acquire`
is one step because `os.link` fails on an existing name. `reconcile_stale_lock`
is two steps, because it unlinks a *name* after judging a *file*; so is
`release`. `Liveness` gives every answer `owner_liveness` may find: a PID is
reused by a controller or by a foreign process; the creation time distinguishes
it, except within its tolerance of a second; any query may fail; on POSIX the
recorded time moves when the wall clock is stepped (`ClockCanStep`).

### ExecutionProtocol

Variables are split into `durable` (state file, ledger, artifacts), `process`
(lost in a crash) and `world` (provider processes, history). One action per
durable write of `_call_once`: descriptor and in-flight marker, intent, spawn,
start, artifact, close, reference. `Retry`, `Failover`, `FailureEscalates` are
its three ways out of a failure; `TakeRecovered` is the use of an adopted
result; `Reconcile...` are the decisions of `_reconcile_in_flight`. `Crash` may
hit anywhere, `Cancel` leaves a stopped provider, `Pause` happens at a
boundary. `Route` ranks any set of profiles, also some that failed in the same
call before: the call may have outlasted their cooldown. An implementer that is alive may touch the worktree at any time, also
as an orphan. `EffectLastAssumption` says that `execute` and `repair` are the
last call of their phase, as in `_do_execute` and `_do_repair`.

### ModelRouter, RepairLadder, RepairRun

`RouteCall` is `route`: the manual override first, then the preferred profile
as long as its pool has headroom, then the ranked alternatives. Its inputs are
the request `_route` makes and what providers report (`telemetry`); scores are
in hundredths of a point so that the code's fractions are integers. `NextStep`
is `next_step` with `_try_stage`; `Consider` is the part of `_begin_repair`
before its save. In `RepairRun` a call is routed, is dispatched, fails
(`CallFails`: retry, failover or escalation) or answers. `file` is
`repair_escalation_ledger.jsonl` and `escalations` its copy in the state; the
`CrashIn...` actions append to the first and not to the second, which is what a
crash between `_append_ledger` and `_save` leaves.

### AutonomyController and PromotionGate

What a model answers is a nondeterministic choice (a plan, a verdict); what the
code does with the answer is not. `Accepted` is `check_plan`; `DependencyState`
and `AutonomousRemaining` are the roadmap's gates; `ReviewModeFor`, `StubLimit`,
`ChainToClose` and `CloseChain` are the chain arithmetic; `BeginRepair` is
`_begin_repair`, with the ladder reduced to a cap on attempts (`RepairCap`),
which `RepairRun` justifies. `Goto` only takes edges of `TRANSITIONS`. The
worktree is a version number that grows with every change: `work` is the version
after the iteration's last implementer call, `reviewed` and `passed` are those
of the last passed REVIEW and FINAL_REVIEW. `PhaseEscalates` gathers the ways a
handler gives up without a verdict; a phase interrupted by a crash and replayed
is a step not yet taken. The human actions take the run lock, so none happens
within a handler. A promotion is two steps: `PromoteChecks` reads the candidate
again, `Integrate` calls the promoter, and the worktree may be edited between
them; the process may end before (`PromoteLapses`) or after the integration
(`PromoteInterrupted`). `chained` says whether a run has chains; both kinds are
checked in one run.

### SafeStop and ProductTask

The main thread passes boundaries, spawns a provider and waits for it; the
watcher polls the request file. Every access to what they share (the flag, the
pause, the set of registered processes, `in_flight`) is a step. `ProductTask`
numbers workers by their launch and gives each person's request the steps
between which another request, or the death of the server, may fall. A worker
that dies leaves its lock to be reconciled by RESUME. A worker has released the
lock before it writes its exit file, so a successor may start first: `ending` has
the workers that write theirs late.

### RoutingContract and WorkflowRun

A node id is a sequence, so that a branch minted from a node is that node's id
with a number. `WorkflowRun` is the loop of `execute`: `head` (harvest),
`record` (one result, its verdict, arrivals, minted branches, merges that become
ready or blocked), `dispatch` (a worker, a gate, a merge) and `merge` (one file
at a time, under the journal; then the journal's removal, `MergeCommits`; then
the merge on record, `MergeCompletes`). Workers finish between any two steps; a crash
keeps what the state file says and is followed by `recover_run_in_place`; a
settled run may be resumed from a node, inheriting the results outside its cone.
The workflows are a constant: `ValidWorkflow` is what the schema's validation
lets through, as far as the run relies on it, and TLC evaluates it on the
workflows of the run.

### WorkspaceRecovery

The content of a file is named by its last author. A run's thread reserves its
bridge's slot, takes the worktree's lease, validates the baseline, edits,
returns, seals the manifest and gives back slot and lease; a bridge may die at
any of these. Recovery requests re-check the manifest against the tree path by
path, with the operator, commits and other runs in between. A discard is
its inspection, one `RestorePath` for each path it saw, and the check of the
result; it may fail between any two of them (`RestoreFails`).

### ExecutionLedger and CustomJob

An append takes the ledger's lock, scans, writes and answers; the write may be
cut anywhere, and the next writer seals the torn tail with a newline.
`CustomJob` reads a job's shape as a program of nodes. `mem` is the copy of the
job state each process works on and `disk` the file: that they differ while
another process decides is the point. The runner announces an execution, spawns
it, records its start and closes it, each with its own answer from the ledger.

### TaskQueues

One action per callback of the user interface, which runs them one at a time:
what the operator presses, `Drain` (one event), `Poll`. `jobs` holds the threads
and processes; a thread posts the PID of its process and how it ended. `Close`
loses threads, events and dialogs, but no process. `unsaved` is the one
difference between the documents and their files: `resume_selected_queue` resets
an interrupted task and may return before it saves. The methods that call each
other pass on a record of the documents (`StartQueue`, `StartWaiting`). `Reload`
is `load_all(recover=True)`, used at the start and by the Home page.

Two histories belong to the properties. `stopped` has the queues that may not
start a task before the operator speaks: one that was paused, interrupted, or
whose task did not pass. `excused` has the queues with a process the program
has lost from sight, through a reload, the poll or a verdict, until that
process is done. A task without a worktree runs in the repository and is never
held back, as in `_worktree_in_use`.

## 3. The runs

| run | shows |
|---|---|
| `RunLockSafe` | four controllers, three PIDs: mutual exclusion, live locks kept, refinement of `RunOwnership`, as long as reconciles do not overlap and the clock is not stepped |
| `RunLockLost` | without those two provisos: a driver that lost its lock stops (liveness) |
| `RunLockOverlap` | violation: overlapping reconciles give two drivers |
| `ExecutionRun` | architect, diagnosis and repair, packet and two review rounds over two profiles, one stop, whatever is eligible whenever: effects once, results kept, retries a chain |
| `Controller` | chains of two with batching, polish and a standing item, and no chains with one edit from outside; a human-required item: reviews precede acceptance, done items are backed, the open chain is bounded, the candidate reviewed, refinement of `PromotionGate`, settling (liveness) |
| `TaskStop` | two people whose requests overlap, three launches, two stops: safe stops spare side effects, urgent ones reach every process, records match the run, a stop ends the worker (liveness) |
| `WorkflowRun` | five workflows, each run and resumed, two faults: merges, completeness, inheritance, settling (liveness) |
| `Workspace` | two bridges, two runs, two files: one driver, baselines are settled work |
| `WorkspaceLateSeal` | violation: a manifest frozen late lets a discard remove the operator's edit |
| `CustomJob` | five jobs, a runner and two command lines, two ledger faults or deaths: a valid ledger, nothing unrecorded, a whole candidate, refinement of `EventLog` |
| `TaskQueues` | two queues, tasks that share a worktree and one without, three acts of the operator, one restart: only a PASS goes on, no task is RUNNING for ever, held queues are started (liveness) |
| `RepairRun` | three plans under the shipped profiles, policy and ladder, two troubles: independent reviews, climbing repairs, a truthful ledger |

### Bounds

* `Agents` (4) and `Pids` (3): a dead owner, a reconciler, the successor that
  overtakes it, and a bystander; fewer PIDs than agents forces reuse.
  `RunLockLost` and `RunLockOverlap` use three agents.
* `MaxExecs` (6) is one execution for each call, or room for a failed, a
  failed-over, a retried and a replayed execution of one of them; at the bound
  the controller just stops. `MaxStops` (1): a crash, pause or cancellation
  anywhere. Longer nests of retries and failovers, and recoveries that are
  themselves interrupted, are covered by the proofs of `EffectsOnce`,
  `ResultKept` and `RetriedOnce`, which hold for every bound. Two profiles: one to fail and one to fail over to.
* `MaxIterations` 3 (one chain and the start of the next; three iterations
  without chains) and `RepairCap` 1: a repair after either review and after
  self-verification. `Skips` and `Stubs` bound what the architect may leave out
  and plan ahead: nothing or the first step, and the second step; the theorems
  allow any. `MaxEdits` is one change from outside, anywhere, in runs without
  chains, and none in runs with chains, where the number of states forbids it;
  the safety properties are proved for any number in both. `MaxIntegrations` 2:
  an interrupted promotion and its repetition.
* `TaskStop`: `MaxStops` 2 (a safe stop, and the urgent one that follows it, or
  one for each worker), `MaxCalls` 2 (a call and its retry), two people, three
  launches (a worker, its successor, and the one a race would add).
* `WorkflowRun`: `MaxRuns` 2 and `MaxFaults` 2: a crash within the recovery of a
  crash, in the first run or the resumed one. The workflows have the shapes of
  those under `WORKFLOWS/`: both merge policies, branches that clash on a file,
  a repair beside a branch, and two repairs that meet in one node.
* `Workspace`: two of everything that can conflict, one recovery request; larger
  instances are left to the theorems of `WorktreeProofs`, which state the same
  properties. `WorkspaceLateSeal` needs one bridge and one run only.
* `CustomJob`: `MaxFaults` 2, `MaxId` 8 and `MaxEdits` 3, which the longest job
  reaches only after a repair; five job shapes with and without a plan, gates,
  checkpoints and selectable findings.
* `RepairRun`: `RepairLimit` 2 (the shipped ladder has two attempts a stage),
  `MaxRepairs` 4 (through CURRENT onto the ladder and one reset), `MaxTroubles`
  2 over reports, time, failures, crashes and turned findings together; two
  findings, three reports (low, reserve, exhausted) and pauses on both sides of
  every cooldown and of the demotion's end. The aliases of listed profiles are
  left out; one profile fails its preflight as a first choice and one as an
  alternative.
* `TaskQueues`: two queues with two tasks and one to be added, the first of each
  sharing a worktree, the second without one; two PIDs, so that a dead process's PID is taken by the
  next; the limit is 1 or 2 and may change. `MaxActs` 3 is what it takes to hold a
  queue back and interfere with the one that holds it (add, start, start; or two
  starts and a pause, a deletion or a reload), `MaxRestarts` 1. With four acts,
  which take longer than a run should, `HeldQueueStarts` was checked without
  restarts and with the limit 1: a queue can then be left waiting by the deletion
  of a task, and the property names that case.
* Deadlock is checked in `RepairRun` only, whose ends stutter explicitly. All
  others really stop: a run is finished at its last status, waits for a human,
  or has reached a bound.

What a single guard settles (`WithinLimits` for the budgets of a workflow,
`Usable` for the reserve of a quota, `Runnable` for cooldowns) has no property
of its own.

### Fairness

* `RunLock`: weak fairness of each agent's own steps. The operating system
  schedules a living process, and every executor call has a timeout. Nothing
  obliges a crash, RESUME, or another program.
* `AutonomyController`: weak fairness of the controller's steps: the run is
  driven, or resumed after a stop. Nobody is obliged to decide at the gate.
* `ProductTask`: weak fairness of the worker's main thread, whose calls have
  timeouts, and of its watcher,
  a loop of its own that polls every 0.4 s. People, servers and crashes are
  free.
* `WorkflowRun`: weak fairness of the loop and of workers finishing, all of
  which have timeouts. Nobody is obliged to resume or to give a verdict.

* `TaskQueues`: weak fairness of threads and processes (each call of a runner
  has a timeout), of the event loop and the poll, which are timers, and of
  opening the program again. Nobody is obliged to press anything.

### Where the code and what is said of it differ

Two are runs of their own. In `RunLockOverlap`, `reconcile_stale_lock` unlinks by
name, so of two overlapping calls the second removes a living controller's lock
(`autonomy_run_lock.py:287`). `RunLockLost` shows the damage is limited: the
loser stops at its next boundary. In `WorkspaceLateSeal`, a discard removes the
operator's edit (below, Workspace). The others came up while modelling. Where a
constant is named, the passing run has it switched off, and switching it on lets
TLC show the difference.

**Execution and controller**

* Retry and failover feed each other. A read-only call that times out is retried
  once through a fresh routing (`autonomy_controller.py:1176`), and the retried
  call may fail over, time out and be retried again. What should end this is that
  failed profiles cool down; but a timeout's cooldown is ten minutes
  (`model_router.py:165`), which a call may outlast, and the first profile is
  then eligible again. The docstring of `_call` speaks of bounded provider
  failover (`autonomy_controller.py:1023`); there is no bound on the executions of
  one call. The model has such calls (`Route` ranks any profiles), its `MaxExecs`
  cuts them off, and no property claims a bound. The retry link is consumed by
  the next allocation, whichever call makes it (`:1103`).
* The one-shot architect can be started again: `Spawn` comes before
  `ObserveStart`, and `AlreadyInvoked` asks for the recorded start (`:540`).
* An adopted result lives in memory only: a second stop forgets it (`:569`).
* NO_FURTHER_ACTION ends a run mid-chain without closing the chain
  (`EndsOpenChain`, `:1413`).
* Dependency gates look one step back, so an item two steps behind a human gate
  counts as remaining autonomous work (`autonomy_contract.py:322`).
* The integrating promoter runs before PROMOTED is saved, so an interrupted
  promotion integrates again (`autonomy_controller.py:2799`); the specification
  calls the token one-shot. `ImplementsGate` says what still holds: each
  integration has a check of its own.
* The promoter is called some time after the check (`:2790`, `:2799`). If the
  worktree is edited between the two, what is integrated was approved by nobody;
  the abstract gate has this case (`moved`).
* The packet of a review is rebuilt if the worktree has changed since (`:2096`),
  but a change after the final review is looked for by nobody: the candidate
  offered at the gate is what is there. `CandidateReviewed` therefore speaks of
  runs without edits from outside.
* The journal says HUMAN_APPROVED before the state does (`:2727`); after a resume
  in a review phase the adopted verdict is attributed to the last listed
  execution (`:2108`); `resume` gives the lock back for an `AutonomyError` only
  (`:456`).
* `AdoptTimedOut` is documented for EXECUTE and REPAIR, but its guard excludes
  every REPAIR (`:2665`), and it leaves AWAITING_HUMAN for SELF_VERIFY without
  `transition_allowed` (`:2684`).

**Routing and repair**

* The alternatives of a call are ranked once. A provider its failure puts into
  cooldown is asked again if another of its profiles comes next, which the
  shipped configuration does (`autonomy_controller.py:1038`).
* After a manual override, the failover list is drawn from the eligible and not
  the usable profiles, so an EXECUTE may reach the reserve and demoted pools
  (`model_router.py:601`).
* A provisional acceptance writes no dispositions: with `LightReview`, pending
  escalations stay pending and `LedgerTold` fails.
* A crash between the ledger's append and the save duplicates lines under a new
  id and may leave contradictory dispositions (`autonomy_controller.py:2250`);
  `LedgerTold` bounds the orphans by the crashes.
* At the repair limit, progress on the CURRENT rung stops at the gate although
  no progress would have climbed, and so does a fully new problem, with a fresh
  ladder; the docstring says that only an exhausted ladder ends there.
* `_return_confirmed` looks at the quota of a pool's first profile only; a
  TRIVIAL task's decision has no `router_state`, which `_route` reads (`:997`).

**Stops and tasks**

* Of two overlapping RESUMEs, the second clears a stop made while the first
  one's worker drives, and that worker goes on (`product_runs.py:860`); the
  server's threads do not keep them apart. `StopEnds` speaks of requests that
  stay on file.
* `worker_alive` trusts the PID: one that was reused refuses RESUME
  (`product_runs.py:868`). A worker that dies between saving AWAITING_HUMAN and
  releasing leaves a stale lock that accept, reject and RESUME all refuse.
* A crash between approve and promote leaves HUMAN_APPROVED, which accept
  refuses (`product_runs.py:1047`); `prepare_continuation` commits whatever the
  worktree holds by then.
* An urgent stop is overwritten by a safe one within a poll of the watcher; a
  safe stop on POSIX terminates the direct child only.

**Workflows**

* A run resumed at an ALL_REQUIRED merge has no arrivals there, copies nothing
  and passes (`ResumeAtMerge`, `workflow_runner.py:2086`); resumed downstream of
  a merge, or on one branch before it, it ends BLOCKED.
* A merge journal whose removal failed unnoticed lets a later crash recovery
  roll back a committed merge (`JournalMayStay`). A failed rollback keeps the
  journal for a recovery that then returns early, as INVALID is final.
* A repair branch minted at run time is INVALID in process mode: its worker
  looks among the declared nodes only. A repeated node cannot overwrite its
  result file, so the old result is read. Recovery never looks at PIDs.
* A process worker cut off by a cancellation is recorded as FAIL and routed;
  the run may end NO_ROUTE, BLOCKED or COMPLETED instead of cancelled.
* Whether an unmet `depends_on` is INVALID depends on the order in which workers
  finish; cones ignore `depends_on`; a settled run may leave worker threads
  behind; a candidate counts as verified although another review failed;
  `apply_human_verdict` reads, checks and writes without a lock.

**Workspace**

* Without `Serial`, discard and adopt take no lease and overlap a moving run:
  `CleanupTakesOwnOnly` fails, although the documentation says that any drift
  disables cleanup. An edit between the inspection of a discard
  (`run_recovery.py:454`) and the restoration (`:487`) or the unlink (`:490`) is
  lost, and one between the inspection of an adoption (`:226`) and its snapshot
  (`:234`) becomes part of the baseline (`BaselineIsRunWork` fails).
* With `SealMayFail`, the seal at settlement may fail. "A missing manifest simply
  fails closed", says the comment (`aaw_bridge.py:611`), but the next request
  freezes one (`aaw_bridge.py:927`) from a tree the operator may have edited
  since, and discard removes their edit: the run `WorkspaceLateSeal`.
* Recovery requests do not ask whether somebody else's child still writes. With
  five runs in a row, the child of a dead bridge can write between the
  inspection and the restoration of a discard: the third extends what the first
  left and is adopted; the fourth undoes that and is undecided; the second, which
  had changed nothing, is adopted then, which makes the worktree startable again;
  the fifth starts, its bridge dies, and while its child works on, the fourth is
  discarded. This breaks
  `CleanupTakesOwnOnly` too, even with `Serial` and a seal that does not fail.
* The authorized baseline is never removed: after adopt, a run and a keep, or
  any commit, every later start is BLOCKED. A lease never expires after a crash
  (`aaw_bridge.py:617`). Keep overrides ADOPTED; keep, discard and adopt race.

**Custom jobs** (`Unchecked` names the first three)

* "hidden edit": a read-only node changes a file that was already changed.
  "single commit": an implementer commits in a job without checkpoints.
  "repair again": `selected_repair` never leaves WAITING_FOR_REPAIR_SELECTION,
  so a second one hides an unreviewed commit; `repair.max_cycles` is not read.
* "stray error": an adapter raising something else than a `WorkflowStop` leaves
  the job RUNNING for ever, as does a moved main checkout found at the end.
* A process whose start could not be recorded is closed as never spawned. A
  verdict whose state save failed can be given again, differently, and two
  command lines race (`custom_job_runner.py:517`): that the state's verdict is
  backed by a decision holds, that there is one decision does not.
* A PLAN with HUMAN_APPROVAL has no continuation; failed calls do not count
  against `max_llm_calls`; a candidate file left by a crash blocks the next.

**Control Center queues**

* Showing the Home page reloads the queues as after a restart: running queues
  become PAUSED, and a task whose PID was not reported yet INTERRUPTED, so that
  RESUME starts it beside its process (`CONTROL_CENTER/aaw_control_center.py:1408`,
  `:501`), and another queue may start in its worktree.
* A verdict starts the task's next process without asking for the limit or the
  worktree (`:2285`). A task without a worktree runs in the repository and is
  neither held back nor a reason to hold others back (`:2192`, `:2259`). So two
  processes may share a worktree, and no property says otherwise. All open dialogs decide the run of the last
  gate (`:3417`): ACCEPT in the first decides the second run.
* Held queues are started by completions and by saving the settings: not after
  a restart, and not when the poll ends a task of the last session (`:2338`).
  Neither does a completion start them whose task has been deleted, which it can
  be after the poll has interrupted it and a refused RESUME has made it WAITING
  again: `_on_queue_task_complete` returns at `:2309`. The queue then waits until
  the operator does something.
* A queue that the poll or a reload has paused for a human decision (`:506`,
  `:2345`) goes on by itself when the lost process turns out to have passed, also
  past a pause of the operator since (`:2357`). `OnlyPassContinues` lets these
  queues go (`excused`).
* A queue that was started again past a failed task ends COMPLETED (`:437`),
  although `_start_queue` calls it so only if every task passed; a CANCELLED
  task, unlike a failed one, does not make RESUME refuse (`:2369`).
* A queued custom job at its gate is handed to the workflow runner (`:3419`).

## 4. The proofs

All theorems hold for every value of the constants allowed by the modules'
named assumptions: any set of agents and PIDs, any row of phases, any roadmap,
any workflow the schema accepts, any job shape, any profiles with any policy
and ladder, any bound. A theorem that needs
more says so in its statement (`ASSUME ... = FALSE`), by a switch of the model
that stands for a difference listed in section 3. Type invariants are proved for
the lock, the protocol, the controller, the repair run, the product task, the
ledger, the workflow run and the workspace; that of the other modules documents
their variables.

**RunLockProofs.** `TypeCorrect`; and, assuming that reconciles do not overlap
and the clock is not stepped, `Exclusion`, `OwnerIsOnDisk`, `LiveLockIsKept`,
`RefinesOwnership`. The runs `RunLockOverlap` and `RunLockLost` show what is
left without the two assumptions. Mutual exclusion is not inductive: nothing in
it keeps a reconciler from unlinking a lock that changed hands. The invariant
adds `OwnerOnDisk` (a driver's lock is the one on disk), `RetiredIsGone` (the
lock about to be unlinked is the inspected one and its owner has ended), and
that at most one agent is about to unlink. From these, every step maps to one
of `RunOwnership` or stutters.

**ExecutionProtocolProofs.** `TypeCorrect`, `EffectsAreOnce`, `ResultsAreKept`,
`RetriesAreAChain`. `EffectsOnce` speaks of what was
spawned; its strengthening `IInv` has to follow one call through the protocol:

* `Working`: what the control state implies about phase, call and marker;
* `Current`: while a call is under way, the marker names the last execution
  and its descriptor is that of the call;
* `Described`: descriptors belong to the phases entered so far, and effects
  only to a phase's last call;
* `Between`, `Settled`: with no call under way in an effect phase, every
  implementer of the phase is over and left the worktree as it was.

`Reach` adds where each completed execution is listed, and `Fresh` that the
pending retry link is not used by any descriptor; each is proved inductive
relative to `IInv`. Which profiles are
ranked for a call plays no part, so the theorems hold however often a call is
retried and failed over.

**AutonomyControllerProofs.** `TypeCorrect`, `AcceptedIsReviewed`,
`BudgetIsKept`, `ImplementsPromotionGate`, for any roadmap, chain length,
review mode, budget and number of uninvited edits. The invariant `IInv` adds to
the types:

* `Gated`: a run is at a phase of the loop exactly while it is RUNNING, and
  has no escalation then;
* `Working`: the handlers after PLAN find an iteration, which is in progress
  while they work on it, and still is when an implementer's phase escalated
  (so that timeout recovery never reopens an accepted iteration);
* `Versions`: no version is reviewed or produced beyond the worktree's, and
  FINAL_REVIEW starts only from work a REVIEW has passed. This is what makes
  the repair after a failed final review pass REVIEW again;
* `Reviewed`: accepted iterations, by index.

`Budget` adds that provisional iterations are light ones, hence never the
polish pass, and that a pending polish pass finds the budget not exceeded.
`OnOffer` says that a candidate is on offer only to a human and only when
nothing escalated, and that an approved candidate is still in the worktree while
a promotion has found it and nobody has edited it since; with it each step maps
to one of `PromotionGate` or stutters.

`OpenChainHolds` and `DoneIsBackedHolds` assume nothing further. `Chain` adds
that all iterations behind the current one are accepted, provisionally or for
good (`Behind`), that the provisional ones come last and leave room for the one
that closes the chain (`Tailing`), and which iterations get a final review
(`Light`). `Backed` adds that an iteration works only on items whose
dependencies are DONE or its own, and that a DONE item has an iteration that was
accepted, is provisional, or closes the chain. `CandidateReviewedHolds` assumes
`EndsOpenChain = FALSE`: an architect that answers NO_FURTHER_ACTION in the
middle of a chain has the gate offer an iteration no reviewer saw. TLC shows
that only with four iterations, one more than `Controller` has.

**RepairRunProofs.** `TypeCorrect`, `ReviewIndependentHolds`,
`RepairsClimbHolds`, `LedgerToldHolds`, for any profiles, policy, ladder, plans,
findings and reports that the configuration's validation lets through
(`RunAssumption`). The invariant `Inv` has three parts:

* `Typed` says where the iteration is: which call each phase makes (`Placed`),
  that ladder, origin and repairs are on stages the ladder has (`Posed`), and
  that no writer is ranked for the review in flight (`Calling`). The last needs
  that `route` ranks only profiles that pass its filters. `RouteCallIs` shows
  that, over zones, demotions and failovers: a finite set in a strict order has
  one element at every place (`Lineup`), so that ranking by score loses and
  invents nobody.
* `Climbing` adds what `RepairsClimb` leaves out: while a repair is due, the
  repairs and the one to come climb together, and the ladder stands at the last
  of them, with its attempts ahead of the streak of repairs on that rung
  (`Stands`). `ClimbExtends` is the step: a new problem ends the streak, progress
  counts one more on both sides, anything else is a higher rung.
* `Ledger` speaks of every state and not only the last: each disposition of the
  state is the last that the file has for that id (`Tells`), ids do not exceed
  the number of escalations on file, so that the next one is new, and a repair
  above the first stage has an escalation. What a step writes is either
  dispositions, perhaps followed by an escalation (`Wrote`), or the same without
  the state's knowledge (`Lost`), which a crash pays for.

A step is taken apart once, into six shapes (`Shapes`), and each part of `Inv`
is shown to survive each shape. `LedgerToldHolds` assumes `LightReview = FALSE`,
see section 3.

**ProductTaskProofs.** `TypeCorrect`, `SafeSparesEffectsHolds`,
`NoProcessEscapesHolds`, `RecordsAreTrueHolds`. `ThreadsInv` relates the two
threads of a worker: a request goes through the pause before it may become a
cancellation (`PauseFirst`), and a cancellation on its way that nobody forced has
met a phase that may be cut short, which the pause keeps from being replaced by
the next (`CutsReadOnly`). `FilesInv` relates the requests between two of their
steps to lock and state: a decision is recorded only once taken
(`RequestsAreTrue`). Nothing is assumed of the requests: RESUMEs may overlap each
other and everything else.

**WorkflowRunProofs.** `TypeCorrect`, `MergeAtomicHolds`,
`SettledTwiceStopsHolds`, `CompletedIsWholeHolds`, `MergedFromResultsHolds`,
`InheritsNoStaleHolds`.

* `JournalInv`: with a journal on disk, its backups are the worktree as the last
  completed merge left it, and only its files may differ. `MergeAtomicHolds`
  assumes `JournalMayStay = FALSE`.
* `RunInv`: minted branches are repairs under new ids, each worker and each
  entry of the snapshot has a node of its own, nothing has settled twice while
  the run goes on. What `record` does to queues, arrivals and minted branches is
  shown once, by induction over the edges of a decision, and used by the rest.
* `NothingForgotten`: as long as a run goes on, what has been selected is on its
  way: at a merge, on record, in a queue, with a worker or in the merge at work.
  A COMPLETED run has empty queues, so nothing selected is left over.
* `MergesFed`: an arrival was routed by a result on record, and a merge is taken
  up only with its policy satisfied. `MergedFromResultsHolds` assumes that no
  run starts at a merge (`StartsElsewhere`) or is resumed at one
  (`ResumeAtMerge = FALSE`). The first holds of every contract workflow, whose
  nodes are all reachable and free of cycles (`workflow_schema.py:289`).
* `Traced`: an arrival of the run itself comes from a completed node that leads
  there, and a minted branch stems from a completed node that leads to its
  template. The cone is computed from what nodes declare and from the origins of
  branches, the ancestry from arrivals; they meet because a branch leads where
  its template does (`ConeClosed`). `ClosureIs` says that the bounded iteration
  behind both is the least closed set, by counting. Nothing is assumed.

**WorktreeProofs, the bridge's runs.** `TypeCorrect` and `OneRunDrives`, for any bridges,
runs and paths, with or without `Serial` and `SealMayFail`. `OneDriver` alone is
not inductive: it does not say whose lease is in the worktree. `LeaseNamesRun`
does: every run that is past acquiring the lease and has not released it, also
one whose bridge died, is the run the lease file names.

`BaselineIsRunWorkHolds` assumes `Serial` and no failing seal; section 3 says what
happens otherwise. `RecoveryInv` follows the contents: requests and moving runs do
not meet (`InTurn`); a run has its manifest once it has settled (`Sealing`); what
baselines and manifests hold against their commit is the work of sealed runs
(`Baselines`, `Attributions`); while a run drives, the worktree is its baseline but
for what it wrote (`Driven`); what was inspected, and is not restored yet, is still
so (`Inspected`). A bridge that dies with the lease in its hands (`Wedged`) makes an
exception: a child of it may write on, and no run starts any more.

**WorktreeProofs, the Control Center's queues.** `OnlyPassContinuesHolds`, for any
queues, tasks, worktrees and settings. `queue_decision` reads the documents, which
may have lost sight of what runs. `QueueInv` says how far they know it: of a queue that is not excused there is at most one thread,
process or completion to be heard of (`OnlyOne`), and as long as there is, the
queue and its task are RUNNING in the documents and the task is still listed
(`Known`). What a step does to the queue it is about is then local: a queue that
is not RUNNING has nothing open, an end takes the one thing that was, and a
reload or the poll excuses every queue it files as something else. That
`_start_waiting_queues` keeps all this is shown by induction over the rounds of
its loop, for a set of numbers; `StartWaiting` is a recursive function for that
reason. `HaltInv` adds that a stopped queue is never WAITING, and has its pause
on record if it still runs. With `OnlyOne`, a completion that lets a queue go on
is the one its document speaks of, so `queue_decision` reads the right pause.

**CustomJobProofs.** `LedgerTypeCorrect`, `LedgerValidHolds`,
`NothingUnrecordedHolds`, `ImplementsLogHolds`, for any job and anything in
`Unchecked`; `CandidateWholeHolds`. `LedgerInv` says that the lines parse to a log numbered without
gaps and that whoever is past the scan is alone and holds the next number. The
loop of `_scan` is a recursive function of the line's number; that a prefix is
read the same whatever follows it is shown by induction over that number, for a
set of numbers instead of a predicate. `JobInv` adds that an execution in flight
is announced on file from its dispatch on and has a number nobody else has. Each
step of the ledger maps to one of `EventLog` or stutters.

`CandidateWholeHolds` speaks of every program `ProgramAssumption` admits: each
task of a job with checkpoints has its gates and its commit before the next one,
the review or the stages come last, as `execute` has it. It assumes
`Unchecked \subseteq {"stray error"}`: that no read-only node rewrites a file
which is changed already, nobody commits in a job without checkpoints, and one
repair cycle is run, which the runner does not look for (with any of the three,
TLC finds a candidate nobody has seen). `CandidateInv` follows what the human
will be shown. One process at a time works on the job (`Turns`), on a copy that
offers nothing yet (`CopyInv`). What it knows of the worktree depends on where it
is (`WorkInv`): before a role, every commit there is belongs to the copy and to
the ledger, or a commit of the task is next (`Based`); from the call of a model
on it holds of what was there then, and a reviewer that changed something is not
taken for one that did not (`Watched`), since HEAD and the number of changed
paths only grow; while a commit is recorded, it is the one the ledger was asked
for (`Checkpointing`); a repair starts no later than what the review saw
(`RepairKnown`). A job that waits for a selection is as its review left it
(`Selectable`), so a repair starts from what was reviewed.

**Only model-checked.** The liveness properties (`LostOwnerStops`,
`RunSettles` of the controller and of workflows, `StopEnds`,
`RunningSettles`, `HeldQueueStarts`) are outside the prover's reach, as is
ENABLED. Scores are proved to be numbers and to decide an order, not to prefer
whom the code's comments say they prefer.

## 5. Not modelled

Within the modelled components:

* `CONTROLLED_ADAPTIVE` in `_do_execute`: `adaptive_policy.py` locks it in
  production. Its branch also runs EXECUTE without an in-flight marker.
* Of the router: retry-after times, an operation in progress (the controller
  never asks for it), exploration, chains of implementers, capability
  escalation, raw-evidence second reviews, TRIVIAL tasks, the severities of
  findings. `ExecutionProtocol` takes any ranked set of profiles instead of
  `ModelRouter`'s, so that what it proves does not depend on scores.
* The journal of a run: nothing decides by reading it. The content of plans,
  findings and packets, beyond items, verdicts, finding keys and versions.
* Sessions and their reuse, token budgets and Git itself: their refusals are
  part of `PhaseEscalates`, `HandlerEscalates` and `AnswerRefused`.
* Processes that survive SIGKILL, and grandchildren of a stopped provider.
* Of workflows: the value of the wall-clock budget (that it may run out at any
  dispatch is modelled), preprocessing, bindings, telemetry, layout and the
  command line; the hashes and the journal of the routing contract.
* Of recovery: worker threads that outlive a settled run. Of custom jobs: the
  wall-clock limit, adapters without a process, overlapping repairs.
* Of the Control Center: a PID that another program has been given since
  (`process_exists`, `:404`), exceptions inside `_drain_events` or `_poll`, the
  command lines of a task's mode, single runs and
  workflows started outside a queue, preflight, settings other than the limit,
  views and analytics.

Components without a module, each with its reason in `PROJECT.json`:

* **Authoring and planner proposals.** Each HTTP request reads, checks and
  writes one workflow file. Under the bridge's threads `save_workflow` compares
  a hash and writes without a lock, so that of two saves from one base the first
  is lost; accept races with reject and with a start. These are races within a
  single check and write, which a model would only restate.
* **MCP servers.** Stateless dispatch and validation.
* **Adaptive orchestration.** Locked in production.
* **Evidence, telemetry, benchmarks, analytics, product views.** Computed from
  durable files; they write nothing the engine reads.
* **Local models, frontend, launcher, packaging.** Input and output around the
  engine.

## 6. Plan

Done: the modules above, their runs, and the proofs of section 4.

Left: `ExecutionProtocol` with `ModelRouter` as its router.
