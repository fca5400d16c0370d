---------------------------- MODULE ProductTask -----------------------------
(***************************************************************************)
(* The life of one product task (product_runs.py): workers that are        *)
(* launched, stopped, killed and resumed, and what people do at the Human  *)
(* Gate.  People act through the HTTP threads of product_server.py, which  *)
(* share nothing but the files of the run, so a request may overtake       *)
(* another between two of its steps, and all of them die with the server.  *)
(*                                                                         *)
(* A worker is known by the number of its launch: it stands for its PID    *)
(* and for the token of the run lock it takes.  Only one worker gets the   *)
(* lock (RunLock); the threads of that one are those of SafeStop.          *)
(***************************************************************************)
EXTENDS SafeStop

CONSTANTS
  Users,        \* HTTP threads that serve a person's requests
  MaxLaunches   \* bound: workers launched for the task

ASSUME TaskAssumption == MaxLaunches \in Nat \ {0}

VARIABLES
  status,     \* the engine's state["status"]
  promotable, \* state["hold"]["promotable"]
  me,         \* the worker whose threads SafeStop describes, 0 before any
  lock,       \* the worker recorded in controller.lock, 0 when there is none
  launch,     \* worker_launch.json
  exit,       \* worker_exit.json
  ending,     \* workers that gave up the lock to the next and write their end later
  decision,   \* decision.json
  base,       \* continuation.json: was a follow-up task given a start?
  upc,        \* what each user's request is about to do
  found       \* the stale lock a RESUME means to retire, 0 for none

gateVars == <<status, promotable, decision, base>>
runVars  == <<me, lock, launch, exit, ending>>
userVars == <<upc, found>>
vars == <<stopVars, workerVars, gateVars, runVars, userVars>>

Workers == 0..MaxLaunches
Resuming == {"clear", "launch"}

TypeOK ==
  /\ SafeStopTypeOK
  /\ status \in {"RUNNING", "AWAITING_HUMAN", "HUMAN_APPROVED", "PROMOTED", "REJECTED"}
  /\ promotable \in BOOLEAN /\ base \in BOOLEAN
  /\ {me, lock, launch, exit} \subseteq Workers /\ ending \subseteq Workers
  /\ decision \in {"none", "ACCEPTED", "REJECTED"}
  /\ upc \in [Users -> {"idle", "promote", "accepted", "rejected", "checkpoint"} \cup Resuming]
  /\ found \in [Users -> Workers]

Init ==
  /\ SafeStopInit
  /\ status = "RUNNING" /\ promotable = FALSE
  /\ me = 0 /\ lock = 0 /\ launch = 0 /\ exit = 0 /\ ending = {}
  /\ decision = "none" /\ base = FALSE
  /\ upc = [u \in Users |-> "idle"]
  /\ found = [u \in Users |-> 0]

Alive(w) == w # 0 /\ w = me /\ pc # "off"
To(u, where) == upc' = [upc EXCEPT ![u] = where]

-----------------------------------------------------------------------------
(* Workers *)

\* start_task: the task is recorded and its first worker launched.
Start ==
  /\ launch = 0
  /\ me' = 1 /\ lock' = 1 /\ launch' = 1
  /\ pc' = "boundary"
  /\ UNCHANGED <<phase, calls, flight, process, token, watcher, stopVars, gateVars,
                 exit, ending, userVars>>

\* worker_alive: somebody holds the run, or the process of the last launch
\* has not recorded its end.
WorkerAlive == Alive(lock) \/ (launch # exit /\ Alive(launch))

\* resume_task looks: the run is at work on nothing, and a lock that is left
\* is a dead worker's; its token is handed to the new worker.
ResumeCheck(u) ==
  /\ upc[u] = "idle" /\ status = "RUNNING" /\ launch # 0
  /\ ~WorkerAlive
  /\ found' = [found EXCEPT ![u] = lock]
  /\ To(u, "clear")
  /\ UNCHANGED <<stopVars, workerVars, gateVars, runVars>>

\* clear_stop_request: the request goes into stop_history.
ClearStop(u) ==
  /\ upc[u] = "clear"
  /\ stop' = NoStop
  /\ To(u, "launch")
  /\ UNCHANGED <<stops, workerVars, gateVars, runVars, found>>

\* What resume makes of a run that is over, and of a call in flight: a read-only
\* one is taken up again; one with effects goes to a human, and the architect
\* too once it was started.
Reconciled ==
  \/ /\ status # "RUNNING"
     /\ pc' = "leaving"
     /\ UNCHANGED <<flight, status, promotable>>
  \/ /\ status = "RUNNING" /\ flight \in {"none", "read", "oneshot"}
     /\ flight' = "none" /\ pc' = "boundary"
     /\ UNCHANGED <<status, promotable>>
  \/ /\ status = "RUNNING" /\ flight \in {"effect", "oneshot"}
     /\ flight' = "none" /\ pc' = "leaving"
     /\ status' = "AWAITING_HUMAN" /\ promotable' = FALSE

\* The new worker: it retires the lock it was told of, takes the lock and
\* resumes with a token of its own, perhaps before the worker that released it
\* has written its end ...
Takes(u) ==
  /\ lock = found[u] /\ ~Alive(lock)
  /\ me' = launch + 1 /\ lock' = launch + 1
  /\ ending' = IF pc = "exiting" THEN ending \cup {me} ELSE ending
  /\ FreshToken
  /\ Reconciled
  /\ calls' = 0
  /\ UNCHANGED <<phase, exit>>

\* ... or finds the run in other hands and ends with WORKER_ERROR.
IsRefused(u) ==
  /\ lock # found[u] \/ Alive(lock)
  /\ exit' = launch + 1
  /\ UNCHANGED <<me, lock, ending, workerVars, status, promotable>>

ResumeLaunch(u) ==
  /\ upc[u] = "launch"
  /\ launch < MaxLaunches
  /\ launch' = launch + 1
  /\ Takes(u) \/ IsRefused(u)
  /\ To(u, "idle")
  /\ found' = [found EXCEPT ![u] = 0]
  /\ UNCHANGED <<stopVars, decision, base>>

-----------------------------------------------------------------------------
(* The worker's main thread, beyond SafeStop *)

\* A phase may end at the Human Gate: with a candidate, or escalated.
HoldForHuman(offered) ==
  /\ pc = "close"
  /\ flight' = "none" /\ pc' = "leaving"
  /\ status' = "AWAITING_HUMAN" /\ promotable' = offered
  /\ UNCHANGED <<phase, calls, process, token, watcher, stopVars, decision, base,
                 runVars, userVars>>

\* run releases the lock; worker_main then ends the watcher.
Leave ==
  /\ pc = "leaving"
  /\ lock' = IF lock = me THEN 0 ELSE lock
  /\ pc' = "exiting"
  /\ UNCHANGED <<phase, calls, flight, process, token, watcher, stopVars, gateVars,
                 me, launch, exit, ending, userVars>>

WriteExit ==
  /\ pc = "exiting"
  /\ exit' = me
  /\ pc' = "dying"
  /\ UNCHANGED <<phase, calls, flight, process, token, watcher, stopVars, gateVars,
                 me, lock, launch, ending, userVars>>

\* ... also when the next worker holds the run by then.
WriteExitLate(w) ==
  /\ w \in ending
  /\ exit' = w /\ ending' = ending \ {w}
  /\ UNCHANGED <<stopVars, workerVars, gateVars, me, lock, launch, userVars>>

Exit ==
  /\ pc = "dying"
  /\ pc' = "off"
  /\ UNCHANGED <<phase, calls, flight, process, token, watcher, stopVars, gateVars,
                 runVars, userVars>>

\* The worker is killed: files stay as they are, threads and token are gone.
\* A provider process it left behind is nobody's any more.
WorkerDies ==
  /\ pc # "off"
  /\ pc' = "off"
  /\ FreshToken
  /\ UNCHANGED <<phase, calls, flight, stopVars, gateVars, runVars, userVars>>

-----------------------------------------------------------------------------
(* People at the Human Gate *)

LockFree == lock = 0

\* accept, its first call: approve_promotion under the run lock.
Approve(u) ==
  /\ upc[u] = "idle"
  /\ status = "AWAITING_HUMAN" /\ promotable /\ LockFree
  /\ status' = "HUMAN_APPROVED"
  /\ To(u, "promote")
  /\ UNCHANGED <<stopVars, workerVars, promotable, decision, base, runVars, found>>

\* Mutant: decision.json is written between the two calls.
DecideEarly(u) ==
  /\ upc[u] = "promote"
  /\ decision' = "ACCEPTED"
  /\ To(u, "idle")
  /\ UNCHANGED <<stopVars, workerVars, status, promotable, base, runVars, found>>

\* accept, its second call: promote, again under the run lock.
Promote(u) ==
  /\ upc[u] = "promote"
  /\ IF status = "HUMAN_APPROVED"
     THEN status' = "PROMOTED" /\ To(u, "accepted")
     ELSE To(u, "idle") /\ UNCHANGED status
  /\ UNCHANGED <<stopVars, workerVars, promotable, decision, base, runVars, found>>

\* accept records its decision; prepare_continuation goes on to checkpoint.
RecordAccepted(u, continues) ==
  /\ upc[u] = "accepted"
  /\ decision' = "ACCEPTED"
  /\ To(u, IF continues THEN "checkpoint" ELSE "idle")
  /\ UNCHANGED <<stopVars, workerVars, status, promotable, base, runVars, found>>

\* reject, also for a candidate a follow-up task supersedes.
Reject(u) ==
  /\ upc[u] = "idle"
  /\ status = "AWAITING_HUMAN" /\ LockFree
  /\ status' = "REJECTED"
  /\ To(u, "rejected")
  /\ UNCHANGED <<stopVars, workerVars, promotable, decision, base, runVars, found>>

RecordRejected(u) ==
  /\ upc[u] = "rejected"
  /\ decision' = "REJECTED"
  /\ To(u, "idle")
  /\ UNCHANGED <<stopVars, workerVars, status, promotable, base, runVars, found>>

\* prepare_continuation of a task that was approved before, promoted or not.
Continue(u) ==
  /\ upc[u] = "idle"
  /\ status \in {"HUMAN_APPROVED", "PROMOTED"}
  /\ To(u, "checkpoint")
  /\ UNCHANGED <<stopVars, workerVars, gateVars, runVars, found>>

\* The worktree is committed if it is dirty, and continuation.json written.
Checkpoint(u) ==
  /\ upc[u] = "checkpoint"
  /\ base' = TRUE
  /\ To(u, "idle")
  /\ UNCHANGED <<stopVars, workerVars, status, promotable, decision, runVars, found>>

\* The product server ends; every request in progress ends with it.
ServerDies ==
  /\ upc' = [u \in Users |-> "idle"]
  /\ found' = [u \in Users |-> 0]
  /\ upc # upc'
  /\ UNCHANGED <<stopVars, workerVars, gateVars, runVars>>

-----------------------------------------------------------------------------
MainThread ==
  \/ /\ MainSteps \/ CallAgain \/ \E k \in Kinds \ {"oneshot"} : NextPhase(k)
     /\ UNCHANGED <<stopVars, gateVars, runVars, userVars>>
  \/ \E offered \in BOOLEAN : HoldForHuman(offered)
  \/ Leave \/ WriteExit \/ Exit

Watcher == WatcherSteps /\ UNCHANGED <<stopVars, gateVars, runVars, userVars>>

Provider == ChildExits /\ UNCHANGED <<stopVars, gateVars, runVars, userVars>>

Request_stop ==
  /\ launch # 0
  /\ \E force \in BOOLEAN : RequestStop(force)
  /\ UNCHANGED <<workerVars, gateVars, runVars, userVars>>

User(u) ==
  \/ ResumeCheck(u) \/ ClearStop(u) \/ ResumeLaunch(u)
  \/ Approve(u) \/ Promote(u) \/ Reject(u) \/ RecordRejected(u)
  \/ \E continues \in BOOLEAN : RecordAccepted(u, continues)
  \/ Continue(u) \/ Checkpoint(u)

Next ==
  \/ Start \/ MainThread \/ Watcher \/ Provider \/ WorkerDies \/ Request_stop
  \/ \E u \in Users : User(u)
  \/ \E w \in Workers : WriteExitLate(w)
  \/ ServerDies

Spec == Init /\ [][Next]_vars

\* The host runs both threads of a worker; nothing is assumed of providers
\* and of people.
FairSpec == Spec /\ WF_vars(MainThread) /\ WF_vars(Watcher)

-----------------------------------------------------------------------------
(* Each decision on file is one the engine has taken, and a follow-up task  *)
(* starts only from an approved candidate, whatever two people do at once   *)
(* and wherever the server dies (accept, reject, prepare_continuation).     *)
RecordsAreTrue ==
  /\ decision = "ACCEPTED" => status = "PROMOTED"
  /\ decision = "REJECTED" => status = "REJECTED"
  /\ base => status \in {"HUMAN_APPROVED", "PROMOTED"}

(* Every stop ends the worker.  FORCE does so by itself; SAFE may have to   *)
(* wait for a call it must not cut short, and for nothing else.             *)
Pending == stop # NoStop /\ pc \notin {"off", "exiting", "dying"}
WaitsForEffect == /\ pc = "wait" /\ child = "alive" /\ ~stop.force
                  /\ ~Interruptible(flight)
StopEnds == [](Pending => <>(~Pending \/ []WaitsForEffect))
=============================================================================
