------------------------- MODULE ProductTaskProofs --------------------------
(***************************************************************************)
(* Theorems about SafeStop and ProductTask, for every number of people,    *)
(* launches, stop requests and calls of a phase.                           *)
(***************************************************************************)
EXTENDS ProductTask, TLAPS

(* Where the main thread of a worker may be while it works on a phase, and  *)
(* while it still holds the run.                                            *)
InPhase == {"call", "gate", "spawn", "track", "wait", "landed", "close"}
AtWork == InPhase \cup {"boundary"}
Holding == AtWork \cup {"leaving"}

(* What stands before the first launch, and the calls of a phase: the next  *)
(* one is begun only below the bound.                                       *)
Unlaunched ==
  launch = 0 =>
    /\ pc = "off" /\ calls = 0 /\ flight = "none" /\ me = 0 /\ lock = 0 /\ exit = 0 /\ ending = {}
    /\ ~requested /\ watch = "poll" /\ child = "none" /\ status = "RUNNING"
    /\ \A u \in Users : upc[u] = "idle"
CallsBounded ==
  /\ pc = "boundary" => calls = 0
  /\ pc = "call" => calls < MaxCalls
\* The process and the call in flight belong to a place of the main thread.
ProcessInPlace ==
  /\ child # "none" => pc \in {"track", "wait"}
  /\ pc = "wait" => tracked
  /\ pc \in InPhase \ {"call"} => flight = phase
  /\ pc \in {"boundary", "call"} => flight = "none"
TypeInv == TypeOK /\ Unlaunched /\ CallsBounded /\ ProcessInPlace

-----------------------------------------------------------------------------
(* What the two threads of a worker know of each other.                     *)

\* A request goes through the pause before it may become a cancellation.
PauseFirst ==
  /\ watch \in {"look", "request", "kill"} => pause = order
  /\ pause = "force" => forced
  /\ requested => pause # "none"
  /\ watch = "kill" => doomed

\* A cancellation that is on its way, and that nobody forced, has met a phase
\* that may be cut short; the pause keeps the next phase from starting.
Cancelling == requested \/ watch \in {"request", "kill"}
CutsReadOnly == Cancelling /\ ~forced /\ pc \in InPhase => phase = "read"

ThreadsInv == PauseFirst /\ CutsReadOnly /\ SafeSparesEffects /\ NoProcessEscapes

-----------------------------------------------------------------------------
(* What the files of the run and the requests at work say of each other.    *)

\* A worker at work is the one the lock records, on a run nobody has decided.
HolderAtWork ==
  /\ pc \in Holding => lock = me /\ me # 0
  /\ pc \in AtWork => status = "RUNNING"

\* A RESUME between its look and its launch is one of a task that was started:
\* all that stays true, as another RESUME and people at the gate may overtake it.
ResumeOfALaunched ==
  \A u \in Users : upc[u] \in Resuming =>
    launch # 0

\* What each other request is about to record is what the engine has decided.
RequestsAreTrue ==
  \A u \in Users :
    /\ upc[u] = "accepted" => status = "PROMOTED"
    /\ upc[u] = "rejected" => status = "REJECTED"
    /\ upc[u] = "checkpoint" => status \in {"HUMAN_APPROVED", "PROMOTED"}

FilesInv == HolderAtWork /\ ResumeOfALaunched /\ RequestsAreTrue /\ RecordsAreTrue

-----------------------------------------------------------------------------
(* TYPES.  Every variable keeps its type, the calls of a phase stay within  *)
(* their bound and nothing moves before the first launch (ProductStopToken, *)
(* product_runs.start_task).                                                *)
Flags == /\ tracked \in BOOLEAN /\ requested \in BOOLEAN /\ doomed \in BOOLEAN
         /\ forced \in BOOLEAN /\ promotable \in BOOLEAN /\ base \in BOOLEAN

LEMMA TypeInvInit == Init => TypeInv
  <1> SUFFICES ASSUME Init PROVE TypeInv
    OBVIOUS
  <1> USE DEF Init, SafeStopInit
  <1>1. Flags
    BY DEF Flags
  <1> QED
    BY <1>1, StopAssumption, TaskAssumption
    DEF TypeInv, TypeOK, SafeStopTypeOK, Unlaunched, CallsBounded, ProcessInPlace, InPhase, NoStop, Kinds, Workers,
        Resuming, Flags

LEMMA TypeInvNext == TypeInv /\ [Next]_vars => TypeInv'
  <1> SUFFICES ASSUME TypeInv, [Next]_vars PROVE TypeInv'
    OBVIOUS
  <1> USE StopAssumption, TaskAssumption
      DEF TypeInv, TypeOK, SafeStopTypeOK, Unlaunched, CallsBounded, ProcessInPlace, InPhase, NoStop, Kinds, Workers,
          Resuming, Goto, To, workerVars, main, process, token, watcher, stopVars, gateVars,
          runVars, userVars
  <1> DEFINE OthersIdle == UNCHANGED <<stopVars, gateVars, runVars, userVars>>
  <1>1. ASSUME Start PROVE TypeInv'
    BY <1>1 DEF Start
  <1>2. ASSUME Boundary, OthersIdle PROVE TypeInv'
    BY <1>2 DEF Boundary, RaisesAtBoundary
  <1>3. ASSUME BeginCall, OthersIdle PROVE TypeInv'
    BY <1>3 DEF BeginCall
  <1>4. ASSUME Gate, OthersIdle PROVE TypeInv'
    BY <1>4 DEF Gate, RaisesBeforeSpawn, Interruptible
  <1>5. ASSUME Spawn, OthersIdle PROVE TypeInv'
    BY <1>5 DEF Spawn
  <1>6. ASSUME Track, OthersIdle PROVE TypeInv'
    <2>1. Flags'
      BY <1>6 DEF Track, Flags
    <2>2. flight \in Kinds
      BY <1>6 DEF Track
    <2>3. slain' \subseteq Kinds
      BY <1>6, <2>2 DEF Track
    <2> QED
      BY <1>6, <2>1, <2>3 DEF Track, Flags
  <1>7. ASSUME Reap, OthersIdle PROVE TypeInv'
    <2>1. Flags'
      BY <1>7 DEF Reap, Flags
    <2> QED
      BY <1>7, <2>1 DEF Reap, Flags
  <1>8. ASSUME Landed, OthersIdle PROVE TypeInv'
    BY <1>8 DEF Landed, RaisesElsewhere
  <1>9. ASSUME CallAgain, OthersIdle PROVE TypeInv'
    BY <1>9 DEF CallAgain
  <1>10. ASSUME NEW k \in Kinds \ {"oneshot"}, NextPhase(k), OthersIdle PROVE TypeInv'
    BY <1>10 DEF NextPhase
  <1>11. ASSUME NEW offered \in BOOLEAN, HoldForHuman(offered) PROVE TypeInv'
    BY <1>11 DEF HoldForHuman
  <1>12. ASSUME Leave PROVE TypeInv'
    BY <1>12 DEF Leave
  <1>13. ASSUME WriteExit PROVE TypeInv'
    BY <1>13 DEF WriteExit
  <1>14. ASSUME Exit PROVE TypeInv'
    BY <1>14 DEF Exit
  <1>15. ASSUME Poll, OthersIdle PROVE TypeInv'
    BY <1>15 DEF Poll, Watching
  <1>16. ASSUME SetPause, OthersIdle PROVE TypeInv'
    BY <1>16 DEF SetPause
  <1>17. ASSUME Look, OthersIdle PROVE TypeInv'
    BY <1>17 DEF Look, Interruptible
  <1>18. ASSUME Request, OthersIdle PROVE TypeInv'
    BY <1>18 DEF Request
  <1>19. ASSUME StopProcess, OthersIdle PROVE TypeInv'
    <2>1. Flags'
      BY <1>19 DEF StopProcess, Flags
    <2>2. child = "alive" => flight \in Kinds
      OBVIOUS
    <2>3. slain' \subseteq Kinds
      BY <1>19, <2>2 DEF StopProcess
    <2> QED
      BY <1>19, <2>1, <2>3 DEF StopProcess, Flags
  <1>20. ASSUME ChildExits, OthersIdle PROVE TypeInv'
    BY <1>20 DEF ChildExits
  <1>21. ASSUME WorkerDies PROVE TypeInv'
    <2>1. Flags'
      BY <1>21 DEF WorkerDies, FreshToken, Flags
    <2> QED
      BY <1>21, <2>1 DEF WorkerDies, FreshToken, Flags
  <1>22. ASSUME NEW force \in BOOLEAN, launch # 0, RequestStop(force), UNCHANGED <<workerVars, gateVars, runVars, userVars>> PROVE TypeInv'
    BY <1>22 DEF RequestStop
  <1>23. ASSUME NEW u \in Users, ResumeCheck(u) PROVE TypeInv'
    BY <1>23 DEF ResumeCheck, WorkerAlive
  <1>24. ASSUME NEW u \in Users, ClearStop(u) PROVE TypeInv'
    BY <1>24 DEF ClearStop
  <1>25. ASSUME NEW u \in Users, ResumeLaunch(u) PROVE TypeInv'
    <2>1. Flags'
      BY <1>25 DEF ResumeLaunch, Takes, IsRefused, FreshToken, Reconciled, Flags
    <2>2. CASE Takes(u)
      <3>1. ending' \subseteq Workers /\ me' \in Workers
        <4>1. me \in Workers /\ ending \subseteq Workers
          OBVIOUS
        <4>2. ending' \in {ending, ending \cup {me}}
          BY <2>2 DEF Takes
        <4>3. me' \in Workers
          BY <1>25, <2>2 DEF ResumeLaunch, Takes
        <4> QED
          BY <4>1, <4>2, <4>3
      <3>2. flight' \in Kinds \cup {"none"}
        BY <1>25, <2>2 DEF ResumeLaunch, Takes, Reconciled
      <3> QED
        BY <1>25, <2>1, <2>2, <3>1, <3>2 DEF ResumeLaunch, Takes, FreshToken, Reconciled, Flags
    <2>3. CASE IsRefused(u)
      BY <1>25, <2>1, <2>3 DEF ResumeLaunch, IsRefused, Flags
    <2> QED
      BY <1>25, <2>2, <2>3 DEF ResumeLaunch
  <1>26. ASSUME NEW u \in Users, Approve(u) PROVE TypeInv'
    BY <1>26 DEF Approve, LockFree
  <1>27. ASSUME NEW u \in Users, Promote(u) PROVE TypeInv'
    BY <1>27 DEF Promote
  <1>28. ASSUME NEW u \in Users, Reject(u) PROVE TypeInv'
    BY <1>28 DEF Reject, LockFree
  <1>29. ASSUME NEW u \in Users, RecordRejected(u) PROVE TypeInv'
    BY <1>29 DEF RecordRejected
  <1>30. ASSUME NEW u \in Users, Continue(u) PROVE TypeInv'
    BY <1>30 DEF Continue
  <1>31. ASSUME NEW u \in Users, Checkpoint(u) PROVE TypeInv'
    BY <1>31 DEF Checkpoint
  <1>32. ASSUME NEW u \in Users, NEW continues \in BOOLEAN, RecordAccepted(u, continues) PROVE TypeInv'
    BY <1>32 DEF RecordAccepted
  <1>33. ASSUME ServerDies PROVE TypeInv'
    BY <1>33 DEF ServerDies
  <1>34. CASE UNCHANGED vars
    BY <1>34 DEF vars
  <1>35. ASSUME NEW w \in Workers, WriteExitLate(w) PROVE TypeInv'
    BY <1>35 DEF WriteExitLate
  <1> QED
    BY <1>1, <1>2, <1>3, <1>4, <1>5, <1>6, <1>7, <1>8, <1>9, <1>10, <1>11, <1>12, <1>13,
      <1>14, <1>15, <1>16, <1>17, <1>18, <1>19, <1>20, <1>21, <1>22, <1>23, <1>24,
      <1>25, <1>26, <1>27, <1>28, <1>29, <1>30, <1>31, <1>32, <1>33, <1>34, <1>35 DEF Next, MainThread, MainSteps, Watcher, WatcherSteps, Provider, Request_stop, User

(* Every state of the specification is of its type. *)
THEOREM TypeCorrect == Spec => []TypeOK
  <1>1. Spec => []TypeInv
    BY TypeInvInit, TypeInvNext, PTL DEF Spec
  <1> QED
    BY <1>1, PTL DEF TypeInv

-----------------------------------------------------------------------------
(* THE TWO THREADS.  Nothing a person or another process does touches them. *)
LEMMA PeopleLeaveWorkers ==
  ASSUME NEW u \in Users, User(u)
  PROVE  UNCHANGED workerVars \/ Takes(u)
  BY DEF User, ResumeCheck, ClearStop, ResumeLaunch, IsRefused, Approve, Promote, Reject,
         RecordRejected, RecordAccepted, Continue, Checkpoint

LEMMA ThreadsInvInit == Init => ThreadsInv
  BY DEF Init, SafeStopInit, ThreadsInv, PauseFirst, CutsReadOnly, Cancelling, InPhase,
         SafeSparesEffects, NoProcessEscapes

LEMMA ThreadsInvNext == TypeInv /\ ThreadsInv /\ [Next]_vars => ThreadsInv'
  <1> SUFFICES ASSUME TypeInv, ThreadsInv, [Next]_vars PROVE ThreadsInv'
    OBVIOUS
  <1>t. Unlaunched /\ ProcessInPlace
    BY DEF TypeInv
  <1>o. order \in {"safe", "force"}
    BY DEF TypeInv, TypeOK, SafeStopTypeOK
  <1> USE <1>t, <1>o
      DEF ThreadsInv, PauseFirst, CutsReadOnly, Cancelling, InPhase, ProcessInPlace,
          SafeSparesEffects, NoProcessEscapes, Goto, main, process, token, watcher
  <1>1. ASSUME Start PROVE ThreadsInv'
    BY <1>1 DEF Start, Unlaunched
  <1>2. ASSUME Boundary PROVE ThreadsInv'
    BY <1>2 DEF Boundary, RaisesAtBoundary
  <1>3. ASSUME BeginCall PROVE ThreadsInv'
    BY <1>3 DEF BeginCall
  <1>4. ASSUME Gate PROVE ThreadsInv'
    BY <1>4 DEF Gate
  <1>5. ASSUME Spawn PROVE ThreadsInv'
    BY <1>5 DEF Spawn
  <1>6. ASSUME Track PROVE ThreadsInv'
    BY <1>6 DEF Track
  <1>7. ASSUME Reap PROVE ThreadsInv'
    BY <1>7 DEF Reap
  <1>8. ASSUME Landed PROVE ThreadsInv'
    BY <1>8 DEF Landed
  <1>9. ASSUME CallAgain PROVE ThreadsInv'
    BY <1>9 DEF CallAgain
  <1>10. ASSUME NEW k, NextPhase(k) PROVE ThreadsInv'
    BY <1>10 DEF NextPhase
  <1>11. ASSUME NEW offered, HoldForHuman(offered) PROVE ThreadsInv'
    BY <1>11 DEF HoldForHuman
  <1>12. ASSUME Leave PROVE ThreadsInv'
    BY <1>12 DEF Leave
  <1>13. ASSUME WriteExit PROVE ThreadsInv'
    BY <1>13 DEF WriteExit
  <1>14. ASSUME Exit PROVE ThreadsInv'
    BY <1>14 DEF Exit
  <1>15. ASSUME Poll PROVE ThreadsInv'
    BY <1>15 DEF Poll
  <1>16. ASSUME SetPause PROVE ThreadsInv'
    BY <1>16 DEF SetPause
  <1>17. ASSUME Look PROVE ThreadsInv'
    BY <1>17 DEF Look, Interruptible
  <1>18. ASSUME Request PROVE ThreadsInv'
    BY <1>18 DEF Request
  <1>19. ASSUME StopProcess PROVE ThreadsInv'
    BY <1>19 DEF StopProcess
  <1>20. ASSUME ChildExits PROVE ThreadsInv'
    BY <1>20 DEF ChildExits
  <1>21. ASSUME WorkerDies PROVE ThreadsInv'
    BY <1>21 DEF WorkerDies, FreshToken
  <1>22. ASSUME NEW u \in Users, Takes(u) PROVE ThreadsInv'
    BY <1>22 DEF Takes, FreshToken, Reconciled
  <1>23. ASSUME UNCHANGED workerVars PROVE ThreadsInv'
    BY <1>23 DEF workerVars
  <1> HIDE DEF ThreadsInv
  <1> QED
    BY <1>1, <1>2, <1>3, <1>4, <1>5, <1>6, <1>7, <1>8, <1>9, <1>10, <1>11, <1>12, <1>13, <1>14, <1>15, <1>16, <1>17, <1>18, <1>19, <1>20, <1>21, <1>22, <1>23,
       PeopleLeaveWorkers
    DEF Next, vars, MainThread, MainSteps, Watcher, WatcherSteps, Provider, Request_stop,
        WriteExitLate, ServerDies

LEMMA ThreadsInvariant == Spec => [](TypeInv /\ ThreadsInv)
  <1> QED
    BY TypeInvInit, TypeInvNext, ThreadsInvInit, ThreadsInvNext, PTL DEF Spec

(* SAFE never ends a process of EXECUTE, REPAIR or the one-shot architect,  *)
(* whenever the watcher reads state["in_flight"]: the pause it sets first   *)
(* keeps the phase it has seen the last one (ProductStopToken.request_stop, *)
(* CancellationToken.request).                                              *)
THEOREM SafeSparesEffectsHolds == Spec => []SafeSparesEffects
  <1>1. ThreadsInv => SafeSparesEffects
    BY DEF ThreadsInv
  <1> QED
    BY <1>1, ThreadsInvariant, PTL

(* No worker waits for a process that a cancellation missed: the flag and   *)
(* the set of processes are read in the order that lets one of the two      *)
(* threads see the other (CancellationToken.register, request).             *)
THEOREM NoProcessEscapesHolds == Spec => []NoProcessEscapes
  <1>1. ThreadsInv => NoProcessEscapes
    BY DEF ThreadsInv
  <1> QED
    BY <1>1, ThreadsInvariant, PTL

-----------------------------------------------------------------------------
(* THE FILES OF A RUN.                                                      *)
LEMMA FilesInvInit == Init => FilesInv
  BY DEF Init, SafeStopInit, FilesInv, HolderAtWork, Holding, AtWork, InPhase,
         ResumeOfALaunched, Resuming, RequestsAreTrue, RecordsAreTrue

LEMMA FilesInvNext ==
  ASSUME TypeInv, FilesInv, [Next]_vars
  PROVE  FilesInv'
  <1>t. /\ Unlaunched /\ launch \in Nat
        /\ upc \in [Users -> {"idle", "promote", "accepted", "rejected", "checkpoint"}
                              \cup Resuming]
    BY TaskAssumption DEF TypeInv, TypeOK, Workers
  <1> USE <1>t
      DEF FilesInv, HolderAtWork, Holding, AtWork, InPhase, ResumeOfALaunched, Resuming,
          RequestsAreTrue, RecordsAreTrue, Alive, Goto, To, main, gateVars, runVars,
          userVars, workerVars
  <1> DEFINE FilesIdle == UNCHANGED <<gateVars, runVars, userVars>>
  <1>1. ASSUME Start PROVE FilesInv'
    BY <1>1 DEF Start, Unlaunched
  <1>2. ASSUME MainSteps \/ CallAgain \/ \E k \in Kinds : NextPhase(k), FilesIdle
        PROVE FilesInv'
    BY <1>2 DEF MainSteps, Boundary, BeginCall, Gate, Spawn, Track, Reap, Landed, CallAgain,
                NextPhase
  <1>3. ASSUME NEW offered, HoldForHuman(offered) PROVE FilesInv'
    BY <1>3 DEF HoldForHuman
  <1>4. ASSUME Leave PROVE FilesInv'
    BY <1>4 DEF Leave
  <1>5. ASSUME WriteExit \/ Exit PROVE FilesInv'
    BY <1>5 DEF WriteExit, Exit
  <1>6. ASSUME WorkerDies PROVE FilesInv'
    BY <1>6 DEF WorkerDies
  <1>7. ASSUME UNCHANGED main, FilesIdle PROVE FilesInv'
    BY <1>7
  <1>8. ASSUME NEW u \in Users, ResumeCheck(u) PROVE FilesInv'
    BY <1>8 DEF ResumeCheck, WorkerAlive
  <1>9. ASSUME NEW u \in Users, ClearStop(u) PROVE FilesInv'
    BY <1>9 DEF ClearStop
  <1>10. ASSUME NEW u \in Users, ResumeLaunch(u) PROVE FilesInv'
    <2>1. CASE Takes(u)
      BY <1>10, <2>1 DEF ResumeLaunch, Takes, Reconciled
    <2>2. CASE IsRefused(u)
      BY <1>10, <2>2 DEF ResumeLaunch, IsRefused
    <2> QED
      BY <1>10, <2>1, <2>2 DEF ResumeLaunch
  <1>11. ASSUME NEW u \in Users, Approve(u) PROVE FilesInv'
    BY <1>11 DEF Approve
  <1>12. ASSUME NEW u \in Users, Promote(u) PROVE FilesInv'
    BY <1>12 DEF Promote
  <1>13. ASSUME NEW u \in Users, NEW continues \in BOOLEAN, RecordAccepted(u, continues)
         PROVE FilesInv'
    BY <1>13 DEF RecordAccepted
  <1>14. ASSUME NEW u \in Users, Reject(u) PROVE FilesInv'
    BY <1>14 DEF Reject
  <1>15. ASSUME NEW u \in Users, RecordRejected(u) PROVE FilesInv'
    BY <1>15 DEF RecordRejected
  <1>16. ASSUME NEW u \in Users, Continue(u) PROVE FilesInv'
    BY <1>16 DEF Continue
  <1>17. ASSUME NEW u \in Users, Checkpoint(u) PROVE FilesInv'
    BY <1>17 DEF Checkpoint
  <1>18. ASSUME ServerDies PROVE FilesInv'
    BY <1>18 DEF ServerDies
  <1>20. ASSUME NEW w \in Workers, WriteExitLate(w) PROVE FilesInv'
    BY <1>20 DEF WriteExitLate
  <1>19. ASSUME Watcher \/ Provider \/ Request_stop \/ UNCHANGED vars PROVE FilesInv'
    BY <1>7, <1>19
    DEF Watcher, WatcherSteps, Poll, SetPause, Look, Request, StopProcess, Provider,
        ChildExits, Request_stop, vars
  <1> HIDE DEF FilesInv
  <1> QED
    BY <1>1, <1>2, <1>3, <1>4, <1>5, <1>6, <1>8, <1>9, <1>10, <1>11, <1>12, <1>13, <1>14,
       <1>15, <1>16, <1>17, <1>18, <1>19, <1>20
    DEF Next, MainThread, User, vars

LEMMA FilesInvariant == Spec => [](TypeInv /\ FilesInv)
  <1>1. TypeInv /\ FilesInv /\ [Next]_vars => (TypeInv /\ FilesInv)'
    BY TypeInvNext, FilesInvNext
  <1> QED
    BY <1>1, TypeInvInit, FilesInvInit, PTL DEF Spec

(* A decision on file is the engine's: ACCEPTED only of a promoted run,     *)
(* REJECTED only of a rejected one, and a follow-up task is only started    *)
(* from an approved candidate, whatever people do at once and wherever the  *)
(* server dies (accept, reject, prepare_continuation).                      *)
THEOREM RecordsAreTrueHolds == Spec => []RecordsAreTrue
  <1>1. FilesInv => RecordsAreTrue
    BY DEF FilesInv
  <1> QED
    BY <1>1, FilesInvariant, PTL
=============================================================================
