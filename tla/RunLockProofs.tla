--------------------------- MODULE RunLockProofs ----------------------------
(***************************************************************************)
(* For any number of controllers and PIDs, the lock gives mutual exclusion *)
(* and implements RunOwnership, provided reconciles do not overlap and the *)
(* wall clock is not stepped.                                              *)
(***************************************************************************)
EXTENDS RunLock, TLAPS

\* A process keeps its PID to itself while it lives.
PidsSound ==
  /\ \A a \in Agents : Alive(a) => pid[a] \in Pids \ foreign
  /\ \A a, b \in Agents : Alive(a) /\ Alive(b) /\ pid[a] = pid[b] => a = b

\* A recorded agent holds the lock or has left without releasing it.
RecordSound ==
  lock # NoAgent => pc[lock] \in {"boundary", "phase", "releasing", "gone"}

\* Only one reconciler is between its verdict and its unlink.
OneRetirement == \A a, b \in Agents : pc[a] = "unlink" /\ pc[b] = "unlink" => a = b

\* A worker that reconciles was given the token of a lock.
ExpectedSound ==
  \A a \in Agents : pc[a] \in {"reconcile", "unlink"} => expected[a] \in Agents

IInv == /\ TypeOK
        /\ PidsSound
        /\ RecordSound
        /\ OneRetirement
        /\ ExpectedSound
        /\ OwnerOnDisk
        /\ RetiredIsGone

-----------------------------------------------------------------------------
\* The variables keep their types, whatever the two flags are.
THEOREM TypeCorrect == Spec => []TypeOK
<1> USE AgentAssumption, PidAssumption DEF TypeOK, PcValues
<1>1. Init => TypeOK
  BY DEF Init
<1>2. TypeOK /\ [Next]_vars => TypeOK'
  <2> SUFFICES ASSUME TypeOK, [Next]_vars PROVE TypeOK'
    OBVIOUS
  <2>1. ASSUME NEW a \in Agents, Step(a) PROVE TypeOK'
    BY <2>1 DEF Step, ReconcileInspect, ReconcileRefused, ReconcileUnlink, Acquire,
       BeginPhase, EndPhase, ReleaseCheck, ReleaseUnlink, Goto, Driving
  <2>2. CASE Environment
    BY <2>2 DEF Environment, Crash, Launch, LaunchReconciling, ForeignStart,
       ForeignExit, Goto, Alive
  <2>3. CASE UNCHANGED vars
    BY <2>3 DEF vars
  <2> QED BY <2>1, <2>2, <2>3 DEF Next
<1> QED BY <1>1, <1>2, PTL DEF Spec

\* An owner that is alive is never found stale, because its PID is its own and
\* its creation time does not move.
LEMMA LiveIsNeverStale ==
  ASSUME ~ClockCanStep, NEW o \in Agents, Alive(o)
  PROVE  ~MayBeFoundStale(o)
BY DEF MayBeFoundStale, Liveness, StaleVerdicts

-----------------------------------------------------------------------------
\* The inductive invariant.
LEMMA InductiveInit == Init => IInv
BY DEF Init, IInv, TypeOK, PcValues, PidsSound, RecordSound, OneRetirement,
   ExpectedSound, OwnerOnDisk, RetiredIsGone, Alive, Driving

LEMMA InductiveStep ==
  ASSUME ~OverlappingReconciles, ~ClockCanStep, IInv, [Next]_vars
  PROVE  IInv'
<1> USE AgentAssumption, PidAssumption
<1> USE DEF IInv, TypeOK, PcValues, PidsSound, RecordSound, OneRetirement,
        ExpectedSound, OwnerOnDisk, RetiredIsGone, Alive, Driving, Goto
<1>1. ASSUME NEW a \in Agents, ReconcileInspect(a) PROVE IInv'
  <2>1. lock \in Agents /\ ~Alive(lock)
    BY <1>1, LiveIsNeverStale DEF ReconcileInspect
  <2>2. pc[lock] = "gone"
    BY <2>1
  <2> QED BY <1>1, <2>1, <2>2 DEF ReconcileInspect
<1>2. ASSUME NEW a \in Agents, ReconcileRefused(a) PROVE IInv'
  BY <1>2 DEF ReconcileRefused
<1>3. ASSUME NEW a \in Agents, ReconcileUnlink(a) PROVE IInv'
  BY <1>3 DEF ReconcileUnlink
<1>4. ASSUME NEW a \in Agents, Acquire(a) PROVE IInv'
  BY <1>4 DEF Acquire
<1>5. ASSUME NEW a \in Agents, BeginPhase(a) PROVE IInv'
  BY <1>5 DEF BeginPhase
<1>6. ASSUME NEW a \in Agents, EndPhase(a) PROVE IInv'
  BY <1>6 DEF EndPhase
<1>7. ASSUME NEW a \in Agents, ReleaseCheck(a) PROVE IInv'
  BY <1>7 DEF ReleaseCheck
<1>8. ASSUME NEW a \in Agents, ReleaseUnlink(a) PROVE IInv'
  BY <1>8 DEF ReleaseUnlink
<1>9. ASSUME NEW a \in Agents, Crash(a) PROVE IInv'
  BY <1>9 DEF Crash
<1>10. ASSUME NEW a \in Agents, NEW p \in Pids, Launch(a, p) PROVE IInv'
  BY <1>10 DEF Launch, PidsInUse
<1>11. ASSUME NEW a \in Agents, NEW p \in Pids, LaunchReconciling(a, p) PROVE IInv'
  BY <1>11 DEF LaunchReconciling, PidsInUse
<1>12. ASSUME NEW p \in Pids, ForeignStart(p) \/ ForeignExit(p) PROVE IInv'
  BY <1>12 DEF ForeignStart, ForeignExit, PidsInUse
<1>13. CASE UNCHANGED vars
  BY <1>13 DEF vars
<1> QED
  BY <1>1, <1>2, <1>3, <1>4, <1>5, <1>6, <1>7, <1>8, <1>9, <1>10, <1>11, <1>12,
     <1>13 DEF Next, Step, Environment

LEMMA Invariance ==
  ASSUME ~OverlappingReconciles, ~ClockCanStep
  PROVE  Spec => []IInv
<1>1. IInv /\ [Next]_vars => IInv'
  BY InductiveStep
<1> QED BY InductiveInit, <1>1, PTL DEF Spec

-----------------------------------------------------------------------------
\* No two controllers ever drive the run.
THEOREM Exclusion ==
  ASSUME ~OverlappingReconciles, ~ClockCanStep
  PROVE  Spec => []MutualExclusion
<1>1. IInv => MutualExclusion
  BY DEF IInv, OwnerOnDisk, MutualExclusion
<1> QED BY Invariance, <1>1, PTL

\* What a driver believes about the lock is what the disk says.
THEOREM OwnerIsOnDisk ==
  ASSUME ~OverlappingReconciles, ~ClockCanStep
  PROVE  Spec => []OwnerOnDisk
<1>1. IInv => OwnerOnDisk
  BY DEF IInv
<1> QED BY Invariance, <1>1, PTL

\* The lock of a living owner is removed by nobody else.
THEOREM LiveLockIsKept ==
  ASSUME ~OverlappingReconciles, ~ClockCanStep
  PROVE  Spec => LiveLockKept
<1>1. ASSUME IInv, [Next]_vars, NEW a \in Agents, lock = a, Alive(a), lock' # a
      PROVE  pc[a] = "releasing"
  <2> USE AgentAssumption DEF IInv, TypeOK, OwnerOnDisk, RetiredIsGone, Alive, Driving
  <2>1. CASE \E b \in Agents : Step(b)
    BY <1>1, <2>1 DEF Step, ReconcileInspect, ReconcileRefused, ReconcileUnlink, Acquire,
       BeginPhase, EndPhase, ReleaseCheck, ReleaseUnlink
  <2>2. CASE Environment
    BY <1>1, <2>2 DEF Environment, Crash, Launch, LaunchReconciling, ForeignStart, ForeignExit
  <2>3. CASE UNCHANGED vars
    BY <1>1, <2>3 DEF vars
  <2> QED BY <1>1, <2>1, <2>2, <2>3 DEF Next
<1>2. IInv /\ [Next]_vars
      => [\A a \in Agents : lock = a /\ Alive(a) /\ lock' # a => pc[a] = "releasing"]_vars
  BY <1>1
<1> QED BY Invariance, <1>2, PTL DEF Spec, LiveLockKept

-----------------------------------------------------------------------------
\* The lock file implements the abstract ownership: it is taken only when
\* free, given up only by an owner that no longer drives, and retired only
\* from an owner that has left.
Drivers == {a \in Agents : Driving(a)}
Leavers == {a \in Agents : pc[a] = "gone"}

THEOREM RefinesOwnership ==
  ASSUME ~OverlappingReconciles, ~ClockCanStep
  PROVE  Spec => ImplementsOwnership
<1>1. Init => Ownership!Init
  BY DEF Init, Ownership!Init, Driving
<1>2. ASSUME IInv, [Next]_vars PROVE [Ownership!Next]_(Ownership!vars)
  <2> USE <1>2, AgentAssumption, PidAssumption
  <2> USE DEF IInv, TypeOK, PcValues, OwnerOnDisk, RetiredIsGone, Driving, Goto
  <2> DEFINE Stutter == UNCHANGED <<lock, Drivers, Leavers>>
  <2>0. Stutter => UNCHANGED Ownership!vars
    BY DEF Ownership!vars, Drivers, Leavers
  <2>1. ASSUME NEW a \in Agents, ReconcileInspect(a) PROVE Stutter
    BY <2>1 DEF ReconcileInspect, Drivers, Leavers
  <2>2. ASSUME NEW a \in Agents, ReconcileRefused(a) PROVE Ownership!Leave(a)
    BY <2>2 DEF ReconcileRefused, Ownership!Leave
  <2>3. ASSUME NEW a \in Agents, ReconcileUnlink(a) PROVE Ownership!Retire
    <3>1. lock \in Agents /\ lock = expected[a] /\ pc[lock] = "gone"
      BY <2>3 DEF ReconcileUnlink, ExpectedSound
    <3> QED BY <2>3, <3>1 DEF ReconcileUnlink, Ownership!Retire
  <2>4. ASSUME NEW a \in Agents, Acquire(a)
        PROVE  Ownership!Take(a) \/ Ownership!Leave(a)
    BY <2>4 DEF Acquire, Ownership!Take, Ownership!Leave
  <2>5. ASSUME NEW a \in Agents, BeginPhase(a) \/ EndPhase(a) PROVE Stutter
    BY <2>5 DEF BeginPhase, EndPhase, Drivers, Leavers
  <2>6. ASSUME NEW a \in Agents, ReleaseCheck(a) PROVE Ownership!Stop(a)
    BY <2>6 DEF ReleaseCheck, Ownership!Stop
  <2>7. ASSUME NEW a \in Agents, ReleaseUnlink(a) PROVE Ownership!Give(a)
    BY <2>7 DEF ReleaseUnlink, Ownership!Give
  <2>8. ASSUME NEW a \in Agents, Crash(a) PROVE Ownership!Leave(a)
    BY <2>8 DEF Crash, Alive, Ownership!Leave
  <2>9. ASSUME NEW a \in Agents, NEW p \in Pids, Launch(a, p) \/ LaunchReconciling(a, p)
        PROVE  Stutter
    BY <2>9 DEF Launch, LaunchReconciling, Drivers, Leavers
  <2>10. ASSUME NEW p \in Pids, ForeignStart(p) \/ ForeignExit(p) PROVE Stutter
    BY <2>10 DEF ForeignStart, ForeignExit, Drivers, Leavers
  <2>11. CASE UNCHANGED vars
    BY <2>11 DEF vars, Ownership!vars
  <2> QED
    BY <2>0, <2>1, <2>2, <2>3, <2>4, <2>5, <2>6, <2>7, <2>8, <2>9, <2>10, <2>11
       DEF Next, Step, Environment, Ownership!Next
<1>3. IInv /\ [Next]_vars => [Ownership!Next]_(Ownership!vars)
  BY <1>2
<1> QED BY <1>1, <1>3, Invariance, PTL DEF Spec, ImplementsOwnership, Ownership!Spec
=============================================================================
