---------------------- MODULE ExecutionProtocolProofs -----------------------
(***************************************************************************)
(* Theorems about ExecutionProtocol, for every row of phases, every set of *)
(* profiles and every bound.                                               *)
(***************************************************************************)
EXTENDS ExecutionProtocol, TLAPS

\* The program counters of a controller that has an execution in its hands.
Holding == {"intent", "spawn", "spawned", "running", "closing", "record", "failed"}

\* A working controller drives a running run, inside one of its calls.
Working ==
  /\ pc # "down" => status = "RUNNING"
  /\ status = "RUNNING" => phase \in Phases
  /\ pc \notin {"down", "boundary"} => call \in DOMAIN Calls[phase]

\* The in-flight marker names the last execution allocated, for this call.
Current ==
  /\ flight <= last
  /\ spawned \subseteq 1..last
  /\ pc \in Holding => /\ flight = last /\ flight # NoExec
                       /\ descr[flight].phase = phase
                       /\ descr[flight].name = Name
                       /\ profile \in Profiles
  /\ pc \in {"intent", "spawn"} => flight \notin spawned
  /\ pc = "failed" => flight \notin alive

\* Descriptors name calls of the phases reached so far.
Described ==
  \A d \in 1..last :
    /\ descr[d].phase \in Phases
    /\ descr[d].phase <= phase
    /\ \E i \in DOMAIN Calls[descr[d].phase] : Calls[descr[d].phase][i] = descr[d].name

\* At a phase boundary nothing is in flight, and between two calls of a phase
\* no implementer is.
Between ==
  /\ pc = "boundary" => flight = NoExec
  /\ pc \in {"call", "dispatch"} /\ flight # NoExec
       => descr[flight].name \notin EffectNames
  /\ pc = "result" /\ call < Len(Calls[phase]) /\ flight # NoExec
       => descr[flight].name \notin EffectNames

\* In a run that can go on, every implementer of the current phase is the one
\* in flight, or is over without an effect.
Settled ==
  status = "RUNNING" =>
    \A d \in 1..last :
      (IsEffect(d) /\ descr[d].phase = phase) => d = flight \/ (d \notin touched /\ d \notin alive)

IInv == TypeOK /\ Working /\ Current /\ Described /\ Between /\ Settled /\ EffectsOnce

\* What keeps a completed result within reach of resume.
Reach ==
  /\ completed \subseteq 1..last
  /\ \A e \in Execs : e > last => listed[e] = 0
  /\ pc \in Holding => listed[flight] = 0
  /\ pc \in {"boundary", "call", "dispatch", "result"} /\ flight # NoExec => listed[flight] = 1
  /\ pc \in {"intent", "spawn", "spawned", "running", "failed"} => flight \notin completed
  /\ flight \in completed => artifact
  /\ pc \in {"closing", "record"} => artifact
  /\ \A e \in 1..last : e # flight /\ status # "AWAITING_HUMAN" /\ e \in completed => listed[e] = 1
  /\ \A e \in Execs : listed[e] <= 1

\* What keeps the retry links a chain: the execution in flight, and the one
\* the next allocation will name, have not been retried before.
Fresh ==
  /\ \A d \in 1..last : descr[d].retryOf < last
  /\ \A d \in 1..last : descr[d].retryOf # NoExec => descr[d].retryOf # flight
  /\ retryOf # NoExec => /\ flight = NoExec
                         /\ retryOf <= last
                         /\ \A d \in 1..last : descr[d].retryOf # retryOf
  /\ RetriedOnce

-----------------------------------------------------------------------------
\* The row of phases, in the terms the proofs use.
LEMMA CallsFacts ==
  /\ Len(Calls) \in Nat /\ Phases = 1..Len(Calls) /\ 1 \in Phases
  /\ \A p \in Phases : /\ Len(Calls[p]) \in Nat \ {0}
                        /\ DOMAIN Calls[p] = 1..Len(Calls[p])
                        /\ \A i \in DOMAIN Calls[p] :
                             /\ Calls[p][i] \in Names
                             /\ Calls[p][i] \in EffectNames => i = Len(Calls[p])
  BY CallsAssumption, EffectLastAssumption DEF Phases

\* Only an allocation and the end of a phase touch what Described is about.
LEMMA DescribedStep ==
  ASSUME IInv, [Next]_vars
  PROVE  Described'
<1>1. CASE Allocate
  <2> SUFFICES ASSUME NEW d \in 1..(last + 1)
               PROVE  /\ descr'[d].phase \in Phases
                      /\ descr'[d].phase <= phase
                      /\ \E i \in DOMAIN Calls[descr'[d].phase] :
                           Calls[descr'[d].phase][i] = descr'[d].name
    BY <1>1 DEF Allocate, Described
  <2> last \in Nat /\ last + 1 \in Execs /\ DOMAIN descr = Execs
    BY <1>1, BoundAssumption DEF IInv, TypeOK, Allocate, Execs
  <2>1. CASE d = last + 1
    <3>1. descr'[d] = [phase |-> phase, name |-> Name, retryOf |-> retryOf]
      BY <1>1, <2>1 DEF Allocate
    <3>2. phase \in Phases /\ call \in DOMAIN Calls[phase] /\ Calls[phase][call] = Name
      BY <1>1 DEF IInv, Working, Allocate, Name
    <3> QED
      BY <3>1, <3>2, CallsFacts
  <2>2. CASE d # last + 1
    <3>1. descr'[d] = descr[d] /\ d \in 1..last
      BY <1>1, <2>2 DEF Allocate
    <3> QED
      BY <3>1 DEF IInv, Described
  <2> QED
    BY <2>1, <2>2
<1>2. CASE EndPhase
  <2>1. /\ phase \in Phases /\ phase' = phase + 1
        /\ last' = last /\ descr' = descr
    BY <1>2 DEF EndPhase, IInv, Working
  <2> QED
    BY <2>1, CallsFacts DEF IInv, Described
<1>3. CASE ~Allocate /\ ~EndPhase
  <2>1. UNCHANGED <<phase, last, descr>>
    BY <1>3 DEF Next, Step, Resume, BeginPhase, HandlerEscalates, Route, RouteEscalates,
      TakeRecovered, Unavailable, NoneAvailable, RecordIntent, IntentRefused, Spawn,
      ObserveStart, WriteArtifact, CloseExecution, RecordExecutionRef, ResultUnusable, NextCall,
      ExecutorFails, Retry, Failover, FailureEscalates, ResumeClean, ResumeEscalates,
      ReconcileEscalates, ReconcileAdopts, ReconcileReplays, Crash, Pause, Cancel, Forget,
      Escalate, TouchWorktree, OrphanEnds, durable, vars
  <2> QED
    BY <2>1 DEF IInv, Described
<1> QED
  BY <1>1, <1>2, <1>3

\* Every action keeps the invariant; a step for each action of Next.
LEMMA InductiveStep ==
  ASSUME IInv, [Next]_vars
  PROVE  IInv'
<1> USE CallsFacts, BoundAssumption
<1> USE DEF IInv, TypeOK, Working, Current, Between, Settled, EffectsOnce, IsEffect, Holding,
            Descriptors, NoDescr, PcValues, Execs, NoExec, Names, EffectNames, ReadNames,
            ReviewNames, Name, durable, process, world, vars
<1>0. Described'
  BY DescribedStep
<1>1. CASE BeginPhase
  <2> USE <1>1 DEF BeginPhase
  <2>1. TypeOK'
    BY SMTT(30)
  <2>2. Working'
    BY SMTT(30)
  <2>3. Current'
    BY SMTT(30)
  <2>4. Between'
    BY SMTT(30)
  <2>5. Settled'
    BY SMTT(30) DEF Described
  <2>6. EffectsOnce'
    BY SMTT(30)
  <2> QED
    BY <1>0, <2>1, <2>2, <2>3, <2>4, <2>5, <2>6
<1>2. CASE HandlerEscalates
  BY <1>0, <1>2, SMTT(40) DEF HandlerEscalates, Escalate
<1>3. CASE Route
  BY <1>0, <1>3, SMTT(40) DEF Route
<1>4. CASE RouteEscalates
  BY <1>0, <1>4, SMTT(40) DEF RouteEscalates, Escalate
<1>5. CASE TakeRecovered
  BY <1>0, <1>5, SMTT(40) DEF TakeRecovered
<1>6. CASE Allocate
  <2> USE <1>6 DEF Allocate
  <2>1. TypeOK'
    <3>1. [phase |-> phase, name |-> Name, retryOf |-> retryOf] \in Descriptors
      BY SMTT(30)
    <3>2. descr' \in [Execs -> Descriptors \cup {NoDescr}]
      <4> HIDE DEF Descriptors, NoDescr, Name
      <4> QED
        BY <3>1
    <3>3. last + 1 \in Execs /\ profile' \in Profiles /\ ranked' \subseteq Profiles
      BY SMTT(30)
    <3>4. started' \in BOOLEAN /\ artifact' \in BOOLEAN /\ pc' \in PcValues
      BY Zenon
    <3>5. flight' \in Execs \cup {NoExec} /\ retryOf' \in Execs \cup {NoExec}
          /\ last' \in 0..MaxExecs
      BY SMTT(30)
    <3>6. UNCHANGED <<phase, status, listed, completed, call, recovered, spawned, alive,
                      touched, stops>>
      OBVIOUS
    <3> HIDE DEF Descriptors, NoDescr, Name, PcValues, Allocate, Execs, NoExec
    <3> QED
      BY <3>2, <3>3, <3>4, <3>5, <3>6
  <2>2. Working'
    BY SMTT(30)
  <2>3. Current'
    BY SMTT(30)
  <2>4. Between'
    BY SMTT(30)
  <2>5. Settled'
    BY SMTT(30) DEF Described
  <2>6. EffectsOnce'
    BY SMTT(30)
  <2> QED
    BY <1>0, <2>1, <2>2, <2>3, <2>4, <2>5, <2>6
<1>7. CASE Unavailable
  BY <1>0, <1>7, SMTT(40) DEF Unavailable
<1>8. CASE NoneAvailable
  BY <1>0, <1>8, SMTT(40) DEF NoneAvailable, Escalate
<1>9. CASE RecordIntent
  BY <1>0, <1>9, SMTT(40) DEF RecordIntent
<1>10. CASE IntentRefused
  BY <1>0, <1>10, SMTT(40) DEF IntentRefused, Escalate
<1>11. CASE Spawn
  BY <1>0, <1>11, SMTT(40) DEF Spawn
<1>12. CASE ObserveStart
  BY <1>0, <1>12, SMTT(40) DEF ObserveStart
<1>13. CASE WriteArtifact
  BY <1>0, <1>13, SMTT(40) DEF WriteArtifact
<1>14. CASE CloseExecution
  BY <1>0, <1>14, SMTT(40) DEF CloseExecution
<1>15. CASE RecordExecutionRef
  BY <1>0, <1>15, SMTT(40) DEF RecordExecutionRef, ListFlight
<1>16. CASE ResultUnusable
  BY <1>0, <1>16, SMTT(40) DEF ResultUnusable, Escalate, ListFlight
<1>17. CASE NextCall
  BY <1>0, <1>17, SMTT(40) DEF NextCall
<1>18. CASE EndPhase
  <2> USE <1>18 DEF EndPhase
  <2>1. TypeOK'
    BY SMTT(30)
  <2>2. Working'
    BY SMTT(30)
  <2>3. Current'
    BY SMTT(30)
  <2>4. Between'
    BY SMTT(30)
  <2>5. Settled'
    BY SMTT(30) DEF Described
  <2>6. EffectsOnce'
    BY SMTT(30)
  <2> QED
    BY <1>0, <2>1, <2>2, <2>3, <2>4, <2>5, <2>6
<1>19. CASE ExecutorFails
  BY <1>0, <1>19, SMTT(40) DEF ExecutorFails
<1>20. CASE Retry
  BY <1>0, <1>20, SMTT(40) DEF Retry, Retryable, ListFlight
<1>21. CASE Failover
  <2> USE <1>21 DEF Failover, FailoverSafe, ListFlight
  <2>1. TypeOK'
    <3>1. listed' \in [Execs -> Nat]
      BY SMTT(30)
    <3> HIDE DEF ListFlight, Descriptors, NoDescr, Name
    <3> QED
      BY <3>1, SMTT(30)
  <2>2. Working'
    BY SMTT(30)
  <2>3. Current'
    BY SMTT(30)
  <2>4. Between'
    BY SMTT(30)
  <2>5. Settled'
    BY SMTT(30) DEF Described
  <2>6. EffectsOnce'
    BY SMTT(30)
  <2> QED
    BY <1>0, <2>1, <2>2, <2>3, <2>4, <2>5, <2>6
<1>22. CASE FailureEscalates
  <2> USE <1>22 DEF FailureEscalates, Escalate, ListFlight
  <2>1. TypeOK'
    <3>1. listed' \in [Execs -> Nat]
      BY SMTT(30)
    <3> HIDE DEF ListFlight, Descriptors, NoDescr, Name
    <3> QED
      BY <3>1, SMTT(30)
  <2>2. Working' /\ Current'
    BY SMTT(30)
  <2>3. Between' /\ Settled'
    BY SMTT(30) DEF Described
  <2>4. EffectsOnce'
    BY SMTT(30)
  <2> QED
    BY <1>0, <2>1, <2>2, <2>3, <2>4
<1>23. CASE ResumeClean
  BY <1>0, <1>23, SMTT(40) DEF ResumeClean
<1>24. CASE ResumeEscalates
  BY <1>0, <1>24, SMTT(40) DEF ResumeEscalates, Escalate
<1>25. CASE ReconcileEscalates
  BY <1>0, <1>25, SMTT(40) DEF ReconcileEscalates, Escalate, Reconciling
<1>26. CASE ReconcileAdopts
  <2> USE <1>26 DEF ReconcileAdopts, Reconciling, HasEffects, ResultOnRecord
  <2>1. TypeOK'
    BY SMTT(30)
  <2>2. Working'
    BY SMTT(30)
  <2>3. Current'
    BY SMTT(30)
  <2>4. Between'
    BY SMTT(30)
  <2>5. Settled'
    BY SMTT(30) DEF Described
  <2>6. EffectsOnce'
    BY SMTT(30)
  <2> QED
    BY <1>0, <2>1, <2>2, <2>3, <2>4, <2>5, <2>6
<1>27. CASE ReconcileReplays
  BY <1>0, <1>27, SMTT(40) DEF ReconcileReplays, Reconciling, HasEffects, Described
<1>28. CASE Crash
  BY <1>0, <1>28, SMTT(40) DEF Crash, Forget
<1>29. CASE Pause
  BY <1>0, <1>29, SMTT(40) DEF Pause, Forget
<1>30. CASE Cancel
  BY <1>0, <1>30, SMTT(40) DEF Cancel, Forget
<1>31. CASE TouchWorktree
  BY <1>0, <1>31, SMTT(40) DEF TouchWorktree
<1>32. CASE OrphanEnds
  BY <1>0, <1>32, SMTT(40) DEF OrphanEnds
<1>33. CASE UNCHANGED vars
  BY <1>0, <1>33, SMTT(40)
<1> QED
  BY <1>1, <1>2, <1>3, <1>4, <1>5, <1>6, <1>7, <1>8, <1>9, <1>10, <1>11, <1>12, <1>13, <1>14, <1>15, <1>16, <1>17, <1>18, <1>19, <1>20, <1>21, <1>22, <1>23, <1>24, <1>25, <1>26, <1>27, <1>28, <1>29, <1>30, <1>31, <1>32, <1>33 DEF Next, Step, Resume

\* Every action keeps completed results within reach of resume.
LEMMA ReachStep ==
  ASSUME IInv, Reach, [Next]_vars
  PROVE  Reach'
<1> USE DEF IInv, TypeOK, Working, Current, Reach, Holding, Execs, NoExec,
            durable, process, world, vars
<1>1. CASE BeginPhase
  BY <1>1, SMTT(40) DEF BeginPhase
<1>2. CASE HandlerEscalates
  BY <1>2, SMTT(40) DEF HandlerEscalates, Escalate
<1>3. CASE Route
  BY <1>3, SMTT(40) DEF Route
<1>4. CASE RouteEscalates
  BY <1>4, SMTT(40) DEF RouteEscalates, Escalate
<1>5. CASE TakeRecovered
  BY <1>5, SMTT(40) DEF TakeRecovered
<1>6. CASE Allocate
  <2>1. /\ last \in Nat /\ last' = last + 1 /\ last + 1 \in Execs
        /\ flight' = last + 1 /\ flight \in 0..last /\ pc = "dispatch" /\ pc' = "intent"
        /\ UNCHANGED <<listed, completed, status>>
    BY <1>6, BoundAssumption DEF Allocate
  <2>2. last + 1 \notin completed /\ listed[last + 1] = 0
    BY <2>1
  <2>3. \A e \in 1..last : status # "AWAITING_HUMAN" /\ e \in completed => listed[e] = 1
    BY <2>1
  <2>4. \A e \in Execs : listed[e] <= 1 /\ (e > last => listed[e] = 0)
    OBVIOUS
  <2>5. completed \subseteq 1..last
    OBVIOUS
  <2> HIDE DEF IInv, TypeOK, Working, Current, Reach
  <2> QED
    BY <2>1, <2>2, <2>3, <2>4, <2>5, BoundAssumption DEF Reach
<1>7. CASE Unavailable
  BY <1>7, SMTT(40) DEF Unavailable
<1>8. CASE NoneAvailable
  BY <1>8, SMTT(40) DEF NoneAvailable, Escalate
<1>9. CASE RecordIntent
  BY <1>9, SMTT(40) DEF RecordIntent
<1>10. CASE IntentRefused
  BY <1>10, SMTT(40) DEF IntentRefused, Escalate
<1>11. CASE Spawn
  BY <1>11, SMTT(40) DEF Spawn
<1>12. CASE ObserveStart
  BY <1>12, SMTT(40) DEF ObserveStart
<1>13. CASE WriteArtifact
  BY <1>13, SMTT(40) DEF WriteArtifact
<1>14. CASE CloseExecution
  BY <1>14, SMTT(40) DEF CloseExecution
<1>15. CASE RecordExecutionRef
  BY <1>15, SMTT(40) DEF RecordExecutionRef, ListFlight
<1>16. CASE ResultUnusable
  BY <1>16, SMTT(40) DEF ResultUnusable, Escalate, ListFlight
<1>17. CASE NextCall
  BY <1>17, SMTT(40) DEF NextCall
<1>18. CASE EndPhase
  BY <1>18, SMTT(40) DEF EndPhase
<1>19. CASE ExecutorFails
  BY <1>19, SMTT(40) DEF ExecutorFails
<1>20. CASE Retry
  BY <1>20, SMTT(40) DEF Retry, Retryable, ListFlight
<1>21. CASE Failover
  BY <1>21, SMTT(40) DEF Failover, FailoverSafe, ListFlight
<1>22. CASE FailureEscalates
  BY <1>22, SMTT(40) DEF FailureEscalates, Escalate, ListFlight
<1>23. CASE ResumeClean
  BY <1>23, SMTT(40) DEF ResumeClean
<1>24. CASE ResumeEscalates
  BY <1>24, SMTT(40) DEF ResumeEscalates, Escalate
<1>25. CASE ReconcileEscalates
  BY <1>25, SMTT(40) DEF ReconcileEscalates, Escalate, Reconciling
<1>26. CASE ReconcileAdopts
  BY <1>26, SMTT(40) DEF ReconcileAdopts, Reconciling, HasEffects, ResultOnRecord
<1>27. CASE ReconcileReplays
  BY <1>27, SMTT(40) DEF ReconcileReplays, Reconciling, HasEffects, ResultOnRecord
<1>28. CASE Crash
  BY <1>28, SMTT(40) DEF Crash, Forget
<1>29. CASE Pause
  BY <1>29, SMTT(40) DEF Pause, Forget
<1>30. CASE Cancel
  BY <1>30, SMTT(40) DEF Cancel, Forget
<1>31. CASE TouchWorktree
  BY <1>31, SMTT(40) DEF TouchWorktree
<1>32. CASE OrphanEnds
  BY <1>32, SMTT(40) DEF OrphanEnds
<1>33. CASE UNCHANGED vars
  BY <1>33, SMTT(40)
<1> QED
  BY <1>1, <1>2, <1>3, <1>4, <1>5, <1>6, <1>7, <1>8, <1>9, <1>10, <1>11, <1>12, <1>13, <1>14, <1>15, <1>16, <1>17, <1>18, <1>19, <1>20, <1>21, <1>22, <1>23, <1>24, <1>25, <1>26, <1>27, <1>28, <1>29, <1>30, <1>31, <1>32, <1>33 DEF Next, Step, Resume

\* Every action keeps the retry links a chain.
LEMMA FreshStep ==
  ASSUME IInv, Fresh, [Next]_vars
  PROVE  Fresh'
<1> USE BoundAssumption DEF IInv, TypeOK, Working, Current, Fresh, RetriedOnce, Holding, Execs, NoExec,
            Descriptors, NoDescr, durable, process, world, vars
<1>1. CASE BeginPhase
  BY <1>1, SMTT(40) DEF BeginPhase
<1>2. CASE HandlerEscalates
  BY <1>2, SMTT(40) DEF HandlerEscalates, Escalate
<1>3. CASE Route
  BY <1>3, SMTT(40) DEF Route
<1>4. CASE RouteEscalates
  BY <1>4, SMTT(40) DEF RouteEscalates, Escalate
<1>5. CASE TakeRecovered
  BY <1>5, SMTT(40) DEF TakeRecovered
<1>6. CASE Allocate
  <2>1. /\ last \in Nat /\ last' = last + 1 /\ last + 1 \in Execs
        /\ flight' = last + 1 /\ retryOf' = NoExec
        /\ retryOf \in Nat /\ retryOf <= last
        /\ \A d \in 1..last : retryOf # NoExec => descr[d].retryOf # retryOf
    BY <1>6 DEF Allocate
  <2>2. descr'[last + 1].retryOf = retryOf
    BY <1>6, <2>1 DEF Allocate
  <2>3. \A d \in 1..last : /\ descr'[d] = descr[d]
                          /\ descr[d].retryOf \in Nat /\ descr[d].retryOf < last
    <3> SUFFICES ASSUME NEW d \in 1..last
                 PROVE  /\ descr'[d] = descr[d]
                        /\ descr[d].retryOf \in Nat /\ descr[d].retryOf < last
      OBVIOUS
    <3>1. d \in Execs /\ d # last + 1
      BY <2>1, SMTT(30)
    <3>2. descr[d] \in Descriptors \cup {NoDescr}
      BY <3>1
    <3>3. descr[d].retryOf \in Nat
      BY <3>2, SMTT(30)
    <3>4. descr'[d] = descr[d]
      BY <1>6, <3>1 DEF Allocate
    <3> QED
      BY <3>3, <3>4
  <2>4. RetriedOnce
    OBVIOUS
  <2>5. RetriedOnce'
    <3> HIDE DEF IInv, TypeOK, Working, Current, Fresh, Execs
    <3> QED
      BY <2>1, <2>2, <2>3, <2>4 DEF RetriedOnce
  <2> HIDE DEF IInv, TypeOK, Working, Current, Fresh, Execs, RetriedOnce
  <2> QED
    BY <2>1, <2>2, <2>3, <2>5 DEF Fresh
<1>7. CASE Unavailable
  BY <1>7, SMTT(40) DEF Unavailable
<1>8. CASE NoneAvailable
  BY <1>8, SMTT(40) DEF NoneAvailable, Escalate
<1>9. CASE RecordIntent
  BY <1>9, SMTT(40) DEF RecordIntent
<1>10. CASE IntentRefused
  BY <1>10, SMTT(40) DEF IntentRefused, Escalate
<1>11. CASE Spawn
  BY <1>11, SMTT(40) DEF Spawn
<1>12. CASE ObserveStart
  BY <1>12, SMTT(40) DEF ObserveStart
<1>13. CASE WriteArtifact
  BY <1>13, SMTT(40) DEF WriteArtifact
<1>14. CASE CloseExecution
  BY <1>14, SMTT(40) DEF CloseExecution
<1>15. CASE RecordExecutionRef
  BY <1>15, SMTT(40) DEF RecordExecutionRef, ListFlight
<1>16. CASE ResultUnusable
  BY <1>16, SMTT(40) DEF ResultUnusable, Escalate, ListFlight
<1>17. CASE NextCall
  BY <1>17, SMTT(40) DEF NextCall
<1>18. CASE EndPhase
  BY <1>18, SMTT(40) DEF EndPhase
<1>19. CASE ExecutorFails
  BY <1>19, SMTT(40) DEF ExecutorFails
<1>20. CASE Retry
  BY <1>20, SMTT(40) DEF Retry, Retryable, ListFlight
<1>21. CASE Failover
  BY <1>21, SMTT(40) DEF Failover, FailoverSafe, ListFlight
<1>22. CASE FailureEscalates
  BY <1>22, SMTT(40) DEF FailureEscalates, Escalate, ListFlight
<1>23. CASE ResumeClean
  BY <1>23, SMTT(40) DEF ResumeClean
<1>24. CASE ResumeEscalates
  BY <1>24, SMTT(40) DEF ResumeEscalates, Escalate
<1>25. CASE ReconcileEscalates
  BY <1>25, SMTT(40) DEF ReconcileEscalates, Escalate, Reconciling
<1>26. CASE ReconcileAdopts
  BY <1>26, SMTT(40) DEF ReconcileAdopts, Reconciling, HasEffects, ResultOnRecord
<1>27. CASE ReconcileReplays
  BY <1>27, SMTT(40) DEF ReconcileReplays, Reconciling, HasEffects, ResultOnRecord
<1>28. CASE Crash
  BY <1>28, SMTT(40) DEF Crash, Forget
<1>29. CASE Pause
  BY <1>29, SMTT(40) DEF Pause, Forget
<1>30. CASE Cancel
  BY <1>30, SMTT(40) DEF Cancel, Forget
<1>31. CASE TouchWorktree
  BY <1>31, SMTT(40) DEF TouchWorktree
<1>32. CASE OrphanEnds
  BY <1>32, SMTT(40) DEF OrphanEnds
<1>33. CASE UNCHANGED vars
  BY <1>33, SMTT(40)
<1> QED
  BY <1>1, <1>2, <1>3, <1>4, <1>5, <1>6, <1>7, <1>8, <1>9, <1>10, <1>11, <1>12, <1>13, <1>14, <1>15, <1>16, <1>17, <1>18, <1>19, <1>20, <1>21, <1>22, <1>23, <1>24, <1>25, <1>26, <1>27, <1>28, <1>29, <1>30, <1>31, <1>32, <1>33 DEF Next, Step, Resume

\* A run starts in the invariant.
LEMMA InductiveInit ==
  ASSUME Init
  PROVE  IInv /\ Reach /\ Fresh
<1> USE CallsFacts, BoundAssumption DEF Init
<1>0. TypeOK
  <2>1. descr \in [Execs -> Descriptors \cup {NoDescr}] /\ listed \in [Execs -> Nat]
    BY DEF NoExec
  <2>2. phase \in Phases \cup {Len(Calls) + 1}
    OBVIOUS
  <2>3. started \in BOOLEAN /\ artifact \in BOOLEAN /\ pc \in PcValues
    BY Zenon DEF PcValues
  <2> QED
    BY <2>1, <2>2, <2>3 DEF TypeOK, Execs, NoExec
<1>1. Working /\ Current /\ Described /\ Between /\ Settled /\ EffectsOnce
  BY DEF TypeOK, Working, Current, Described, Between, Settled, EffectsOnce, IsEffect, Holding,
         Descriptors, NoDescr, PcValues, Execs, NoExec
<1>2. Reach
  BY DEF Reach, Holding, Execs, NoExec
<1>3. Fresh
  BY DEF Fresh, RetriedOnce, NoExec
<1> QED
  BY <1>0, <1>1, <1>2, <1>3 DEF IInv

\* The inductive invariant holds in every state of every behaviour.
LEMMA Invariance == Spec => [](IInv /\ Reach /\ Fresh)
<1>1. Init => IInv /\ Reach /\ Fresh
  BY InductiveInit
<1>2. IInv /\ Reach /\ Fresh /\ [Next]_vars => (IInv /\ Reach /\ Fresh)'
  BY InductiveStep, ReachStep, FreshStep
<1> QED
  BY <1>1, <1>2, PTL DEF Spec

-----------------------------------------------------------------------------
\* Every variable keeps its type, in every run of any length.
THEOREM TypeCorrect == Spec => []TypeOK
  BY Invariance, PTL DEF IInv

\* No phase's worktree effects are applied a second time on a guess.
THEOREM EffectsAreOnce == Spec => []EffectsOnce
  BY Invariance, PTL DEF IInv

\* No completed result is lost to a run that can go on, or counted twice.
THEOREM ResultsAreKept == Spec => []ResultKept
<1>1. IInv /\ Reach => ResultKept
  BY BoundAssumption DEF IInv, TypeOK, Reach, ResultKept, Execs, NoExec
<1> QED
  BY <1>1, Invariance, PTL

\* Retry links form a chain.
THEOREM RetriesAreAChain == Spec => []RetriedOnce
  BY Invariance, PTL DEF Fresh
=============================================================================
