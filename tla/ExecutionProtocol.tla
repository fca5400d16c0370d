------------------------- MODULE ExecutionProtocol --------------------------
(***************************************************************************)
(* autonomy_controller.py: how one phase of a run invokes its executors,   *)
(* what is durable before each step, and what resume does after the        *)
(* controller was killed, paused or cancelled in between.                  *)
(*                                                                         *)
(* A run is a row of phases; phase p calls the executors Calls[p] in that  *)
(* order.  The durable state is autonomy_state.json (phase, status,        *)
(* flight, listed), the execution ledger and the result artifacts; the     *)
(* rest lives in the controller process and is lost with it.  One          *)
(* controller drives the run: that is RunLock's business.                  *)
(***************************************************************************)
EXTENDS Naturals, Sequences, FiniteSets

CONSTANTS
  Calls,           \* Calls[p]: the executors phase p invokes, in order
  OneShot,         \* phases invoked by the initial_planner role
  Profiles,        \* provider profiles the router may choose
  MaxFailovers,    \* routing_cfg["max_failovers"]
  NoProfile,
  MaxExecs,        \* bound: execution_ids allocated in a behaviour
  MaxStops         \* bound: crashes, pauses and cancellations

Phases == DOMAIN Calls
Execs  == 1..MaxExecs
NoExec == 0

\* The executors that may change the worktree, and SIDE_EFFECT_PHASES: the
\* phases that contain one.
EffectNames == {"execute", "repair"}
ReadNames   == {"plan", "self_verify", "prepare_packet", "review",
                "final_review", "diagnose"}
ReviewNames == {"review", "final_review"}
Names       == EffectNames \cup ReadNames
HasEffects(p) == \E i \in DOMAIN Calls[p] : Calls[p][i] \in EffectNames

ASSUME CallsAssumption == /\ Calls \in Seq(Seq(Names)) /\ Calls # <<>>
                          /\ \A p \in DOMAIN Calls : Calls[p] # <<>>
\* _do_execute and _do_repair change the worktree with their last call.
ASSUME EffectLastAssumption ==
  \A p \in DOMAIN Calls : \A i \in DOMAIN Calls[p] :
    Calls[p][i] \in EffectNames => i = Len(Calls[p])
ASSUME OneShotAssumption == OneShot \subseteq DOMAIN Calls
ASSUME BoundAssumption ==
  /\ MaxFailovers \in Nat /\ MaxExecs \in Nat /\ MaxStops \in Nat
ASSUME ProfileAssumption == IsFiniteSet(Profiles) /\ NoProfile \notin Profiles

VARIABLES
  \* durable
  phase,     \* the phase recorded in the state
  status,    \* RUNNING, AWAITING_HUMAN, or FINISHED after the last phase
  flight,    \* state["in_flight"]: an execution_id or NoExec
  listed,    \* how often each execution is in state["executions"]
  last,      \* the last execution_id allocated; descriptors of 1..last exist
  descr,     \* the descriptor of each execution
  completed, \* executions the ledger closed as COMPLETED; resume does not
             \* tell another close from none
  started,   \* the ledger recorded the start of the execution in flight
  artifact,  \* the result file of the execution in flight is written
  \* in the controller process
  pc, call, ranked, profile, retryOf, recovered,
  \* facts about the world and the history
  spawned,    \* executions whose process was started
  alive,      \* implementers whose process still runs
  touched,    \* executions that changed the worktree
  stops

durable == <<phase, status, flight, listed, last, descr, completed, started, artifact>>
process == <<pc, call, ranked, profile, retryOf, recovered>>
world   == <<spawned, alive, touched, stops>>
vars    == <<durable, process, world>>

Descriptors == [phase : Phases, name : Names, retryOf : Execs \cup {NoExec}]
NoDescr == [phase |-> 0, name |-> "none", retryOf |-> NoExec]

PcValues == {"down", "boundary", "call", "dispatch", "intent", "spawn", "spawned",
             "running", "closing", "record", "result", "failed"}

TypeOK ==
  /\ phase \in Phases \cup {Len(Calls) + 1}
  /\ status \in {"RUNNING", "AWAITING_HUMAN", "FINISHED"}
  /\ flight \in Execs \cup {NoExec}
  /\ listed \in [Execs -> Nat]
  /\ last \in 0..MaxExecs
  /\ descr \in [Execs -> Descriptors \cup {NoDescr}]
  /\ completed \subseteq Execs
  /\ started \in BOOLEAN
  /\ artifact \in BOOLEAN
  /\ pc \in PcValues
  /\ call \in Nat
  /\ ranked \subseteq Profiles
  /\ profile \in Profiles \cup {NoProfile}
  /\ retryOf \in Execs \cup {NoExec}
  /\ recovered \in Execs \cup {NoExec}
  /\ spawned \subseteq Execs
  /\ alive \subseteq spawned
  /\ touched \subseteq spawned
  /\ stops \in 0..MaxStops

\* A run starts with its first controller about to enter phase 1.
Init ==
  /\ phase = 1 /\ status = "RUNNING" /\ flight = NoExec /\ last = 0
  /\ listed = [e \in Execs |-> 0]
  /\ descr = [e \in Execs |-> NoDescr]
  /\ completed = {} /\ started = FALSE /\ artifact = FALSE
  /\ pc = "boundary" /\ call = 1 /\ ranked = {} /\ profile = NoProfile
  /\ retryOf = NoExec /\ recovered = NoExec
  /\ spawned = {} /\ alive = {} /\ touched = {} /\ stops = 0

-----------------------------------------------------------------------------
Name == Calls[phase][call]

\* The recovered result of a restart answers the call it was recorded for.
Adoptable == /\ recovered # NoExec
             /\ descr[recovered].phase = phase
             /\ descr[recovered].name = Name

\* _escalate: the run is AWAITING_HUMAN, nothing is in flight, and the
\* controller's loop ends.
Escalate == /\ status' = "AWAITING_HUMAN"
            /\ flight' = NoExec
            /\ pc' = "down"
            /\ UNCHANGED <<phase, last, descr, completed, started, artifact,
                           call, ranked, profile, retryOf, recovered, world>>

\* run: a phase begins at its boundary, with its first call.
BeginPhase == /\ pc = "boundary"
              /\ pc' = "call"
              /\ call' = 1
              /\ UNCHANGED <<durable, ranked, profile, retryOf, recovered,
                             spawned, alive, touched, stops>>

\* run: assert_safe fails at the boundary (E_GIT), or the handler refuses what
\* it received (plan rejected, session reused, ...).
HandlerEscalates == /\ pc \in {"boundary", "result"}
                    /\ Escalate
                    /\ UNCHANGED listed

\* _call: the policy and the router rank profiles for this call.  A pool in
\* cooldown is not eligible, but a call may outlast the cooldown of the profile
\* it failed on: any profile may be eligible again.  Nobody eligible (E_ROUTING)
\* stops the run.
Route ==
  /\ pc = "call"
  /\ ~Adoptable
  /\ ranked' \in SUBSET Profiles \ {{}}
  /\ Cardinality(ranked') <= 1 + MaxFailovers
  /\ pc' = "dispatch"
  /\ UNCHANGED <<durable, call, profile, retryOf, recovered, world>>

RouteEscalates == /\ pc = "call"
                  /\ ~Adoptable
                  /\ Escalate
                  /\ UNCHANGED listed

\* _call_once with a recovered result: no invocation.
TakeRecovered == /\ pc = "call"
                 /\ Adoptable
                 /\ recovered' = NoExec
                 /\ pc' = "result"
                 /\ UNCHANGED <<durable, call, ranked, profile, retryOf, world>>

\* _call_once: preflight passes for the next ranked profile; the descriptor is
\* allocated and the in-flight marker naming it is saved.
Allocate ==
  /\ pc = "dispatch"
  /\ last < MaxExecs
  /\ profile' \in ranked
  /\ ranked' = ranked \ {profile'}
  /\ last' = last + 1
  /\ descr' = [descr EXCEPT ![last + 1] =
                 [phase |-> phase, name |-> Name, retryOf |-> retryOf]]
  /\ retryOf' = NoExec
  /\ flight' = last + 1
  /\ started' = FALSE
  /\ artifact' = FALSE
  /\ pc' = "intent"
  /\ UNCHANGED <<phase, status, listed, completed, call, recovered,
                 spawned, alive, touched, stops>>

\* preflight says the profile is not runnable: the next one, or a human.
Unavailable ==
  /\ pc = "dispatch"
  /\ \E p \in ranked :
       /\ ranked # {p}
       /\ ranked' = ranked \ {p}
  /\ UNCHANGED <<durable, pc, call, profile, retryOf, recovered, world>>

NoneAvailable == /\ pc = "dispatch"
                 /\ Cardinality(ranked) = 1
                 /\ Escalate
                 /\ UNCHANGED listed

\* EXECUTION_INTENT is durable before anything is dispatched.
RecordIntent == /\ pc = "intent"
                /\ pc' = "spawn"
                /\ UNCHANGED <<durable, call, ranked, profile, retryOf, recovered,
                               world>>

\* LedgerError: nothing was dispatched.
IntentRefused == /\ pc = "intent"
                 /\ Escalate
                 /\ UNCHANGED listed

\* The provider process is started; only afterwards is its receipt recorded,
\* and the ledger may not be able to record it.
Spawn == /\ pc = "spawn"
         /\ spawned' = spawned \cup {flight}
         /\ alive' = IF Name \in EffectNames THEN alive \cup {flight} ELSE alive
         /\ pc' = "spawned"
         /\ UNCHANGED <<durable, call, ranked, profile, retryOf, recovered,
                        touched, stops>>

ObserveStart == /\ pc = "spawned"
                /\ started' \in BOOLEAN
                /\ pc' = "running"
                /\ UNCHANGED <<phase, status, flight, listed, last, descr, completed, artifact,
                               call, ranked, profile, retryOf, recovered, world>>

\* The process returned: its artifact is written first, then the close
\* (COMPLETED, or TIMEOUT when a result was recovered from a process that was
\* killed), then the reference in the state.  A close that cannot be recorded
\* does not stop the run.
WriteArtifact == /\ pc = "running"
                 /\ artifact' = TRUE
                 /\ alive' = alive \ {flight}
                 /\ pc' = "closing"
                 /\ UNCHANGED <<phase, status, flight, listed, last, descr, completed, started,
                                call, ranked, profile, retryOf, recovered,
                                spawned, touched, stops>>

CloseExecution == /\ pc = "closing"
                  /\ completed' \in {completed, completed \cup {flight}}
                  /\ pc' = "record"
                  /\ UNCHANGED <<phase, status, flight, listed, last, descr, started, artifact,
                                 call, ranked, profile, retryOf, recovered, world>>

ListFlight == listed' = [listed EXCEPT ![flight] = @ + 1]

RecordExecutionRef == /\ pc = "record"
                      /\ ListFlight
                      /\ pc' = "result"
                      /\ UNCHANGED <<phase, status, flight, last, descr, completed, started, artifact,
                                     call, ranked, profile, retryOf, recovered, world>>

\* The process exited cleanly but left no structured result.
ResultUnusable == /\ pc = "record"
                  /\ Name \notin ReviewNames
                  /\ ListFlight
                  /\ Escalate

\* The handler goes on to its next call ...
NextCall == /\ pc = "result"
            /\ call < Len(Calls[phase])
            /\ call' = call + 1
            /\ pc' = "call"
            /\ UNCHANGED <<durable, ranked, profile, retryOf, recovered,
                           spawned, alive, touched, stops>>

\* ... or is done (a review needs its second round only for raw evidence): the
\* next phase and the cleared marker are saved together.
EndPhase == /\ pc = "result"
            /\ call = Len(Calls[phase]) \/ Name \in ReviewNames
            /\ flight' = NoExec
            /\ phase' = phase + 1
            /\ status' = IF phase = Len(Calls) THEN "FINISHED" ELSE "RUNNING"
            /\ pc' = IF phase = Len(Calls) THEN "down" ELSE "boundary"
            /\ UNCHANGED <<listed, last, descr, completed, started, artifact, call, ranked, profile,
                           retryOf, recovered, world>>

-----------------------------------------------------------------------------
\* ExecutorFailure: before a process could be started, or from one that ended.
ExecutorFails == /\ pc \in {"spawn", "running"}
                 /\ alive' = alive \ {flight}
                 /\ pc' = "failed"
                 /\ UNCHANGED <<durable, call, ranked, profile, retryOf, recovered,
                                spawned, touched, stops>>

\* A timed-out read-only call that is not itself a retry, and not the initial
\* planner's, is called again; the call is routed afresh.
Retryable == /\ flight \in spawned
             /\ Name \in ReadNames
             /\ phase \notin OneShot
             /\ descr[flight].retryOf = NoExec

Retry == /\ pc = "failed"
         /\ Retryable
         /\ ListFlight
         /\ retryOf' = flight
         /\ flight' = NoExec
         /\ pc' = "call"
         /\ UNCHANGED <<phase, status, last, descr, completed, started, artifact, call, ranked,
                        profile, recovered, world>>

\* Mutant: an implementer fails over whatever it did to the worktree.
FailoverAlways == TRUE

\* _failover_safe: a failed implementer left the worktree as it was.
FailoverSafe == Name \in EffectNames => flight \notin touched

\* Mutant: the failed-over call inherits the retry link of the failed one.
FailoverAsRetry == /\ pc = "failed"
                   /\ ranked # {}
                   /\ FailoverSafe
                   /\ ListFlight
                   /\ flight' = NoExec
                   /\ retryOf' = descr[flight].retryOf
                   /\ pc' = "dispatch"
                   /\ UNCHANGED <<phase, status, last, descr, completed, started, artifact, call,
                                  ranked, profile, recovered, world>>

\* A failure the provider's health explains goes to the next ranked profile.
Failover == /\ pc = "failed"
            /\ ranked # {}
            /\ FailoverSafe
            /\ ListFlight
            /\ flight' = NoExec
            /\ pc' = "dispatch"
            /\ UNCHANGED <<phase, status, last, descr, completed, started, artifact, call, ranked,
                           profile, retryOf, recovered, world>>

\* Every other failure stops the run for a human.
FailureEscalates == /\ pc = "failed"
                    /\ ListFlight
                    /\ Escalate

-----------------------------------------------------------------------------
\* What the process held is gone; what was durable stays.
Forget == /\ pc' = "down" /\ call' = 1 /\ ranked' = {} /\ profile' = NoProfile
          /\ retryOf' = NoExec /\ recovered' = NoExec
          /\ stops < MaxStops
          /\ stops' = stops + 1
          /\ UNCHANGED <<durable, spawned, touched>>

\* The controller is killed anywhere; the provider's process lives on.  (An
\* exception nothing handles has the same durable effect.)
Crash == pc # "down" /\ Forget /\ UNCHANGED alive

\* A stop request honoured at a phase boundary.
Pause == pc = "boundary" /\ Forget /\ UNCHANGED alive

\* RunCancelled inside a call: the process was stopped or never spawned.  The
\* in-flight marker stays for resume.
Cancel == /\ pc \in {"spawn", "running"}
          /\ alive' = alive \ {flight}
          /\ Forget

\* resume with nothing in flight.
ResumeClean == /\ pc = "down"
               /\ status = "RUNNING"
               /\ flight = NoExec
               /\ pc' = "boundary"
               /\ UNCHANGED <<durable, call, ranked, profile, retryOf, recovered, world>>

\* resume: env.restore finds a Git violation.
ResumeEscalates == /\ pc = "down"
                   /\ status = "RUNNING"
                   /\ Escalate
                   /\ UNCHANGED listed

\* Mutant: the evidence of a result is its reference in the state.
ResultListed == listed[flight] # 0 /\ artifact

\* _reconcile_in_flight, decided from durable evidence.
Reconciling == pc = "down" /\ status = "RUNNING" /\ flight # NoExec
ResultOnRecord == flight \in completed /\ artifact
AlreadyInvoked == phase \in OneShot /\ started

\* ESCALATE_SIDE_EFFECT_PHASE, ESCALATE_INITIAL_PLANNER_ALREADY_INVOKED.
ReconcileEscalates == /\ Reconciling
                      /\ HasEffects(phase) \/ (~ResultOnRecord /\ AlreadyInvoked)
                      /\ Escalate
                      /\ UNCHANGED listed

\* ADOPT_RECORDED_RESULT: the result is kept in memory for the phase.
ReconcileAdopts ==
  /\ Reconciling
  /\ ~HasEffects(phase)
  /\ ResultOnRecord
  /\ recovered' = flight
  /\ listed' = [listed EXCEPT ![flight] = IF @ = 0 THEN 1 ELSE @]
  /\ flight' = NoExec
  /\ pc' = "boundary"
  /\ UNCHANGED <<phase, status, last, descr, completed, started, artifact, call, ranked, profile,
                 retryOf, spawned, alive, touched, stops>>

\* REPLAY_READ_ONLY_PHASE_WITH_NEW_EXECUTION_ID.
ReconcileReplays ==
  /\ Reconciling
  /\ ~HasEffects(phase)
  /\ ~ResultOnRecord
  /\ ~AlreadyInvoked
  /\ retryOf' = flight
  /\ flight' = NoExec
  /\ pc' = "boundary"
  /\ UNCHANGED <<phase, status, listed, last, descr, completed, started, artifact, call, ranked,
                 profile, recovered, world>>

-----------------------------------------------------------------------------
\* A living implementer, the controller's or an orphan, edits the worktree.
TouchWorktree == /\ \E e \in alive \ touched :
                      /\ touched' = touched \cup {e}
                 /\ UNCHANGED <<durable, process, spawned, alive, stops>>

\* An orphan ends.
OrphanEnds == /\ \E e \in alive : /\ pc = "down" \/ e # flight
                                  /\ alive' = alive \ {e}
              /\ UNCHANGED <<durable, process, spawned, touched, stops>>

Step == \/ BeginPhase \/ HandlerEscalates \/ Route \/ RouteEscalates \/ TakeRecovered
        \/ Allocate \/ Unavailable \/ NoneAvailable \/ RecordIntent \/ IntentRefused
        \/ Spawn \/ ObserveStart \/ WriteArtifact \/ CloseExecution
        \/ RecordExecutionRef \/ ResultUnusable \/ NextCall \/ EndPhase
        \/ ExecutorFails \/ Retry \/ Failover \/ FailureEscalates

Resume == \/ ResumeClean \/ ResumeEscalates
          \/ ReconcileEscalates \/ ReconcileAdopts \/ ReconcileReplays

Next == Step \/ Resume \/ Crash \/ Pause \/ Cancel \/ TouchWorktree \/ OrphanEnds

Spec == Init /\ [][Next]_vars

-----------------------------------------------------------------------------
IsEffect(e) == e \in spawned /\ descr[e].name \in EffectNames

\* The effects of a phase are never applied twice on a guess: when an
\* implementer is started for a phase for which one was started before, the
\* earlier one is over and left the worktree as it was, whatever was killed,
\* failed over or resumed in between.
EffectsOnce ==
  \A d, e \in Execs :
    (d < e /\ IsEffect(d) /\ IsEffect(e) /\ descr[d].phase = descr[e].phase)
      => d \notin touched /\ d \notin alive

\* A completed result is never lost by a run that can go on, and never
\* counted twice: it is listed in the state once, or the in-flight marker
\* still leads resume to it.
ResultKept ==
  \A e \in Execs :
    /\ listed[e] <= 1
    /\ (status # "AWAITING_HUMAN" /\ e \in completed) => listed[e] = 1 \/ flight = e

\* retry_of_execution_id is a chain, not a tree: no execution is retried or
\* replayed by two others.
RetriedOnce ==
  \A d, e \in 1..last :
    (descr[d].retryOf = descr[e].retryOf /\ descr[d].retryOf # NoExec) => d = e
=============================================================================
