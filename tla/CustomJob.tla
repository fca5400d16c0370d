------------------------------ MODULE CustomJob ------------------------------
(* A custom job: the runner that takes it through plan, tasks, gates, commits *)
(* and review to its candidate, and the command-line processes that repair    *)
(* selected findings or record the human verdict.  Every execution is         *)
(* announced and closed in the job's ledger (custom_job_runner.py over        *)
(* execution_ledger.py).                                                      *)
EXTENDS ExecutionLedger, FiniteSets

CONSTANTS
    Runner,      \* the process of execute
    Clis,        \* processes of human_verdict and selected_repair
    Shapes,      \* the jobs: [type, program, calls, approval, selects]
    MaxId,       \* bound of executions, commits and decisions
    MaxEdits,    \* changes of the worktree
    Unchecked    \* what the code leaves to others: see UncheckedKinds

Processes == Clis \cup {Runner}

\* "hidden edit":   a read-only node changes a file that was already changed;
\* "single commit": an implementer commits in a job without checkpoints;
\* "repair again":  after a repair has ended or died another one is started;
\* "stray error":   an adapter raises something else than a WorkflowStop.
UncheckedKinds == {"hidden edit", "single commit", "repair again", "stray error"}

ASSUME UncheckedAssumption == Unchecked \subseteq UncheckedKinds
ASSUME WriterAssumption == Writers = Processes /\ Runner \notin Clis
ASSUME BoundAssumption == MaxId \in Nat /\ MaxEdits \in Nat

VARIABLES
    job,        \* the frozen job
    tree,       \* worktree: HEAD commit, its content, content now, changed paths
    mainMoved,  \* the canonical checkout changed since the baseline
    lastId,     \* last execution id
    disk,       \* job_state.json
    mem,        \* the copy of it each process works on
    proc,       \* where each process is
    spawned,    \* executions whose process was started
    candidateFile,
    decisions   \* human decision artifacts

jobVars == <<job, tree, mainMoved, lastId, disk, mem, proc, spawned, candidateFile, decisions>>
vars == <<ledgerVars, jobVars>>

Implementers == {"SUBTASK", "IMPLEMENT", "REPAIR"}
Reviewers == {"REVIEW", "DELTA_REVIEW"}
Models == Implementers \cup Reviewers \cup {"PLAN"}
Invocations == Models \cup {"GATE"}

\* From its i-th role on, a program only runs gates until it commits.
CommitsNext(program, i) ==
    \E j \in i..Len(program) :
        program[j] = "COMMIT" /\ \A k \in i..(j - 1) : program[k] = "GATE"

\* What execute runs: every task of a job with checkpoints has its gates and
\* its commit before the next one; the review is last, or the stages which
\* are started by hand.
ASSUME ProgramAssumption ==
    \A s \in Shapes :
        /\ s.program \in
             Seq({"PLAN", "SUBTASK", "IMPLEMENT", "GATE", "COMMIT", "STAGES", "REVIEW"}) \ {<< >>}
        /\ \A i \in DOMAIN s.program :
             /\ s.program[i] \in {"REVIEW", "STAGES"} <=> i = Len(s.program)
             /\ s.type = "MULTI_SUBTASK" /\ s.program[i] \in {"SUBTASK", "IMPLEMENT"}
                  => CommitsNext(s.program, i + 1)

Statuses ==
    {"RUNNING", "WAITING_FOR_PLAN_APPROVAL", "WAITING_FOR_HUMAN", "WAITING_FOR_REPAIR_SELECTION",
     "READY_FOR_EXTERNAL_INTEGRATION", "REJECTED", "BLOCKED", "FAIL", "INVALID"}

Intent(id) == [type |-> "EXECUTION_INTENT", id |-> id, source |-> "NONE"]
Started(id) == [type |-> "EXECUTION_STARTED", id |-> id, source |-> "NONE"]
Closed(id, source) == [type |-> "EXECUTION_CLOSED", id |-> id, source |-> source]
CommitEvent(id) == [type |-> "COMMIT_RECORDED", id |-> id, source |-> "NONE"]
DecisionEvent(id) == [type |-> "HUMAN_DECISION_RECORDED", id |-> id, source |-> "NONE"]

Sources ==
    {"ADAPTER_RESPONSE", "IN_PROCESS_ADAPTER_RETURN", "RUNNER_EXCEPTION", "SPAWN_FAILURE",
     "PRE_DISPATCH_FAILURE", "CHILD_PROCESS_EXIT"}
WithoutStart == {"IN_PROCESS_ADAPTER_RETURN", "SPAWN_FAILURE", "PRE_DISPATCH_FAILURE"}

JobEvents ==
    {Intent(i) : i \in 1..MaxId} \cup {Started(i) : i \in 1..MaxId}
        \cup {CommitEvent(i) : i \in 1..MaxId} \cup {DecisionEvent(i) : i \in 1..MaxId}
        \cup {Closed(i, s) : i \in 1..MaxId, s \in Sources}

ASSUME EventsAssumption == JobEvents \subseteq Events

NewState ==
    [status |-> "RUNNING", telemetry |-> 0, known |-> {}, started |-> {}, closed |-> {},
     commits |-> {}, review |-> None, repair |-> None, delta |-> None,
     candidate |-> None, verdict |-> None]

Waiting == [at |-> "idle", kind |-> "none", todo |-> << >>, exec |-> 0,
            start |-> "NOT_OBSERVED", before |-> None, then |-> "none"]

Init ==
    /\ LedgerInit
    /\ job \in Shapes
    /\ tree = [head |-> 0, committed |-> 0, content |-> 0, paths |-> 0]
    /\ mainMoved = FALSE
    /\ lastId = 0
    /\ disk = NewState
    /\ mem = [p \in Processes |-> IF p = Runner THEN NewState ELSE None]
    /\ proc = [p \in Processes |->
           IF p = Runner THEN [Waiting EXCEPT !.at = "next", !.kind = "execute", !.todo = job.program]
           ELSE Waiting]
    /\ spawned = {}
    /\ candidateFile = FALSE
    /\ decisions = {}

Role(p) == Head(proc[p].todo)
Set(p, field, value) == [proc EXCEPT ![p][field] = value]
Fault == faults < MaxFaults /\ faults' = faults + 1

\* A WorkflowStop: execute records it and goes to its finally; a repair has no
\* handler, it ends with nothing more saved.
Stop(p, status, state) ==
    /\ mem' = [mem EXCEPT ![p] = [state EXCEPT !.status =
                   IF proc[p].kind = "execute" THEN status ELSE @]]
    /\ proc' = [proc EXCEPT ![p] = [Waiting EXCEPT
                   !.kind = proc[p].kind,
                   !.at = IF proc[p].kind = "execute" THEN "stopping" ELSE "over"]]

\* The process goes to its last save with the status it has reached.
Conclude(p, state) ==
    /\ mem' = [mem EXCEPT ![p] = state]
    /\ proc' = [proc EXCEPT ![p] = [Waiting EXCEPT !.at = "stopping", !.kind = proc[p].kind]]

Proceed(p, state) ==
    /\ mem' = [mem EXCEPT ![p] = state]
    /\ proc' = [proc EXCEPT ![p].at = "next", ![p].todo = Tail(@), ![p].then = "none"]

(***************************************************************************)
(* One invocation: limits, descriptor, intent, dispatch, start, close.     *)
(***************************************************************************)

CallsUsed(p) == Role(p) # "GATE" /\ mem[p].telemetry >= job.calls

RefuseInvocation(p) ==
    /\ proc[p].at = "next"
    /\ Role(p) \in Invocations
    /\ CallsUsed(p) \/ (mainMoved /\ Role(p) \in {"SUBTASK", "IMPLEMENT"})
    /\ Stop(p, "BLOCKED", mem[p])
    /\ UNCHANGED <<ledgerVars, job, tree, mainMoved, lastId, disk, spawned, candidateFile, decisions>>

\* The descriptor is in the job's state before the intent is asked for.
AllocateExecution(p) ==
    /\ proc[p].at = "next"
    /\ Role(p) \in Invocations
    /\ ~CallsUsed(p) /\ ~(mainMoved /\ Role(p) \in {"SUBTASK", "IMPLEMENT"})
    /\ lastId < MaxId
    /\ lastId' = lastId + 1
    /\ Ask(p, Intent(lastId'))
    /\ disk' = mem[p]
    /\ proc' = [proc EXCEPT ![p].at = "intent", ![p].exec = lastId', ![p].start = "NOT_OBSERVED",
                            ![p].before = IF Role(p) = "GATE" THEN @ ELSE tree]
    /\ UNCHANGED <<job, tree, mainMoved, mem, spawned, candidateFile, decisions>>

DispatchAnyway(p) == answer[p] # "NONE"

Dispatchable(p) == answer[p] = "RECORDED"

\* Fail closed: without a durable intent nothing is dispatched.
IntentAnswered(p) ==
    /\ proc[p].at = "intent"
    /\ answer[p] # "NONE"
    /\ IF Dispatchable(p)
         THEN LET known == [mem[p] EXCEPT !.known = @ \cup {proc[p].exec}] IN
              /\ mem' = [mem EXCEPT ![p] = known]
              /\ disk' = known
              /\ proc' = Set(p, "at", "dispatch")
         ELSE Stop(p, "BLOCKED", mem[p]) /\ disk' = disk
    /\ Hear(p)
    /\ UNCHANGED <<job, tree, mainMoved, lastId, spawned, candidateFile, decisions>>

AskClose(p, source, then) ==
    /\ Ask(p, Closed(proc[p].exec, source))
    /\ proc' = [proc EXCEPT ![p].at = "closing", ![p].then = then]

\* Preprocessing a model node needs is not available, or nothing could be
\* spawned: a gate that cannot start has failed.
NotDispatched(p) ==
    /\ proc[p].at = "dispatch"
    /\ \/ Role(p) \in Models /\ AskClose(p, "PRE_DISPATCH_FAILURE", "stop")
       \/ Role(p) \in Models /\ AskClose(p, "SPAWN_FAILURE", "stop")
       \/ Role(p) = "GATE" /\ AskClose(p, "SPAWN_FAILURE", "FAIL")
    /\ UNCHANGED <<job, tree, mainMoved, lastId, disk, mem, spawned, candidateFile, decisions>>

\* The child exists; its start is reported to the ledger.
SpawnProcess(p) ==
    /\ proc[p].at = "dispatch"
    /\ spawned' = spawned \cup {proc[p].exec}
    /\ Ask(p, Started(proc[p].exec))
    /\ proc' = Set(p, "at", "starting")
    /\ UNCHANGED <<job, tree, mainMoved, lastId, disk, mem, candidateFile, decisions>>

StartAnswered(p) ==
    /\ proc[p].at = "starting"
    /\ answer[p] # "NONE"
    /\ proc' = [proc EXCEPT ![p].at = "running", ![p].start =
           IF answer[p] = "RECORDED" THEN "RECORDED" ELSE "UNCERTAIN"]
    /\ Hear(p)
    /\ UNCHANGED <<job, tree, mainMoved, lastId, disk, mem, spawned, candidateFile, decisions>>

Edited(newPath) == [tree EXCEPT !.content = @ + 1, !.paths = IF newPath THEN @ + 1 ELSE @]
Committed == [tree EXCEPT !.head = @ + 1, !.committed = tree.content, !.paths = 0]

MayCommit(p) ==
    \/ Role(p) \in Reviewers
    \/ Role(p) \in Implementers /\ (job.type = "MULTI_SUBTASK" \/ "single commit" \in Unchecked)

\* The child at work: implementers edit; a node may also edit or commit against
\* its instructions.
ChildWorks(p) ==
    /\ proc[p].at = "running"
    /\ tree.content < MaxEdits
    /\ \/ Role(p) \in Implementers /\ tree' = Edited(TRUE) /\ UNCHANGED faults
       \/ Role(p) \in Reviewers /\ Fault /\ tree' = Edited(TRUE)
       \/ /\ "hidden edit" \in Unchecked /\ Role(p) \in Reviewers /\ tree.paths > 0
          /\ Fault /\ tree' = Edited(FALSE)
       \/ /\ MayCommit(p) /\ tree.paths > 0 /\ tree.head < MaxId
          /\ Fault /\ tree' = Committed
    /\ UNCHANGED <<lines, terminated, call, scanned, answer>>
    /\ UNCHANGED <<job, mainMoved, lastId, disk, mem, proc, spawned, candidateFile, decisions>>

ResultSourceAlways(p) == "ADAPTER_RESPONSE"

ResultSource(p) ==
    IF proc[p].start # "RECORDED" THEN "IN_PROCESS_ADAPTER_RETURN"
    ELSE "ADAPTER_RESPONSE"

FailureSource(p) == IF proc[p].start = "RECORDED" THEN "RUNNER_EXCEPTION" ELSE "SPAWN_FAILURE"
GateSource(p) == IF proc[p].start = "RECORDED" THEN "CHILD_PROCESS_EXIT" ELSE "SPAWN_FAILURE"

\* The child is done: a structured result, an exception, or a gate's exit code.
ChildEnds(p) ==
    /\ proc[p].at = "running"
    /\ \/ Role(p) \in Models /\ \E o \in {"PASS", "FAIL"} : AskClose(p, ResultSource(p), o)
       \/ Role(p) \in Models /\ AskClose(p, FailureSource(p), "stop")
       \/ Role(p) \in Models /\ "stray error" \in Unchecked /\ AskClose(p, FailureSource(p), "stray")
       \/ Role(p) = "GATE" /\ \E o \in {"PASS", "FAIL"} : AskClose(p, GateSource(p), o)
    /\ UNCHANGED <<job, tree, mainMoved, lastId, disk, mem, spawned, candidateFile, decisions>>

\* The lifecycle row, the answers of the ledger in it, is saved in every case;
\* only a raised WorkflowStop goes to the handler of execute.
CloseAnswered(p) ==
    LET m == mem[p]
        row == [m EXCEPT
            !.started = IF proc[p].start = "RECORDED" THEN @ \cup {proc[p].exec} ELSE @,
            !.closed = IF answer[p] = "RECORDED" THEN @ \cup {proc[p].exec} ELSE @]
    IN
    /\ proc[p].at = "closing"
    /\ answer[p] # "NONE"
    /\ disk' = row
    /\ CASE proc[p].then = "stop" -> Stop(p, "BLOCKED", row)
         [] proc[p].then = "stray" /\ proc[p].kind = "execute" -> Conclude(p, row)
         [] proc[p].then = "stray" /\ proc[p].kind # "execute" -> Stop(p, "BLOCKED", row)
         [] OTHER -> mem' = [mem EXCEPT ![p] = row] /\ proc' = Set(p, "at", "result")
    /\ Hear(p)
    /\ UNCHANGED <<job, tree, mainMoved, lastId, spawned, candidateFile, decisions>>

(***************************************************************************)
(* What the runner makes of a result.                                      *)
(***************************************************************************)

Called(p) == [mem[p] EXCEPT !.telemetry = @ + 1]
Finished(p, role) == proc[p].at = "result" /\ Role(p) = role
jobRest == <<job, tree, mainMoved, lastId, spawned, decisions>>

UsePlan(p) ==
    /\ Finished(p, "PLAN")
    /\ CASE proc[p].then # "PASS" -> Stop(p, proc[p].then, Called(p)) /\ disk' = disk
         [] proc[p].then = "PASS" /\ job.approval = "HUMAN_APPROVAL" ->
              LET waits == [Called(p) EXCEPT !.status = "WAITING_FOR_PLAN_APPROVAL"] IN
              Conclude(p, waits) /\ disk' = waits
         [] OTHER -> Proceed(p, Called(p)) /\ disk' = disk
    /\ UNCHANGED <<ledgerVars, jobRest, candidateFile>>

\* MULTI_STAGE is persisted only: its stages are started by hand.
LeaveStages(p) ==
    /\ proc[p].at = "next"
    /\ Role(p) = "STAGES"
    /\ Conclude(p, [mem[p] EXCEPT !.status = "BLOCKED"])
    /\ disk' = mem'[p]
    /\ UNCHANGED <<ledgerVars, jobRest, candidateFile>>

\* Without a checkpoint commit the task's result is saved here.
UseTask(p) ==
    /\ \E role \in {"SUBTASK", "IMPLEMENT"} : Finished(p, role)
    /\ IF proc[p].then = "PASS"
         THEN /\ Proceed(p, Called(p))
              /\ disk' = IF Role(p) = "IMPLEMENT" THEN Called(p) ELSE disk
         ELSE Stop(p, proc[p].then, Called(p)) /\ disk' = disk
    /\ UNCHANGED <<ledgerVars, jobRest, candidateFile>>

UseGate(p) ==
    /\ Finished(p, "GATE")
    /\ IF proc[p].then = "PASS" THEN Proceed(p, mem[p]) ELSE Stop(p, "FAIL", mem[p])
    /\ UNCHANGED <<ledgerVars, jobRest, disk, candidateFile>>

\* _commit: the provider must not have moved HEAD and must have left changes.
MayCheckpoint(p) == tree.head = proc[p].before.head

RefuseCommit(p) ==
    /\ proc[p].at = "next"
    /\ Role(p) = "COMMIT"
    /\ \/ ~MayCheckpoint(p) /\ Stop(p, "INVALID", mem[p])
       \/ MayCheckpoint(p) /\ tree.paths = 0 /\ Stop(p, "FAIL", mem[p])
    /\ UNCHANGED <<ledgerVars, jobRest, disk, candidateFile>>

CommitTask(p) ==
    /\ proc[p].at = "next"
    /\ Role(p) = "COMMIT"
    /\ MayCheckpoint(p)
    /\ tree.paths > 0 /\ tree.head < MaxId
    /\ tree' = Committed
    /\ mem' = [mem EXCEPT ![p].commits = @ \cup {tree'.head}]
    /\ Ask(p, CommitEvent(tree'.head))
    /\ proc' = Set(p, "at", "recording")
    /\ UNCHANGED <<job, mainMoved, lastId, disk, spawned, candidateFile, decisions>>

\* A commit whose record failed stays in Git and stops the job; only execute
\* saves the recorded one at once.
CommitAnswered(p) ==
    /\ proc[p].at = "recording"
    /\ answer[p] # "NONE"
    /\ IF answer[p] = "RECORDED"
         THEN /\ Proceed(p, mem[p])
              /\ disk' = IF proc[p].kind = "execute" THEN mem[p] ELSE disk
         ELSE Stop(p, "BLOCKED", mem[p]) /\ disk' = disk
    /\ Hear(p)
    /\ UNCHANGED <<jobRest, candidateFile>>

MutatedHead(p) == tree.head # proc[p].before.head

\* A read-only node must leave HEAD and git status as they were.
Mutated(p) == tree.head # proc[p].before.head \/ tree.paths # proc[p].before.paths

Candidate == [head |-> tree.head, content |-> tree.content]

UseReview(p) ==
    LET reviewed == [Called(p) EXCEPT !.review =
            [outcome |-> proc[p].then, head |-> tree.head, content |-> proc[p].before.content]]
    IN
    /\ Finished(p, "REVIEW")
    /\ CASE Mutated(p) -> Stop(p, "INVALID", Called(p)) /\ candidateFile' = candidateFile
         [] ~Mutated(p) /\ proc[p].then = "PASS" ->
              /\ candidateFile' = TRUE
              /\ Conclude(p, [reviewed EXCEPT !.candidate = Candidate, !.status = "WAITING_FOR_HUMAN"])
         [] ~Mutated(p) /\ proc[p].then # "PASS" /\ job.selects ->
              /\ Conclude(p, [reviewed EXCEPT !.status = "WAITING_FOR_REPAIR_SELECTION"])
              /\ candidateFile' = candidateFile
         [] OTHER -> Stop(p, proc[p].then, reviewed) /\ candidateFile' = candidateFile
    /\ UNCHANGED <<ledgerVars, jobRest, disk>>

\* The range the delta review will be shown starts where the repair started.
UseRepair(p) ==
    LET from == IF job.type = "MULTI_SUBTASK" THEN proc[p].before.committed
                                              ELSE proc[p].before.content
    IN
    /\ Finished(p, "REPAIR")
    /\ IF proc[p].then = "PASS" THEN Proceed(p, [Called(p) EXCEPT !.repair = from])
       ELSE Conclude(p, [Called(p) EXCEPT !.status = proc[p].then])
    /\ UNCHANGED <<ledgerVars, jobRest, disk, candidateFile>>

\* create_candidate refuses to replace an earlier artifact.
UseDelta(p) ==
    LET delta == [Called(p) EXCEPT !.delta =
            [outcome |-> proc[p].then, from |-> mem[p].repair, to |-> proc[p].before.content]]
    IN
    /\ Finished(p, "DELTA_REVIEW")
    /\ CASE Mutated(p) ->
              Conclude(p, [delta EXCEPT !.status = "INVALID"]) /\ candidateFile' = candidateFile
         [] ~Mutated(p) /\ proc[p].then # "PASS" ->
              Conclude(p, [delta EXCEPT !.status = proc[p].then]) /\ candidateFile' = candidateFile
         [] ~Mutated(p) /\ proc[p].then = "PASS" /\ candidateFile ->
              Stop(p, "BLOCKED", delta) /\ candidateFile' = candidateFile
         [] OTHER ->
              /\ candidateFile' = TRUE
              /\ Conclude(p, [delta EXCEPT !.candidate = Candidate, !.status = "WAITING_FOR_HUMAN"])
    /\ UNCHANGED <<ledgerVars, jobRest, disk>>

\* The last save, which a moved main checkout prevents.
Finish(p) ==
    /\ proc[p].at = "stopping"
    /\ disk' = IF mainMoved THEN disk ELSE mem[p]
    /\ proc' = Set(p, "at", "over")
    /\ UNCHANGED <<ledgerVars, jobRest, mem, candidateFile>>

(***************************************************************************)
(* The command line: selected_repair and human_verdict.                    *)
(***************************************************************************)

Busy(p) == proc[p].at \notin {"idle", "over"}

\* The operator keeps to one repair cycle and never overlaps two, neither of
\* which the code enforces.
RepairAllowed ==
    \A p \in Clis : proc[p].kind = "repair" => "repair again" \in Unchecked /\ ~Busy(p)

RepairProgram ==
    IF job.type = "MULTI_SUBTASK" THEN <<"REPAIR", "COMMIT", "DELTA_REVIEW">>
                                  ELSE <<"REPAIR", "DELTA_REVIEW">>

StartRepair(p) ==
    /\ p \in Clis
    /\ proc[p].at = "idle"
    /\ disk.status = "WAITING_FOR_REPAIR_SELECTION"
    /\ ~mainMoved
    /\ RepairAllowed
    /\ mem' = [mem EXCEPT ![p] = disk]
    /\ proc' = [proc EXCEPT ![p] =
           [Waiting EXCEPT !.at = "next", !.kind = "repair", !.todo = RepairProgram]]
    /\ UNCHANGED <<ledgerVars, jobRest, disk, candidateFile>>

Verdicts == {"ACCEPTED", "REJECTED", "LEFT_FOR_LATER"}
StatusAfter(verdict) ==
    CASE verdict = "ACCEPTED" -> "READY_FOR_EXTERNAL_INTEGRATION"
      [] verdict = "REJECTED" -> "REJECTED"
      [] verdict = "LEFT_FOR_LATER" -> "WAITING_FOR_HUMAN"

\* The decision artifact is written before its ledger record is asked for.
Decide(p) ==
    /\ p \in Clis
    /\ proc[p].at = "idle"
    /\ disk.status = "WAITING_FOR_HUMAN"
    /\ disk.candidate # None
    /\ Cardinality(decisions) < MaxId
    /\ \E v \in Verdicts :
         LET id == Cardinality(decisions) + 1 IN
         /\ decisions' = decisions \cup {[id |-> id, verdict |-> v]}
         /\ mem' = [mem EXCEPT ![p] = [disk EXCEPT !.verdict = v, !.status = StatusAfter(v)]]
         /\ Ask(p, DecisionEvent(id))
         /\ proc' = [proc EXCEPT ![p].at = "deciding", ![p].kind = "verdict", ![p].exec = id]
    /\ UNCHANGED <<job, tree, mainMoved, lastId, disk, spawned, candidateFile>>

DecisionAnswered(p) ==
    /\ proc[p].at = "deciding"
    /\ answer[p] # "NONE"
    /\ disk' = IF answer[p] = "RECORDED" THEN mem[p] ELSE disk
    /\ proc' = Set(p, "at", "over")
    /\ Hear(p)
    /\ UNCHANGED <<jobRest, mem, candidateFile>>

ProcessDies(p) ==
    /\ Busy(p)
    /\ WriterDies(p)
    /\ proc' = Set(p, "at", "over")
    /\ UNCHANGED <<jobRest, disk, mem, candidateFile>>

MainMoves ==
    /\ ~mainMoved
    /\ Fault
    /\ mainMoved' = TRUE
    /\ UNCHANGED <<lines, terminated, call, scanned, answer>>
    /\ UNCHANGED <<job, tree, lastId, disk, mem, proc, spawned, candidateFile, decisions>>

Invoke(p) ==
    \/ RefuseInvocation(p)
    \/ AllocateExecution(p)
    \/ IntentAnswered(p)
    \/ NotDispatched(p)
    \/ SpawnProcess(p)
    \/ StartAnswered(p)
    \/ ChildWorks(p)
    \/ ChildEnds(p)
    \/ CloseAnswered(p)

Advance(p) ==
    \/ UsePlan(p)
    \/ LeaveStages(p)
    \/ UseTask(p)
    \/ UseGate(p)
    \/ RefuseCommit(p)
    \/ CommitTask(p)
    \/ CommitAnswered(p)
    \/ UseReview(p)
    \/ UseRepair(p)
    \/ UseDelta(p)
    \/ Finish(p)
    \/ StartRepair(p)
    \/ Decide(p)
    \/ DecisionAnswered(p)
    \/ ProcessDies(p)

Next ==
    \/ \E p \in Processes : Invoke(p) \/ Advance(p) \/ (LedgerStep(p) /\ UNCHANGED jobVars)
    \/ MainMoves

Spec == Init /\ [][Next]_vars

-----------------------------------------------------------------------------
(* Properties.                                                             *)

\* Every variable has its type; a process waits for the ledger exactly where
\* the code does.
TypeOK ==
    /\ LedgerTypeOK
    /\ job \in Shapes
    /\ tree \in [head : 0..MaxId, committed : 0..MaxId, content : 0..MaxId, paths : 0..MaxId]
    /\ disk.status \in Statuses
    /\ disk.known \subseteq 1..lastId
    /\ spawned \subseteq 1..lastId
    /\ \A p \in Processes :
         (call[p] # None \/ answer[p] # "NONE")
             <=> proc[p].at \in {"intent", "starting", "closing", "recording", "deciding"}

\* The shape validate_events asks of a ledger, kept through failed and torn
\* writes: one intent per execution, starts and closes only after it, and a
\* close that no start precedes says so in its source.
LedgerValid ==
    LET events == Readable IN
    \A i \in DOMAIN events :
        LET e == events[i].event
            Earlier(type) == \E j \in 1..(i - 1) :
                events[j].event.type = type /\ events[j].event.id = e.id
        IN  CASE e.type = "EXECUTION_INTENT" -> ~Earlier("EXECUTION_INTENT")
              [] e.type = "EXECUTION_STARTED" -> Earlier("EXECUTION_INTENT")
              [] e.type = "EXECUTION_CLOSED" ->
                   /\ Earlier("EXECUTION_INTENT")
                   /\ ~Earlier("EXECUTION_CLOSED")
                   /\ Earlier("EXECUTION_STARTED") \/ e.source \in WithoutStart
              [] OTHER -> TRUE

\* Ids the ledger holds an event of this type for.
EventsOf(type) ==
    {l.event.id : l \in {k \in Range(lines) : k # Torn /\ k.event.type = type}}

\* What the job's files claim, the ledger holds: every started process, every
\* row of the job's state and every verdict in it has its event.
NothingUnrecorded ==
    /\ spawned \subseteq EventsOf("EXECUTION_INTENT")
    /\ disk.known \subseteq EventsOf("EXECUTION_INTENT")
    /\ disk.started \subseteq EventsOf("EXECUTION_STARTED")
    /\ disk.closed \subseteq EventsOf("EXECUTION_CLOSED")
    /\ disk.verdict # None =>
         \E d \in decisions : d.verdict = disk.verdict /\ d.id \in EventsOf("HUMAN_DECISION_RECORDED")

\* What is offered to the human was seen: the content of the candidate is what
\* the review passed, or what it saw plus the range a delta review passed, and
\* every commit up to it is a checkpoint the runner made and recorded.
CandidateWhole ==
    disk.candidate # None =>
        /\ IF disk.review.outcome = "PASS" THEN disk.candidate.content = disk.review.content
           ELSE /\ disk.delta.outcome = "PASS"
                /\ disk.delta.from <= disk.review.content
                /\ disk.delta.to = disk.candidate.content
        /\ 1..disk.candidate.head \subseteq disk.commits \cap EventsOf("COMMIT_RECORDED")
=============================================================================
