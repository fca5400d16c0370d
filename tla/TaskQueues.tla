----------------------------- MODULE TaskQueues -----------------------------
(***************************************************************************)
(* CONTROL_CENTER/aaw_control_center.py: the task queues of the Control    *)
(* Center, QueueStore and the queue methods of class ControlCenter.        *)
(*                                                                         *)
(* The user interface runs one callback at a time: what the operator       *)
(* presses, an event of a supervising thread, or the poll.  A thread per   *)
(* task spawns the runner's process and posts two events, that it started  *)
(* and how it ended.  The documents of the queues are saved with every     *)
(* change, and read back when the program starts and when the Home page is *)
(* shown.  Closing the program loses its threads, events and dialogs; the  *)
(* processes go on.                                                        *)
(*                                                                         *)
(* The modes of a task (single, workflow, custom job) differ in the        *)
(* command line alone and are left out; so are the views.                  *)
(***************************************************************************)
EXTENDS Naturals, FiniteSets, SequencesExt

CONSTANTS
  Tasks, NoTask,
  Order,        \* the queues, in the order of the dictionary queue_docs
  QueueOf,      \* the queue each task is in or is added to
  Backlog,      \* the tasks each queue has at first
  Worktree,     \* of each task; a blank one is ""
  AutoContinue, \* of each queue
  Unready,      \* tasks whose profile or spec may be found unavailable
  Pids, NoPid,
  Limits,       \* what max_simultaneous_active_queues may be set to
  MaxActs,      \* bound: what the operator does
  MaxRestarts   \* bound: times the program is closed

Queues == ToSet(Order)

ASSUME QueueAssumption ==
  /\ Order \in Seq(Queues) /\ IsInjective(Order) /\ IsFiniteSet(Tasks) /\ NoTask \notin Tasks
  /\ QueueOf \in [Tasks -> Queues] /\ Worktree \in [Tasks -> STRING]
  /\ Backlog \in [Queues -> Seq(Tasks)] /\ AutoContinue \in [Queues -> BOOLEAN]
  /\ \A q \in Queues : \A t \in ToSet(Backlog[q]) : QueueOf[t] = q
  /\ Unready \subseteq Tasks /\ NoPid \notin Pids
  /\ Limits \subseteq 1..3
  /\ MaxActs \in Nat /\ MaxRestarts \in Nat

VARIABLES
  up,        \* is the program open?
  queue,     \* the status of each queue and its pause_after_current
  tasks,     \* the tasks of each queue, in the order of their positions
  task,      \* the status and the process_pid of each task
  unsaved,   \* tasks that are WAITING in memory and INTERRUPTED on disk
  maximum,   \* max_simultaneous_active_queues
  jobs,      \* threads that have yet to spawn and processes that run
  events,    \* what the threads have posted
  dialogs,   \* open Human Gate dialogs, by the task they were opened for
  gate,      \* the task of workflow_human_run_id, which every dialog decides
  acts, restarts,
  stopped,   \* history: queues not to go on before the operator says so
  excused    \* history: queues that hold a process the guards do not see

book == <<queue, tasks, task, unsaved>>
desk == <<dialogs, gate>>
world == <<jobs, events>>
history == <<stopped, excused>>
queueVars == <<up, book, desk, world, maximum, acts, restarts, history>>

QueueStatuses == {"IDLE", "RUNNING", "WAITING", "WAITING_FOR_HUMAN", "PAUSED",
                  "BLOCKED", "COMPLETED"}
\* INVALID and WORKFLOW_LIMIT_REACHED are filed as BLOCKED.
Results == {"PASS", "FAIL", "CANCELLED", "BLOCKED", "WAITING_FOR_HUMAN"}
TaskStatuses == Results \cup {"NEW", "WAITING", "RUNNING", "INTERRUPTED", "DELETED"}
JobIds == 1..(Cardinality(Tasks) + MaxActs)

\* The shapes of the state.
QueueTypeOK ==
  /\ up \in BOOLEAN
  /\ queue \in [Queues -> [status : QueueStatuses, pause : BOOLEAN]]
  /\ tasks \in [Queues -> Seq(Tasks)]
  /\ task \in [Tasks -> [status : TaskStatuses, pid : Pids \cup {NoPid}]]
  /\ unsaved \subseteq Tasks
  /\ maximum \in Limits
  /\ jobs \subseteq [id : JobIds, task : Tasks, pid : Pids \cup {NoPid},
                     watched : BOOLEAN]
  /\ \A e \in ToSet(events) :
       e \in [task : Tasks, pid : Pids] \cup [task : Tasks, result : Results]
  /\ dialogs \subseteq Tasks /\ gate \in Tasks \cup {NoTask}
  /\ acts \in 0..MaxActs /\ restarts \in 0..MaxRestarts
  /\ stopped \subseteq Queues /\ excused \subseteq Queues

QueueInit ==
  /\ up = TRUE
  /\ queue = [q \in Queues |-> [status |-> "IDLE", pause |-> FALSE]]
  /\ tasks = Backlog
  /\ task = [t \in Tasks |->
       [status |-> IF t \in ToSet(Backlog[QueueOf[t]]) THEN "WAITING" ELSE "NEW",
        pid |-> NoPid]]
  /\ unsaved = {} /\ maximum \in Limits
  /\ jobs = {} /\ events = <<>> /\ dialogs = {} /\ gate = NoTask
  /\ acts = 0 /\ restarts = 0 /\ stopped = {} /\ excused = {}
-----------------------------------------------------------------------------
(* Processes and their threads.                                            *)

\* Mutant: a process that was never reported is taken to run.
exists_unless_reported_dead(pid) == pid = NoPid \/ \E j \in jobs : j.pid = pid

process_exists(pid) == pid # NoPid /\ \E j \in jobs : j.pid = pid

IsComplete(e) == "result" \in DOMAIN e

\* Has a thread or a process of this queue more to say?
Open(q, js, es) ==
  \/ \E j \in js : QueueOf[j.task] = q
  \/ \E e \in ToSet(es) : IsComplete(e) /\ QueueOf[e.task] = q

\* A thread for task t, as threading.Thread(...).start() leaves it.
Launch(js, t) ==
  LET free == JobIds \ {j.id : j \in js}
      id == CHOOSE i \in free : \A k \in free : i <= k
  IN js \cup {[id |-> id, task |-> t, pid |-> NoPid, watched |-> TRUE]}

\* What the step adds to the excuses, which last as long as the queue has a
\* process they are about.
Excuse(qs) == excused' = {q \in excused \cup qs : Open(q, jobs', events')}

Spawn(j) ==
  /\ j.pid = NoPid
  /\ \/ \E p \in Pids :
          /\ ~process_exists(p)
          /\ jobs' = (jobs \ {j}) \cup {[j EXCEPT !.pid = p]}
          /\ events' = Append(events, [task |-> j.task, pid |-> p])
     \/ /\ jobs' = jobs \ {j}
        /\ events' = Append(events, [task |-> j.task, result |-> "BLOCKED"])
  /\ Excuse({})
  /\ UNCHANGED <<up, book, desk, maximum, acts, restarts, stopped>>

\* The process ends; its thread, if there still is one, posts how.
Exit(j) ==
  /\ j.pid # NoPid
  /\ jobs' = jobs \ {j}
  /\ \/ /\ j.watched
        /\ \E r \in Results : events' = Append(events, [task |-> j.task, result |-> r])
     \/ ~j.watched /\ UNCHANGED events
  /\ Excuse({})
  /\ UNCHANGED <<up, book, desk, maximum, acts, restarts, stopped>>
-----------------------------------------------------------------------------
(* The documents, as a record that the methods pass on.                    *)

Docs == [queue |-> queue, task |-> task, jobs |-> jobs]

Settle(docs) ==
  /\ queue' = docs.queue /\ task' = docs.task /\ jobs' = docs.jobs

SetStatus(docs, q, s) == [docs EXCEPT !.queue[q].status = s]

active_queue_count(docs) == Cardinality({q \in Queues : docs.queue[q].status = "RUNNING"})

\* _worktree_in_use: does a task of another queue run there?  A task without a
\* worktree, which runs in the repository, is never held back.
worktree_in_use(docs, q, t) ==
  /\ Worktree[t] # ""
  /\ \E o \in Queues \ {q} : \E u \in ToSet(tasks[o]) :
       docs.task[u].status = "RUNNING" /\ Worktree[u] = Worktree[t]

NextWaiting(docs, q) ==
  SelectInSeq(tasks[q], LAMBDA t : docs.task[t].status = "WAITING")

Dispatch(docs, q, t) ==
  [queue |-> [docs.queue EXCEPT ![q] = [status |-> "RUNNING", pause |-> FALSE]],
   task  |-> [docs.task EXCEPT ![t] = [status |-> "RUNNING", pid |-> NoPid]],
   jobs  |-> Launch(docs.jobs, t)]

\* _start_queue, when the tasks in bad are found not to be runnable.
StartQueue(docs, q, bad) ==
  LET i == NextWaiting(docs, q)
      t == tasks[q][i]
      done == tasks[q] # <<>> /\ \A u \in ToSet(tasks[q]) : docs.task[u].status = "PASS"
  IN CASE docs.queue[q].status = "RUNNING" -> docs
       [] docs.queue[q].status # "RUNNING" /\ active_queue_count(docs) >= maximum' ->
            SetStatus(docs, q, "WAITING")
       [] OTHER ->
            IF i = 0 THEN SetStatus(docs, q, IF done THEN "COMPLETED" ELSE "PAUSED")
            ELSE IF worktree_in_use(docs, q, t) THEN SetStatus(docs, q, "WAITING")
            ELSE IF t \in bad
            THEN [SetStatus(docs, q, "BLOCKED") EXCEPT !.task[t].status = "BLOCKED"]
            ELSE Dispatch(docs, q, t)

\* Mutant: a completion leaves the waiting queues alone.
StartNone(docs, bad) == docs

\* _start_waiting_queues: at the limit StartQueue leaves a WAITING queue as it is.
StartWaiting(docs, bad) ==
  LET after[i \in 0..Len(Order)] ==
        IF i = 0 THEN docs
        ELSE IF after[i - 1].queue[Order[i]].status = "WAITING"
             THEN StartQueue(after[i - 1], Order[i], bad)
             ELSE after[i - 1]
  IN after[Len(Order)]

Saved(qs) == unsaved' = {t \in unsaved : QueueOf[t] \notin qs}
Touched(docs) == {q \in Queues : docs.queue[q] # queue[q]}
-----------------------------------------------------------------------------
(* What the operator does.                                                 *)

Act == /\ up /\ acts < MaxActs
       /\ acts' = acts + 1 /\ UNCHANGED <<up, restarts>>

Start(q) ==
  /\ Act /\ queue[q].status # "RUNNING"
  /\ UNCHANGED maximum
  /\ \E bad \in SUBSET Unready : Settle(StartQueue(Docs, q, bad))
  /\ Saved({q}) /\ stopped' = stopped \ {q}
  /\ UNCHANGED <<tasks, events, desk>> /\ Excuse({})

Interrupted(q) == SelectInSeq(tasks[q], LAMBDA t : task[t].status = "INTERRUPTED")

\* resume_selected_queue: the interrupted task, if the operator agrees, is
\* reset; a task that stopped refuses the rest, before anything is saved.
Resume(q) ==
  /\ Act /\ queue[q].status # "RUNNING"
  /\ UNCHANGED maximum
  /\ LET i == Interrupted(q)
         reset == IF i = 0 THEN Docs
                  ELSE [Docs EXCEPT !.task[tasks[q][i]].status = "WAITING"]
         refused == \E t \in ToSet(tasks[q]) :
                      reset.task[t].status \in {"FAIL", "BLOCKED", "WAITING_FOR_HUMAN"}
     IN \/ /\ refused /\ i # 0
           /\ Settle(reset) /\ unsaved' = unsaved \cup {tasks[q][i]}
           /\ UNCHANGED stopped
        \/ /\ ~refused
           /\ \E bad \in SUBSET Unready :
                Settle(StartQueue(SetStatus(reset, q, "IDLE"), q, bad))
           /\ Saved({q}) /\ stopped' = stopped \ {q}
  /\ UNCHANGED <<tasks, events, desk>> /\ Excuse({})

Pause(q) ==
  /\ Act
  /\ queue' = [queue EXCEPT ![q] = IF @.status = "RUNNING" THEN [@ EXCEPT !.pause = TRUE]
                                   ELSE [@ EXCEPT !.status = "PAUSED"]]
  /\ Saved({q}) /\ stopped' = stopped \cup {q}
  /\ UNCHANGED <<tasks, task, world, desk, maximum, excused>>

AddTask(t) ==
  LET q == QueueOf[t] IN
  /\ Act /\ task[t].status = "NEW"
  /\ task' = [task EXCEPT ![t].status = "WAITING"]
  /\ tasks' = [tasks EXCEPT ![q] = Append(@, t)]
  /\ queue' = [queue EXCEPT ![q].status = IF @ = "COMPLETED" THEN "IDLE" ELSE @]
  /\ Saved({q})
  /\ UNCHANGED <<world, desk, maximum, history>>

DeleteWaiting(t) ==
  LET q == QueueOf[t] IN
  /\ Act /\ task[t].status = "WAITING"
  /\ \E i \in DOMAIN tasks[q] :
       tasks[q][i] = t /\ tasks' = [tasks EXCEPT ![q] = RemoveAt(@, i)]
  /\ task' = [task EXCEPT ![t].status = "DELETED"]
  /\ Saved({q})
  /\ UNCHANGED <<queue, world, desk, maximum, history>>

\* reorder: the task at position i and the next change places.
Reorder(q, i) ==
  /\ Act /\ i \in 1..(Len(tasks[q]) - 1)
  /\ \A k \in {i, i + 1} : task[tasks[q][k]].status # "RUNNING"
  /\ tasks' = [tasks EXCEPT ![q][i] = tasks[q][i + 1], ![q][i + 1] = tasks[q][i]]
  /\ Saved({q})
  /\ UNCHANGED <<queue, task, world, desk, maximum, history>>

SaveSettings(m) ==
  /\ Act /\ maximum # m /\ maximum' = m
  /\ \E bad \in SUBSET Unready :
       LET docs == StartWaiting(Docs, bad) IN Settle(docs) /\ Saved(Touched(docs))
  /\ UNCHANGED <<tasks, events, desk, stopped>> /\ Excuse({})

\* A verdict in the dialog of task d: workflow_verdict and
\* _mark_queue_resume_running act on the run of workflow_human_run_id.
Verdict(d) ==
  LET t == gate
      q == QueueOf[t] IN
  /\ Act /\ d \in dialogs /\ gate # NoTask
  /\ dialogs' = dialogs \ {d} /\ UNCHANGED <<gate, maximum, tasks, events>>
  /\ jobs' = Launch(jobs, t)
  /\ IF t \in ToSet(tasks[q])
     THEN /\ task' = [task EXCEPT ![t] = [status |-> "RUNNING", pid |-> NoPid]]
          /\ queue' = [queue EXCEPT ![q].status = "RUNNING"]
          /\ Saved({q})
     ELSE UNCHANGED <<task, queue, unsaved>>
  /\ stopped' = stopped \ {q} /\ Excuse({q})

\* load_all(recover = TRUE): from what the disk says.
Reload ==
  LET OnDisk(t) == IF t \in unsaved THEN "INTERRUPTED" ELSE task[t].status
      Lost(t) == OnDisk(t) = "RUNNING" /\ ~process_exists(task[t].pid)
      hit == {q \in Queues : \/ queue[q].status = "RUNNING"
                             \/ \E t \in ToSet(tasks[q]) : Lost(t)}
  IN /\ task' = [t \in Tasks |->
           [task[t] EXCEPT !.status =
              IF t \in ToSet(tasks[QueueOf[t]]) /\ Lost(t) THEN "INTERRUPTED" ELSE OnDisk(t)]]
     /\ queue' = [q \in Queues |->
           IF q \in hit THEN [queue[q] EXCEPT !.status = "PAUSED"] ELSE queue[q]]
     /\ unsaved' = {}
     /\ stopped' = stopped \cup hit
     /\ UNCHANGED <<tasks, maximum, world, desk>>
     /\ Excuse(hit)

ShowHome ==
  Act /\ Reload

\* The program is closed, or dies: its threads, events and dialogs go.
Close ==
  /\ up /\ restarts < MaxRestarts
  /\ up' = FALSE /\ restarts' = restarts + 1
  /\ jobs' = {[j EXCEPT !.watched = FALSE] : j \in {k \in jobs : k.pid # NoPid}}
  /\ events' = <<>> /\ dialogs' = {} /\ gate' = NoTask
  /\ Excuse({})
  /\ UNCHANGED <<book, maximum, acts, stopped>>

Reopen ==
  /\ ~up /\ up' = TRUE
  /\ Reload
  /\ UNCHANGED <<acts, restarts>>
-----------------------------------------------------------------------------
(* What the program does by itself.                                        *)

\* _queue_process_started.
Started(e) ==
  /\ task' = IF e.task \in ToSet(tasks[QueueOf[e.task]]) /\ task[e.task].status = "RUNNING"
             THEN [task EXCEPT ![e.task].pid = e.pid] ELSE task
  /\ IF task' # task THEN Saved({QueueOf[e.task]}) ELSE UNCHANGED unsaved
  /\ UNCHANGED <<queue, jobs, desk, stopped>>

\* Mutant: the request to pause is forgotten.
decision_unpaused(q, result, docs) ==
  CASE result = "WAITING_FOR_HUMAN" -> <<"WAITING_FOR_HUMAN", FALSE>>
    [] result = "BLOCKED" -> <<"BLOCKED", FALSE>>
    [] result \in {"FAIL", "CANCELLED"} -> <<"PAUSED", FALSE>>
    [] result = "PASS" /\ ~AutoContinue[q] -> <<"IDLE", FALSE>>
    [] result = "PASS" /\ AutoContinue[q] ->
         IF NextWaiting(docs, q) # 0 THEN <<"IDLE", TRUE>> ELSE <<"COMPLETED", FALSE>>

\* queue_decision: the status of the queue, and whether it goes on.
queue_decision(q, result, docs) ==
  CASE result = "WAITING_FOR_HUMAN" -> <<"WAITING_FOR_HUMAN", FALSE>>
    [] result = "BLOCKED" -> <<"BLOCKED", FALSE>>
    [] result \in {"FAIL", "CANCELLED"} -> <<"PAUSED", FALSE>>
    [] result = "PASS" /\ (queue[q].pause \/ ~AutoContinue[q]) -> <<"IDLE", FALSE>>
    [] result = "PASS" /\ ~queue[q].pause /\ AutoContinue[q] ->
         IF NextWaiting(docs, q) # 0 THEN <<"IDLE", TRUE>> ELSE <<"COMPLETED", FALSE>>

\* _on_queue_task_complete, for a task that is still in its queue.
Completed(e) ==
  LET t == e.task
      q == QueueOf[t]
      told == [Docs EXCEPT !.task[t] = [status |-> e.result, pid |-> NoPid]]
      decision == queue_decision(q, e.result, told)
      shown == [told EXCEPT !.queue[q] = [status |-> decision[1], pause |-> FALSE]]
  IN /\ \E bad \in SUBSET Unready :
          LET next == IF decision[2] THEN StartQueue(shown, q, bad) ELSE shown
              docs == StartWaiting(next, bad)
          IN Settle(docs) /\ Saved({q} \cup Touched(docs))
     /\ IF e.result = "WAITING_FOR_HUMAN"
        THEN dialogs' = dialogs \cup {t} /\ gate' = t
        ELSE UNCHANGED desk
     /\ stopped' = IF e.result # "PASS" THEN stopped \cup {q}
                   ELSE IF q \in excused THEN stopped \ {q} ELSE stopped

\* _drain_events takes the next event.
Drain ==
  /\ up /\ events # <<>> /\ events' = Tail(events)
  /\ UNCHANGED <<up, tasks, maximum, acts, restarts>>
  /\ LET e == Head(events) IN
       \/ ~IsComplete(e) /\ Started(e)
       \/ /\ IsComplete(e)
          /\ IF e.task \in ToSet(tasks[QueueOf[e.task]]) THEN Completed(e)
             ELSE UNCHANGED <<book, jobs, desk, stopped>>
  /\ Excuse({})

\* _recover_queue_processes, by the poll.
Poll ==
  LET gone == {t \in Tasks : /\ t \in ToSet(tasks[QueueOf[t]])
                             /\ task[t].status = "RUNNING" /\ task[t].pid # NoPid
                             /\ ~process_exists(task[t].pid)}
      hit == {QueueOf[t] : t \in gone}
  IN /\ up /\ gone # {}
     /\ task' = [t \in Tasks |->
          IF t \in gone THEN [status |-> "INTERRUPTED", pid |-> NoPid] ELSE task[t]]
     /\ queue' = [q \in Queues |->
          IF q \in hit THEN [queue[q] EXCEPT !.status = "PAUSED"] ELSE queue[q]]
     /\ Saved(hit) /\ stopped' = stopped \cup hit
     /\ UNCHANGED <<up, tasks, desk, world, maximum, acts, restarts>>
     /\ Excuse(hit)

OperatorActs ==
  \/ \E q \in Queues : Start(q) \/ Resume(q) \/ Pause(q)
  \/ \E t \in Tasks : AddTask(t) \/ DeleteWaiting(t) \/ Verdict(t)
  \/ \E q \in Queues : \E i \in 1..Cardinality(Tasks) : Reorder(q, i)
  \/ \E m \in Limits : SaveSettings(m)
  \/ ShowHome

Process == \E j \in jobs : Spawn(j) \/ Exit(j)

QueueNext == OperatorActs \/ Close \/ Reopen \/ Process \/ Drain \/ Poll

QueueSpec == QueueInit /\ [][QueueNext]_queueVars

\* Threads run, runners end (each call they make has a timeout), the timers of
\* the user interface fire, and a closed program is opened again.  Only Drain
\* takes the head off the events: its fairness is that of the shorter action.
Take == up /\ events # <<>> /\ events' = Tail(events)

FairSpec ==
  QueueSpec /\ WF_queueVars(Process) /\ WF_events(Take) /\ WF_queueVars(Poll) /\ WF_queueVars(Reopen)
-----------------------------------------------------------------------------
\* A queue that failed, was interrupted, waits for a human or was paused
\* starts no further task before the operator says so, whichever completion
\* or setting lets waiting queues start (queue_decision, _start_waiting_queues).
\* Only the PASS of an excused queue's lost process lets it go on unasked.
OnlyPassContinues ==
  [][\A t \in Tasks : task[t].status # "RUNNING" /\ task'[t].status = "RUNNING"
       => QueueOf[t] \notin stopped']_queueVars

\* No task stays RUNNING: its thread reports, or the poll or a reload finds
\* that its process has ended, through any number of restarts.
RunningSettles ==
  \A t \in Tasks : task[t].status = "RUNNING" ~> task[t].status # "RUNNING"

\* Does a thread of this session have a completion of t to report, or done so?
Reporting(t) ==
  \/ \E j \in jobs : j.task = t /\ j.watched
  \/ \E e \in ToSet(events) : e.task = t /\ IsComplete(e)

Listed(t) == t \in ToSet(tasks[QueueOf[t]])

HeldBack(q) ==
  /\ up /\ queue[q].status = "WAITING"
  /\ \E t \in Tasks : Listed(t) /\ Reporting(t)
  /\ \A t \in Tasks : task[t].status = "RUNNING" => Reporting(t)

\* A queue held back by the limit or for a worktree is taken up again by one of
\* the completions that are still to come, however tasks are interrupted, reset
\* and started again meanwhile.  Three things may take that away: the program
\* is closed; a running task is one of its last session, of whose end only the
\* poll hears; and a task is deleted before its completion comes, which is then
\* dropped (_on_queue_task_complete returns before _start_waiting_queues).
HeldQueueStarts ==
  \A q \in Queues :
    HeldBack(q) ~> \/ queue[q].status # "WAITING"
                   \/ ~up
                   \/ \E t \in Tasks : Reporting(t) /\ ~Listed(t)
=============================================================================
