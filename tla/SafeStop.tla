------------------------------ MODULE SafeStop ------------------------------
(***************************************************************************)
(* STOP in a product worker: run_cancellation.CancellationToken,           *)
(* product_runs.ProductStopToken and the two threads that share it.        *)
(*                                                                         *)
(* The main thread runs the controller's loop: a phase boundary, then the  *)
(* calls of a phase, each of which spawns one provider process and waits   *)
(* for it (workflow_runner.run_process).  The watcher thread polls         *)
(* stop_request.json and carries a request out.  Every read or write of    *)
(* what they share (the flag, the pause, the set of registered processes,  *)
(* state["in_flight"]) is a step of its own.                               *)
(*                                                                         *)
(* A phase is what the token tells apart: a read-only phase may be cut     *)
(* short, EXECUTE and REPAIR and the one-shot initial architect may not.   *)
(***************************************************************************)
EXTENDS Naturals

CONSTANTS
  MaxStops,   \* bound: stop requests made to one task
  MaxCalls    \* calls of one phase: retries, failovers, a repair's diagnosis

ASSUME StopAssumption == MaxStops \in Nat /\ MaxCalls \in Nat \ {0}

VARIABLES
  stop,      \* stop_request.json, or NoStop
  stops,     \* how many requests were made: it numbers them (requested_at)
  pc,        \* the main thread; "off" when no worker process exists
  phase,     \* the phase the controller takes up next (state["phase"])
  calls,     \* calls the phase has begun
  flight,    \* state["in_flight"]: the kind of the call, or "none"
  child,     \* the provider process of the call
  tracked,   \* is the process in the token's set?
  pause,     \* token._pause: "none", "safe" or "force"
  requested, \* token._requested
  watch,     \* the watcher thread
  seen,      \* the number of the last request it took up
  order,     \* the mode of that request
  doomed,    \* request() found a registered process to terminate
  forced,    \* history: was this token ever told FORCE?
  slain      \* history: kinds of calls whose process this token terminated

main    == <<pc, phase, calls, flight>>
process == <<child, slain>>
token   == <<tracked, pause, requested, forced>>
watcher == <<watch, seen, order, doomed>>
workerVars == <<main, process, token, watcher>>
stopVars   == <<stop, stops>>

Kinds == {"oneshot", "read", "effect"}
NoStop == [n |-> 0, force |-> FALSE]

SafeStopTypeOK ==
  /\ stops \in 0..MaxStops
  /\ stop \in [n : 0..MaxStops, force : BOOLEAN]
  /\ pc \in {"off", "boundary", "call", "gate", "spawn", "track", "wait",
             "landed", "close", "leaving", "exiting", "dying"}
  /\ phase \in Kinds
  /\ calls \in 0..MaxCalls
  /\ flight \in Kinds \cup {"none"}
  /\ child \in {"none", "alive", "dead"}
  /\ tracked \in BOOLEAN /\ requested \in BOOLEAN
  /\ doomed \in BOOLEAN /\ forced \in BOOLEAN
  /\ pause \in {"none", "safe", "force"}
  /\ watch \in {"poll", "pause", "look", "request", "kill"}
  /\ seen \in 0..MaxStops
  /\ order \in {"safe", "force"}
  /\ slain \subseteq Kinds

\* A worker process with a new token; nothing of an earlier token survives.
FreshToken ==
  /\ tracked' = FALSE /\ requested' = FALSE /\ doomed' = FALSE
  /\ pause' = "none" /\ watch' = "poll" /\ seen' = 0 /\ order' = "safe"
  /\ child' = "none" /\ forced' = FALSE /\ slain' = {}

SafeStopInit ==
  /\ stop = NoStop /\ stops = 0
  /\ pc = "off" /\ phase = "oneshot" /\ calls = 0 /\ flight = "none" /\ child = "none"
  /\ tracked = FALSE /\ requested = FALSE /\ doomed = FALSE
  /\ pause = "none" /\ watch = "poll" /\ seen = 0 /\ order = "safe"
  /\ forced = FALSE /\ slain = {}

Goto(where) == pc' = where

-----------------------------------------------------------------------------
(* What a request may cut short *)

\* _interruptible: nothing in flight, EXECUTE, REPAIR and the initial planner
\* are not.
Interruptible(f) == f = "read"

\* raise_if_requested at a phase boundary, before a spawn, and elsewhere.
RaisesAtBoundary == pause # "none" \/ requested
RaisesBeforeSpawn == requested \/ (pause # "none" /\ Interruptible(flight))
RaisesElsewhere == requested

-----------------------------------------------------------------------------
(* The main thread *)

\* Mutant: a stop is looked for before a spawn only.
BoundaryNeverPauses ==
  /\ pc = "boundary"
  /\ Goto("call")
  /\ UNCHANGED <<phase, calls, flight, process, token, watcher>>

\* run: the phase boundary.  A pause ends the run with the phase persisted.
Boundary ==
  /\ pc = "boundary"
  /\ Goto(IF RaisesAtBoundary THEN "leaving" ELSE "call")
  /\ UNCHANGED <<phase, calls, flight, process, token, watcher>>

\* _call_once puts the call in flight and saves, before anything is spawned.
BeginCall ==
  /\ pc = "call"
  /\ flight' = phase /\ calls' = calls + 1
  /\ Goto("gate")
  /\ UNCHANGED <<phase, process, token, watcher>>

\* run_process: before_spawn.  RunCancelled leaves in_flight for resume.
Gate ==
  /\ pc = "gate"
  /\ Goto(IF RaisesBeforeSpawn THEN "leaving" ELSE "spawn")
  /\ UNCHANGED <<phase, calls, flight, process, token, watcher>>

Spawn ==
  /\ pc = "spawn"
  /\ child' = "alive"
  /\ Goto("track")
  /\ UNCHANGED <<phase, calls, flight, slain, token, watcher>>

\* Mutant: register does not look at the flag.
RegisterAlways ==
  /\ pc = "track"
  /\ tracked' = TRUE
  /\ Goto("wait")
  /\ UNCHANGED <<phase, calls, flight, pause, requested, forced, process, watcher>>

\* track and register: the process joins the set, or cancellation has won the
\* race and the process is stopped here.
Track ==
  /\ pc = "track"
  /\ \/ /\ ~requested
        /\ tracked' = TRUE
        /\ Goto("wait")
        /\ UNCHANGED process
     \/ /\ requested
        /\ slain' = IF child = "alive" THEN slain \cup {flight} ELSE slain
        /\ child' = "none"
        /\ Goto("leaving")
        /\ UNCHANGED tracked
  /\ UNCHANGED <<phase, calls, flight, pause, requested, forced, watcher>>

\* The provider finishes, or its timeout kills it.
ChildExits ==
  /\ child = "alive"
  /\ child' = "dead"
  /\ UNCHANGED <<slain, main, token, watcher>>

\* The wait ends and track unregisters the process.
Reap ==
  /\ pc = "wait" /\ child = "dead"
  /\ child' = "none" /\ tracked' = FALSE
  /\ Goto("landed")
  /\ UNCHANGED <<phase, calls, flight, pause, requested, forced, slain, watcher>>

\* run_process: after_child.
Landed ==
  /\ pc = "landed"
  /\ Goto(IF RaisesElsewhere THEN "leaving" ELSE "close")
  /\ UNCHANGED <<phase, calls, flight, process, token, watcher>>

\* The call is over: another one of the phase (a retry, a failover, the
\* repair after its diagnosis), or the next phase.
CallAgain ==
  /\ pc = "close" /\ calls < MaxCalls
  /\ flight' = "none"
  /\ Goto("call")
  /\ UNCHANGED <<phase, calls, process, token, watcher>>

NextPhase(k) ==
  /\ pc = "close"
  /\ flight' = "none" /\ phase' = k /\ calls' = 0
  /\ Goto("boundary")
  /\ UNCHANGED <<process, token, watcher>>

MainSteps == Boundary \/ BeginCall \/ Gate \/ Spawn \/ Track \/ Reap \/ Landed

-----------------------------------------------------------------------------
(* The watcher thread; it ends with finished.set() *)

Watching == pc \notin {"off", "exiting", "dying"}

\* watch: a request it has not seen (they differ in requested_at or force).
Poll ==
  /\ Watching /\ watch = "poll"
  /\ stop # NoStop /\ stop.n # seen
  /\ seen' = stop.n
  /\ order' = IF stop.force THEN "force" ELSE "safe"
  /\ watch' = "pause"
  /\ UNCHANGED <<doomed, main, process, token>>

\* Mutant: the look comes before the pause.
LookFirst ==
  /\ watch = "pause" /\ pc # "off"
  /\ watch' = IF order = "force" \/ Interruptible(flight) THEN "request" ELSE "look"
  /\ UNCHANGED <<seen, order, doomed, main, process, token>>

\* request_stop: the pause is set first ...
SetPause ==
  /\ watch = "pause" /\ pc # "off"
  /\ pause' = order
  /\ forced' = (forced \/ order = "force")
  /\ watch' = "look"
  /\ UNCHANGED <<tracked, requested, seen, order, doomed, main, process>>

\* ... and then it looks what is in flight: a call that may be cut short, or
\* FORCE, becomes a cancellation; anything else waits for the boundary.
Look ==
  /\ watch = "look" /\ pc # "off"
  /\ watch' = IF order = "force" \/ Interruptible(flight) THEN "request" ELSE "poll"
  /\ UNCHANGED <<seen, order, doomed, main, process, token>>

\* CancellationToken.request: the first one takes the registered processes.
Request ==
  /\ watch = "request" /\ pc # "off"
  /\ requested' = TRUE
  /\ doomed' = (~requested /\ tracked)
  /\ watch' = IF ~requested /\ tracked THEN "kill" ELSE "poll"
  /\ UNCHANGED <<tracked, pause, seen, order, forced, main, process>>

\* _stop_process: a process that has exited meanwhile is left alone.
StopProcess ==
  /\ watch = "kill" /\ pc # "off"
  /\ IF child = "alive" /\ doomed
     THEN child' = "dead" /\ slain' = slain \cup {flight}
     ELSE UNCHANGED process
  /\ doomed' = FALSE
  /\ watch' = "poll"
  /\ UNCHANGED <<seen, order, main, token>>

WatcherSteps == Poll \/ SetPause \/ Look \/ Request \/ StopProcess

-----------------------------------------------------------------------------
(* request_stop writes stop_request.json over the last one *)
RequestStop(force) ==
  /\ stops < MaxStops
  /\ stops' = stops + 1
  /\ stop' = [n |-> stops + 1, force |-> force]

-----------------------------------------------------------------------------
(* SAFE never kills what it must not: a process of EXECUTE, REPAIR or the   *)
(* initial architect is only ever terminated by a token that was told       *)
(* FORCE, however the look at in_flight, the end of that call and the start *)
(* of the next one interleave (ProductStopToken.request_stop).              *)
SafeSparesEffects == slain \subseteq {"read"} \/ forced

(* Nobody waits for a process that a cancellation has missed: whoever comes *)
(* second of register and request stops it (CancellationToken).             *)
NoProcessEscapes ==
  requested /\ watch # "kill" /\ pc = "wait" => child # "alive"
=============================================================================
