---------------------------- MODULE RunOwnership ----------------------------
(***************************************************************************)
(* What the controller lock of a run promises, without saying how.         *)
(*                                                                         *)
(* One agent at a time owns the run.  Only the owner starts to drive it,   *)
(* and only an agent that has left can lose ownership without giving it up *)
(* (docstring of autonomy_run_lock.py: "Two autonomy_controller processes  *)
(* must never drive the same run ... never a takeover").                   *)
(***************************************************************************)
EXTENDS Naturals

CONSTANTS Agents, NoAgent

VARIABLES owner,    \* the agent that owns the run, or NoAgent
          driving,  \* the agents executing phases of the run
          left      \* the agents whose process has ended

vars == <<owner, driving, left>>

Init == owner = NoAgent /\ driving = {} /\ left = {}

\* A free run is taken by an agent that then drives it.
Take(a) == /\ owner = NoAgent
           /\ a \notin left
           /\ owner' = a
           /\ driving' = driving \cup {a}
           /\ UNCHANGED left

\* The owner stops driving; it still owns the run.
Stop(a) == /\ a \in driving
           /\ driving' = driving \ {a}
           /\ UNCHANGED <<owner, left>>

\* An owner that no longer drives gives the run up, and its process ends.
Give(a) == /\ owner = a
           /\ a \notin driving
           /\ owner' = NoAgent
           /\ left' = left \cup {a}
           /\ UNCHANGED driving

\* A process ends at any point; what it owns stays recorded.
Leave(a) == /\ a \notin left
            /\ left' = left \cup {a}
            /\ driving' = driving \ {a}
            /\ UNCHANGED owner

\* An operator retires the ownership of an agent that is gone.
Retire == /\ owner \in left
          /\ owner' = NoAgent
          /\ UNCHANGED <<driving, left>>

Next == \/ \E a \in Agents : Take(a) \/ Stop(a) \/ Give(a) \/ Leave(a)
        \/ Retire

Spec == Init /\ [][Next]_vars
=============================================================================
