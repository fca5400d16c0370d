-------------------------- MODULE WorkspaceRecovery --------------------------
(* One Git worktree as the UX bridge uses it: runs started by several bridge  *)
(* processes, the two leases that keep them apart, the ownership manifest a   *)
(* run leaves when it settles, and the operator's decision about the edits:   *)
(* keep, discard or adopt them as the next run's baseline.  A file's content  *)
(* is named by whoever wrote it last (aaw_bridge.py, run_recovery.py).        *)
EXTENDS FiniteSets

CONSTANTS
    Bridges,   \* bridge processes (AawBridge instances)
    Runs,      \* runs that may be started in this worktree
    Paths,     \* files of the worktree
    Requests,  \* HTTP threads that may serve a recovery request at once
    Operator,  \* the author of an edit made by hand
    Original,  \* the content of every file in the first commit
    None,
    SealMayFail, \* freezing the manifest of a settled run may raise, e.g. in Git
    Serial     \* the operator asks for one recovery at a time, when no run of
               \* theirs is moving, and neither edits nor starts a run until it
               \* is answered; nor edits while a run drives

ASSUME OperatorAssumption == Operator \notin Runs /\ Original \notin Runs \cup {Operator}
ASSUME NoneAssumption ==
    None \notin Runs \cup Bridges \cup [head : [Paths -> Runs \cup {Operator, Original}],
                                        tree : [Paths -> Runs \cup {Operator, Original}]]
ASSUME SwitchAssumption == SealMayFail \in BOOLEAN /\ Serial \in BOOLEAN

VARIABLES
    tree,      \* contents of the worktree
    head,      \* contents of its HEAD commit
    approved,  \* aaw-authorized-baseline.json: None or [head, tree]
    lease,     \* aaw-run-owner.lock: None or the run it names
    slot,      \* _active_worktrees of each bridge: None or a run
    step,      \* where each run's thread is
    bridge,    \* the bridge that started it
    base,      \* workspace_baseline of its state: None or [head, tree]
    manifest,  \* recovery_ownership.json
    request    \* the recovery request each HTTP thread serves

vars == <<tree, head, approved, lease, slot, step, bridge, base, manifest, request>>
workspace == <<tree, head>>
runVars == <<lease, slot, step, bridge, base>>

Contents == [Paths -> Runs \cup {Operator, Original}]
Snapshots == [head : Contents, tree : Contents]
NoManifest == [ownership |-> "NONE"]
Manifests ==
    {m \in [base : Snapshots \cup {None}, settled : Contents,
             ownership : {"RUN_OWNED", "NO_CHANGES", "AMBIGUOUS_OWNERSHIP"},
             resolution : {"UNRESOLVED", "KEPT", "DISCARDED", "ADOPTED"}] :
        m.base = None => m.ownership = "AMBIGUOUS_OWNERSHIP"}
Idle == [at |-> "idle"]
ActiveRequests ==
    [at : {"read", "inspected", "restoring", "changed", "decided"}, run : Runs,
     kind : {"keep", "discard", "adopt"}, seen : Manifests, paths : SUBSET Paths]

Driving == {"driving", "orphaned"}
Held == {"slotted", "leased", "driving", "returned", "sealed", "vacated"}

Init ==
    /\ head = [p \in Paths |-> Original]
    /\ tree = head
    /\ approved = None
    /\ lease = None
    /\ slot = [b \in Bridges |-> None]
    /\ step = [r \in Runs |-> "absent"]
    /\ bridge = [r \in Runs |-> None]
    /\ base = [r \in Runs |-> None]
    /\ manifest = [r \in Runs |-> NoManifest]
    /\ request = [q \in Requests |-> Idle]

InFlight == \E q \in Requests : request[q].at # "idle"
Moving == \E r \in Runs : step[r] \in {"slotted", "leased", "driving", "returned"}

(***************************************************************************)
(* The run, AawBridge.start_run.                                           *)
(***************************************************************************)

\* The in-process claim of the worktree.
ReserveWorktree(b, r) ==
    /\ step[r] = "absent"
    /\ Serial => ~InFlight
    /\ slot[b] = None
    /\ slot' = [slot EXCEPT ![b] = r]
    /\ step' = [step EXCEPT ![r] = "slotted"]
    /\ bridge' = [bridge EXCEPT ![r] = b]
    /\ UNCHANGED <<workspace, approved, lease, base, manifest, request>>

AcquireLeaseReplacing(r) ==
    /\ step[r] = "slotted"
    /\ lease' = r
    /\ step' = [step EXCEPT ![r] = "leased"]
    /\ UNCHANGED <<workspace, approved, slot, bridge, base, manifest, request>>

\* acquire_worktree_lease creates the lock file exclusively.
AcquireLease(r) ==
    /\ step[r] = "slotted"
    /\ lease = None
    /\ lease' = r
    /\ step' = [step EXCEPT ![r] = "leased"]
    /\ UNCHANGED <<workspace, approved, slot, bridge, base, manifest, request>>

\* WORKTREE_IN_USE gives the in-process claim back.
RefuseLease(r) ==
    /\ step[r] = "slotted"
    /\ lease # None
    /\ slot' = [slot EXCEPT ![bridge[r]] = None]
    /\ step' = [step EXCEPT ![r] = "refused"]
    /\ UNCHANGED <<workspace, approved, lease, bridge, base, manifest, request>>

StartableHeadOnly == IF approved = None THEN tree = head ELSE approved.head = head

\* A worktree a run may start in: clean, or exactly the adopted baseline.
Startable ==
    IF approved = None THEN tree = head ELSE approved = [head |-> head, tree |-> tree]

\* validate_workspace records the baseline, or stops the run BLOCKED.
ValidateWorkspace(r) ==
    /\ step[r] = "leased"
    /\ IF Startable
         THEN /\ base' = [base EXCEPT ![r] = [head |-> head, tree |-> tree]]
              /\ step' = [step EXCEPT ![r] = "driving"]
         ELSE /\ step' = [step EXCEPT ![r] = "returned"]
              /\ base' = base
    /\ UNCHANGED <<workspace, approved, lease, slot, bridge, manifest, request>>

\* A node of the run writes a file, or puts it back to the committed bytes; so
\* does a child that outlived its bridge.
EditPath(r, p) ==
    /\ step[r] \in Driving
    /\ \E c \in {r, head[p]} : tree' = [tree EXCEPT ![p] = c]
    /\ UNCHANGED <<head, approved, runVars, manifest, request>>

\* The runner returns: finished, stopped or failed.
ReturnFromRunner(r) ==
    /\ step[r] = "driving"
    /\ step' = [step EXCEPT ![r] = "returned"]
    /\ UNCHANGED <<workspace, approved, lease, slot, bridge, base, manifest, request>>

\* Status entries are relative to HEAD; without a baseline, or once HEAD moved,
\* nothing can be attributed to the run.
Ownership(r) ==
    IF base[r] = None THEN "AMBIGUOUS_OWNERSHIP"
    ELSE IF base[r].head # head THEN "AMBIGUOUS_OWNERSHIP"
    ELSE IF tree = head THEN "NO_CHANGES" ELSE "RUN_OWNED"

\* freeze_manifest of the tree as it is now.
Frozen(r) ==
    [base |-> base[r], settled |-> tree, ownership |-> Ownership(r),
     resolution |-> "UNRESOLVED"]

\* _seal_recovery as the thread's last look at the tree; a failure is swallowed.
SealRecovery(r) ==
    /\ step[r] = "returned"
    /\ \/ manifest' = [manifest EXCEPT ![r] = Frozen(r)]
       \/ SealMayFail /\ manifest' = manifest
    /\ step' = [step EXCEPT ![r] = "sealed"]
    /\ UNCHANGED <<workspace, approved, lease, slot, bridge, base, request>>

VacateSlot(r) ==
    /\ step[r] = "sealed"
    /\ slot' = IF slot[bridge[r]] = r THEN [slot EXCEPT ![bridge[r]] = None] ELSE slot
    /\ step' = [step EXCEPT ![r] = "vacated"]
    /\ UNCHANGED <<workspace, approved, lease, bridge, base, manifest, request>>

\* release_worktree_lease removes only a lease that names this run.
ReleaseLease(r) ==
    /\ step[r] = "vacated"
    /\ lease' = IF lease = r THEN None ELSE lease
    /\ step' = [step EXCEPT ![r] = "settled"]
    /\ UNCHANGED <<workspace, approved, slot, bridge, base, manifest, request>>

\* A bridge process dies and is started again: its run threads, claims and
\* handles are gone, the lease file stays and a child process may work on.
BridgeDies(b) ==
    /\ \E r \in Runs : bridge[r] = b /\ step[r] \in Held
    /\ step' = [r \in Runs |->
           IF bridge[r] # b \/ step[r] \in {"refused", "orphaned"} THEN step[r]
           ELSE IF step[r] = "driving" THEN "orphaned" ELSE "lost"]
    /\ slot' = [slot EXCEPT ![b] = None]
    /\ request' = [q \in Requests |->
           IF request[q].at # "idle" /\ bridge[request[q].run] = b THEN Idle ELSE request[q]]
    /\ UNCHANGED <<workspace, approved, lease, bridge, base, manifest>>

OrphanEnds(r) ==
    /\ step[r] = "orphaned"
    /\ step' = [step EXCEPT ![r] = "lost"]
    /\ UNCHANGED <<workspace, approved, lease, slot, bridge, base, manifest, request>>

(***************************************************************************)
(* The operator at the worktree.                                           *)
(***************************************************************************)

HandsOff ==
    Serial /\ (InFlight \/ \E r \in Runs : step[r] \in {"driving", "returned"})

OperatorEdits(p) ==
    /\ ~HandsOff
    /\ \E c \in {Operator, head[p]} : tree' = [tree EXCEPT ![p] = c]
    /\ UNCHANGED <<head, approved, runVars, manifest, request>>

OperatorCommits ==
    /\ ~HandsOff
    /\ tree # head
    /\ head' = tree
    /\ UNCHANGED <<tree, approved, runVars, manifest, request>>

(***************************************************************************)
(* Recovery requests.  Each works on the copy of the manifest it read.     *)
(***************************************************************************)

\* _load_recovery freezes the manifest now if the run's thread could not.
LoadedManifest(r) == IF manifest[r] = NoManifest THEN Frozen(r) ELSE manifest[r]

\* _load_recovery and the check of the resolution before anything is inspected.
OpenRequest(q, kind, r) ==
    LET seen == LoadedManifest(r) IN
    /\ request[q].at = "idle"
    /\ Serial => ~InFlight /\ ~Moving
    /\ \/ step[r] \in {"sealed", "vacated"} /\ manifest[r] # NoManifest
       \/ step[r] = "settled"
    /\ IF kind = "keep" THEN seen.resolution # "DISCARDED" ELSE seen.resolution = "UNRESOLVED"
    /\ manifest' = [manifest EXCEPT ![r] = seen]
    /\ request' = [request EXCEPT ![q] =
           [at |-> IF kind = "keep" THEN "decided" ELSE "read",
            run |-> r, kind |-> kind, seen |-> seen, paths |-> {}]]
    /\ UNCHANGED <<workspace, approved, runVars>>

\* inspect_manifest: ownership was exact and nothing drifted since the seal.
Exact(seen) ==
    /\ seen.ownership # "AMBIGUOUS_OWNERSHIP"
    /\ seen.base.head = head
    /\ seen.settled = tree

Changed(seen) == {p \in Paths : tree[p] # seen.base.tree[p]}

\* cleanup_available, or the ownership an adoption asks for.
Allowed(kind, seen) ==
    /\ Exact(seen)
    /\ IF kind = "discard" THEN Changed(seen) # {} ELSE seen.ownership = "RUN_OWNED"

InspectManifest(q) ==
    LET m == request[q] IN
    /\ m.at = "read"
    /\ request' = [request EXCEPT ![q] =
           IF Allowed(m.kind, m.seen)
             THEN [m EXCEPT !.at = "inspected", !.paths = Changed(m.seen)]
             ELSE Idle]
    /\ UNCHANGED <<workspace, approved, runVars, manifest>>

\* discard_owned_changes: the inspected paths are put back one after the other
\* (git restore, then unlink of what the baseline has not), and none of them is
\* looked at again.  The index, restored last, is not modelled.
RestorePath(q, p) ==
    LET m == request[q] IN
    /\ m.at \in {"inspected", "restoring"}
    /\ m.kind = "discard"
    /\ p \in m.paths
    /\ tree' = [tree EXCEPT ![p] = m.seen.base.tree[p]]
    /\ request' = [request EXCEPT ![q].at = IF m.paths = {p} THEN "changed" ELSE "restoring",
                                  ![q].paths = m.paths \ {p}]
    /\ UNCHANGED <<head, approved, runVars, manifest>>

\* Git or unlink raises: what is restored stays restored, nothing is decided.
RestoreFails(q) ==
    /\ request[q].at \in {"inspected", "restoring"}
    /\ request[q].kind = "discard"
    /\ request' = [request EXCEPT ![q] = Idle]
    /\ UNCHANGED <<workspace, approved, runVars, manifest>>

\* adopt_manifest_as_baseline records what is in the worktree now.
WriteBaseline(q) ==
    LET m == request[q] IN
    /\ m.at = "inspected"
    /\ m.kind = "adopt"
    /\ approved' = [head |-> head, tree |-> tree]
    /\ request' = [request EXCEPT ![q].at = "changed"]
    /\ UNCHANGED <<workspace, runVars, manifest>>

\* The result is proved once more: CLEANUP_INCOMPLETE or BASELINE_DIVERGED
\* leave the manifest unresolved.
VerifyChange(q) ==
    LET m == request[q]
        holds == IF m.kind = "discard" THEN m.seen.base = [head |-> head, tree |-> tree]
                                       ELSE approved = [head |-> head, tree |-> tree]
    IN
    /\ m.at = "changed"
    /\ request' = [request EXCEPT ![q] =
           IF holds THEN [m EXCEPT !.at = "decided",
                                   !.seen.settled = IF m.kind = "discard" THEN tree ELSE @]
                    ELSE Idle]
    /\ UNCHANGED <<workspace, approved, runVars, manifest>>

Resolution == [keep |-> "KEPT", discard |-> "DISCARDED", adopt |-> "ADOPTED"]

\* The copy is written back with the decision.
RecordResolution(q) ==
    LET m == request[q] IN
    /\ m.at = "decided"
    /\ manifest' = [manifest EXCEPT ![m.run] = [m.seen EXCEPT !.resolution = Resolution[m.kind]]]
    /\ request' = [request EXCEPT ![q] = Idle]
    /\ UNCHANGED <<workspace, approved, runVars>>

RunThread(r) ==
    \/ AcquireLease(r)
    \/ RefuseLease(r)
    \/ ValidateWorkspace(r)
    \/ \E p \in Paths : EditPath(r, p)
    \/ ReturnFromRunner(r)
    \/ SealRecovery(r)
    \/ VacateSlot(r)
    \/ ReleaseLease(r)
    \/ OrphanEnds(r)

ServeRequest(q) ==
    \/ InspectManifest(q)
    \/ \E p \in Paths : RestorePath(q, p)
    \/ RestoreFails(q)
    \/ WriteBaseline(q)
    \/ VerifyChange(q)
    \/ RecordResolution(q)

Next ==
    \/ \E b \in Bridges : \E r \in Runs : ReserveWorktree(b, r)
    \/ \E r \in Runs : RunThread(r)
    \/ \E b \in Bridges : BridgeDies(b)
    \/ \E p \in Paths : OperatorEdits(p)
    \/ OperatorCommits
    \/ \E q \in Requests : \E r \in Runs :
         \E kind \in {"keep", "discard", "adopt"} : OpenRequest(q, kind, r)
    \/ \E q \in Requests : ServeRequest(q)

Spec == Init /\ [][Next]_vars

-----------------------------------------------------------------------------
(* Properties.                                                             *)

\* Every variable has its type; ownership is claimed only against a baseline.
TypeOK ==
    /\ tree \in Contents
    /\ head \in Contents
    /\ approved \in Snapshots \cup {None}
    /\ lease \in Runs \cup {None}
    /\ slot \in [Bridges -> Runs \cup {None}]
    /\ step \in [Runs -> {"absent", "refused", "settled", "orphaned", "lost"} \cup Held]
    /\ bridge \in [Runs -> Bridges \cup {None}]
    /\ base \in [Runs -> Snapshots \cup {None}]
    /\ manifest \in [Runs -> Manifests \cup {NoManifest}]
    /\ request \in [Requests -> ActiveRequests \cup {Idle}]

\* Whatever bridge started them and whichever of them died, at most one run
\* writes to the worktree or is still freezing what it left there: neither
\* lease alone would do, the in-process one knows nothing of the other bridge.
OneDriver ==
    \A r, s \in Runs :
        step[r] \in Driving \cup {"returned"} /\ step[s] \in Driving \cup {"returned"} => r = s

\* "Later cleanup is allowed only if the tree still matches" what the run left:
\* every byte a discard removes was written by its run or is in HEAD.
CleanupTakesOwnOnly ==
    [][\A q \in Requests :
         request[q].at \in {"inspected", "restoring"} /\ request'[q] # request[q] =>
             \A p \in Paths : tree'[p] # tree[p] => tree[p] \in {request[q].run, head[p]}]_vars

\* What a run starts from and is not committed is the work of settled runs: an
\* operator's edit never becomes part of a baseline without being committed.
BaselineIsRunWork ==
    \A r \in Runs : base[r] # None =>
        \A p \in Paths :
            base[r].tree[p] # base[r].head[p] =>
                /\ base[r].tree[p] \in Runs \ {r}
                /\ manifest[base[r].tree[p]] # NoManifest
=============================================================================
