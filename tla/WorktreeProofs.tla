--------------------------- MODULE WorktreeProofs ---------------------------
(* Who works in a Git worktree: theorems about WorkspaceRecovery and         *)
(* TaskQueues, for any of their constants.                                   *)
(*                                                                           *)
(* The bridge's runs: the lease names every run that is past                 *)
(* acquire_worktree_lease and has not released it, also after its bridge     *)
(* died; so one run at a time writes to the worktree, and what it leaves     *)
(* there, what is approved of it and what a cleanup takes back is its own.   *)
(*                                                                           *)
(* The Control Center's queues have no lease: that a queue goes on after a   *)
(* PASS alone rests on the documents, which know whatever thread, process or *)
(* completion is still to be heard of.                                       *)
EXTENDS WorkspaceRecovery, TaskQueues, WellFoundedInduction, TLAPS

-----------------------------------------------------------------------------
(* The bridge's runs (WorkspaceRecovery).                                    *)
\* Where a run's thread, or the child it left behind, relies on the lease.
Leased == {"leased", "driving", "returned", "sealed", "vacated", "orphaned"}

\* Inductive: whoever relies on the lease is the run the lease file names.
LeaseNamesRun ==
    /\ step \in [Runs -> {"absent", "refused", "settled", "orphaned", "lost"} \cup Held]
    /\ \A r \in Runs : step[r] \in Leased => lease = r

LEMMA InitLease == Init => LeaseNamesRun
  BY DEF Init, LeaseNamesRun, Leased

\* Every step of a run's own thread and every step beside it keeps the lease
\* with the run that relies on it.
LEMMA NextLease == LeaseNamesRun /\ [Next]_vars => LeaseNamesRun'
  <1> SUFFICES ASSUME LeaseNamesRun, [Next]_vars PROVE LeaseNamesRun'
    OBVIOUS
  <1> USE DEF LeaseNamesRun, Leased, Held
  <1>1. ASSUME NEW b \in Bridges, NEW r \in Runs, ReserveWorktree(b, r)
        PROVE LeaseNamesRun'
    BY <1>1 DEF ReserveWorktree
  <1>2. ASSUME NEW r \in Runs, RunThread(r) PROVE LeaseNamesRun'
    <2>1. CASE AcquireLease(r)
      BY <2>1, NoneAssumption DEF AcquireLease
    <2>2. CASE RefuseLease(r)
      BY <2>2 DEF RefuseLease
    <2>3. CASE ValidateWorkspace(r)
      BY <2>3 DEF ValidateWorkspace
    <2>4. CASE \E p \in Paths : EditPath(r, p)
      BY <2>4 DEF EditPath, runVars
    <2>5. CASE ReturnFromRunner(r)
      BY <2>5 DEF ReturnFromRunner
    <2>6. CASE SealRecovery(r)
      BY <2>6 DEF SealRecovery
    <2>7. CASE VacateSlot(r)
      BY <2>7 DEF VacateSlot
    <2>8. CASE ReleaseLease(r)
      BY <2>8 DEF ReleaseLease
    <2>9. CASE OrphanEnds(r)
      BY <2>9 DEF OrphanEnds
    <2> QED BY <1>2, <2>1, <2>2, <2>3, <2>4, <2>5, <2>6, <2>7, <2>8, <2>9 DEF RunThread
  <1>3. ASSUME NEW b \in Bridges, BridgeDies(b) PROVE LeaseNamesRun'
    BY <1>3 DEF BridgeDies
  <1>4. ASSUME NEW p \in Paths, OperatorEdits(p) PROVE LeaseNamesRun'
    BY <1>4 DEF OperatorEdits, runVars
  <1>5. CASE OperatorCommits
    BY <1>5 DEF OperatorCommits, runVars
  <1>6. ASSUME NEW q \in Requests, NEW r \in Runs,
               NEW kind \in {"keep", "discard", "adopt"}, OpenRequest(q, kind, r)
        PROVE LeaseNamesRun'
    BY <1>6 DEF OpenRequest, runVars
  <1>7. ASSUME NEW q \in Requests, ServeRequest(q) PROVE LeaseNamesRun'
    BY <1>7 DEF ServeRequest, InspectManifest, RestorePath, RestoreFails, WriteBaseline, VerifyChange,
                RecordResolution, runVars
  <1>8. CASE UNCHANGED vars
    BY <1>8 DEF vars, runVars
  <1> QED BY <1>1, <1>2, <1>3, <1>4, <1>5, <1>6, <1>7, <1>8 DEF Next

\* At most one run writes to the worktree or is still freezing what it left
\* (aaw_bridge.py, start_run; run_recovery.py, acquire_worktree_lease), for any
\* number of bridges and runs, any of which may die at any point.
THEOREM OneRunDrives == Spec => []OneDriver
  <1>1. LeaseNamesRun => OneDriver
    BY DEF LeaseNamesRun, Leased, OneDriver, Driving
  <1> QED BY <1>1, InitLease, NextLease, PTL DEF Spec
-----------------------------------------------------------------------------
\* Where the threads and the requests are; Serial keeps the two apart, and the
\* requests from each other.
InTurn ==
    \A q \in Requests : request[q].at # "idle" =>
        /\ \A r \in Runs : step[r] \notin {"slotted", "leased", "driving", "returned"}
        /\ \A o \in Requests : request[o].at # "idle" => o = q

\* A run has its manifest from the moment its thread has sealed it, and not
\* before it starts; a request is about a run that has one.
SealedRuns == {r \in Runs : manifest[r] # NoManifest}
Sealing ==
    /\ \A r \in Runs : step[r] \in {"absent", "slotted", "leased"} => r \notin SealedRuns
    /\ \A r \in Runs : step[r] \in {"sealed", "vacated", "settled"} => r \in SealedRuns
    /\ \A q \in Requests : request[q].at # "idle" => request[q].run \in SealedRuns

\* Only changes that can be attributed pass the inspection.
Attributed ==
    \A q \in Requests :
        request[q].at \in {"inspected", "restoring"} =>
            request[q].seen.ownership # "AMBIGUOUS_OWNERSHIP"

-----------------------------------------------------------------------------
\* A bridge died with the lease of its run in its hands: no run starts any more,
\* and a child of that bridge may write.
Wedged == \E r \in Runs : step[r] \in {"orphaned", "lost"} /\ lease = r

\* Against the commit h, the contents t hold nothing but the work of runs in S.
RunWork(h, t, S) == \A p \in Paths : t[p] # h[p] => t[p] \in S

\* What a manifest m of run r tells when it attributes anything.
Owned(m, r, S) ==
    m.ownership # "AMBIGUOUS_OWNERSHIP" =>
        /\ RunWork(m.base.head, m.base.tree, S)
        /\ RunWork(m.base.head, m.settled, S)
        /\ \A p \in Paths : m.settled[p] \in {m.base.tree[p], r, m.base.head[p]}

\* The approved baseline, the baselines runs started from, and what their
\* manifests and the copies of them record, are all the work of sealed runs.
Baselines ==
    /\ ~Wedged /\ approved # None => RunWork(approved.head, approved.tree, SealedRuns)
    /\ \A r \in Runs : base[r] # None =>
         /\ RunWork(base[r].head, base[r].tree, SealedRuns)
         /\ \A p \in Paths : base[r].tree[p] # base[r].head[p] => base[r].tree[p] # r
Attributions ==
    /\ \A r \in SealedRuns : Owned(manifest[r], r, SealedRuns)
    /\ \A q \in Requests : request[q].at # "idle" =>
         Owned(request[q].seen, request[q].run, SealedRuns)

\* While a run drives, the worktree is its baseline but for what it wrote.
Driven ==
    \A r \in Runs :
        /\ step[r] \in {"absent", "slotted", "leased"} => base[r] = None
        /\ step[r] \in {"driving", "returned"} /\ base[r] # None =>
             /\ head = base[r].head
             /\ \A p \in Paths : tree[p] \in {base[r].tree[p], r, head[p]}

\* Between the inspection and what it allows, the worktree stays as inspected,
\* unless a child of a dead bridge writes.
Inspected ==
    \A q \in Requests : request[q].at = "inspected" /\ ~Wedged =>
        LET m == request[q] IN
        /\ Allowed(m.kind, m.seen)
        /\ m.paths = Changed(m.seen)

WorkInv == Baselines /\ Attributions /\ Driven /\ Inspected

-----------------------------------------------------------------------------
\* A frozen manifest is a manifest; NoManifest is none.
LEMMA ManifestTypes ==
    /\ NoManifest \notin Manifests
    /\ \A m \in Manifests :
         /\ m.base \in Snapshots \cup {None} /\ m.settled \in Contents
         /\ m.ownership # "AMBIGUOUS_OWNERSHIP" => m.base \in Snapshots
         /\ \A c \in {"UNRESOLVED", "KEPT", "DISCARDED", "ADOPTED"} :
              [m EXCEPT !.resolution = c] \in Manifests
         /\ \A t \in Contents : [m EXCEPT !.settled = t] \in Manifests
    /\ None \notin Snapshots
  <1>1. None \notin Snapshots
    BY NoneAssumption DEF Snapshots, Contents
  <1>2. NoManifest \notin Manifests
    BY DEF NoManifest, Manifests
  <1>3. ASSUME NEW m \in Manifests
        PROVE  /\ m.base \in Snapshots \cup {None} /\ m.settled \in Contents
               /\ m.ownership # "AMBIGUOUS_OWNERSHIP" => m.base \in Snapshots
               /\ \A c \in {"UNRESOLVED", "KEPT", "DISCARDED", "ADOPTED"} :
                    [m EXCEPT !.resolution = c] \in Manifests
               /\ \A t \in Contents : [m EXCEPT !.settled = t] \in Manifests
    <2> HIDE DEF Snapshots, Contents
    <2> QED BY DEF Manifests
  <1> QED BY <1>1, <1>2, <1>3

\* What _seal_recovery and _load_recovery freeze is a manifest.
LEMMA FrozenType ==
    ASSUME TypeOK, NEW r \in Runs
    PROVE  /\ Frozen(r) \in Manifests /\ LoadedManifest(r) \in Manifests
           /\ manifest[r] # NoManifest => LoadedManifest(r) = manifest[r]
  <1>1. /\ base[r] \in Snapshots \cup {None} /\ tree \in Contents
        /\ Ownership(r) \in {"RUN_OWNED", "NO_CHANGES", "AMBIGUOUS_OWNERSHIP"}
        /\ base[r] = None => Ownership(r) = "AMBIGUOUS_OWNERSHIP"
    BY DEF TypeOK, Ownership
  <1>2. Frozen(r) \in Manifests
    BY <1>1 DEF Frozen, Manifests
  <1> QED BY <1>2 DEF LoadedManifest, TypeOK

\* The requests that are not idle, field by field.
LEMMA RequestTypes ==
    ASSUME TypeOK, NEW q \in Requests, request[q].at # "idle"
    PROVE  /\ request[q] \in ActiveRequests
           /\ request[q].run \in Runs /\ request[q].seen \in Manifests
           /\ request[q].kind \in {"keep", "discard", "adopt"}
           /\ request[q].paths \subseteq Paths
  <1>1. request[q] \in ActiveRequests
    BY DEF TypeOK, Idle
  <1> QED BY <1>1 DEF ActiveRequests

LEMMA TypeInit == Init => TypeOK
  <1> SUFFICES ASSUME Init PROVE TypeOK
    OBVIOUS
  <1>1. head \in Contents /\ tree \in Contents
    BY DEF Init, Contents
  <1>2. step \in [Runs -> {"absent", "refused", "settled", "orphaned", "lost"} \cup Held]
    BY DEF Init
  <1>3. /\ approved = None /\ lease = None /\ slot \in [Bridges -> Runs \cup {None}]
        /\ bridge \in [Runs -> Bridges \cup {None}] /\ base \in [Runs -> Snapshots \cup {None}]
        /\ manifest \in [Runs -> Manifests \cup {NoManifest}]
        /\ request \in [Requests -> ActiveRequests \cup {Idle}]
    BY DEF Init
  <1> QED BY <1>1, <1>2, <1>3 DEF TypeOK

\* Every step keeps the types.
LEMMA TypeStep ==
    ASSUME TypeOK, Attributed, [Next]_vars
    PROVE  TypeOK'
  <1> USE DEF TypeOK
  <1>1. ASSUME NEW b \in Bridges, NEW r \in Runs, ReserveWorktree(b, r) PROVE TypeOK'
    BY <1>1 DEF ReserveWorktree, workspace, Held
  <1>2. ASSUME NEW r \in Runs, RunThread(r) PROVE TypeOK'
    <2>1. CASE AcquireLease(r)
      BY <2>1 DEF AcquireLease, workspace, Held
    <2>2. CASE RefuseLease(r)
      BY <2>2 DEF RefuseLease, workspace, Held
    <2>3. CASE ValidateWorkspace(r)
      <3>1. [head |-> head, tree |-> tree] \in Snapshots
        BY DEF Snapshots
      <3>2. base' \in [Runs -> Snapshots \cup {None}]
        BY <2>3, <3>1 DEF ValidateWorkspace
      <3>3. step' \in [Runs -> {"absent", "refused", "settled", "orphaned", "lost"} \cup Held]
        BY <2>3 DEF ValidateWorkspace, Held
      <3> QED BY <2>3, <3>2, <3>3 DEF ValidateWorkspace, workspace
    <2>4. CASE \E p \in Paths : EditPath(r, p)
      <3>1. tree' \in Contents
        BY <2>4 DEF EditPath, Contents
      <3> QED BY <2>4, <3>1 DEF EditPath, runVars
    <2>5. CASE ReturnFromRunner(r)
      BY <2>5 DEF ReturnFromRunner, workspace, Held
    <2>6. CASE SealRecovery(r)
      <3>1. manifest' \in [Runs -> Manifests \cup {NoManifest}]
        BY <2>6, FrozenType DEF SealRecovery
      <3> QED BY <2>6, <3>1 DEF SealRecovery, workspace, Held
    <2>7. CASE VacateSlot(r)
      BY <2>7 DEF VacateSlot, workspace, Held
    <2>8. CASE ReleaseLease(r)
      BY <2>8 DEF ReleaseLease, workspace, Held
    <2>9. CASE OrphanEnds(r)
      BY <2>9 DEF OrphanEnds, workspace, Held
    <2> QED BY <1>2, <2>1, <2>2, <2>3, <2>4, <2>5, <2>6, <2>7, <2>8, <2>9 DEF RunThread
  <1>3. ASSUME NEW b \in Bridges, BridgeDies(b) PROVE TypeOK'
    BY <1>3 DEF BridgeDies, workspace, Held
  <1>4. ASSUME NEW p \in Paths, OperatorEdits(p) PROVE TypeOK'
    <2>1. tree' \in Contents
      BY <1>4 DEF OperatorEdits, Contents
    <2> QED BY <1>4, <2>1 DEF OperatorEdits, runVars
  <1>5. CASE OperatorCommits
    BY <1>5 DEF OperatorCommits, runVars
  <1>6. ASSUME NEW q \in Requests, NEW r \in Runs,
               NEW kind \in {"keep", "discard", "adopt"}, OpenRequest(q, kind, r)
        PROVE TypeOK'
    <2>1. LoadedManifest(r) \in Manifests
      BY FrozenType
    <2>2. manifest' \in [Runs -> Manifests \cup {NoManifest}]
      BY <1>6, <2>1 DEF OpenRequest
    <2>3. PICK new \in ActiveRequests : request' = [request EXCEPT ![q] = new]
      <3>1. [at |-> IF kind = "keep" THEN "decided" ELSE "read",
             run |-> r, kind |-> kind, seen |-> LoadedManifest(r), paths |-> {}] \in ActiveRequests
        BY <2>1 DEF ActiveRequests
      <3> QED BY <1>6, <3>1 DEF OpenRequest
    <2> QED BY <1>6, <2>2, <2>3 DEF OpenRequest, workspace, runVars
  <1>7. ASSUME NEW q \in Requests, ServeRequest(q) PROVE TypeOK'
    <2>0. request[q].at # "idle"
      BY <1>7 DEF ServeRequest, InspectManifest, RestorePath, RestoreFails, WriteBaseline,
                  VerifyChange, RecordResolution
    <2>1. /\ request[q] \in ActiveRequests
          /\ request[q].run \in Runs /\ request[q].seen \in Manifests
          /\ request[q].kind \in {"keep", "discard", "adopt"}
          /\ request[q].paths \subseteq Paths
      BY <2>0, RequestTypes
    <2>2. CASE InspectManifest(q)
      <3>1. [request[q] EXCEPT !.at = "inspected", !.paths = Changed(request[q].seen)]
              \in ActiveRequests
        BY <2>1 DEF ActiveRequests, Changed
      <3>2. request' \in [Requests -> ActiveRequests \cup {Idle}]
        BY <2>2, <3>1 DEF InspectManifest
      <3> QED BY <2>2, <3>2 DEF InspectManifest, workspace, runVars
    <2>3. ASSUME NEW p \in Paths, RestorePath(q, p) PROVE TypeOK'
      <3>1. tree' \in Contents
        <4>1. request[q].seen.base \in Snapshots
          BY <2>1, <2>3, ManifestTypes DEF RestorePath, Attributed
        <4>2. request[q].seen.base.tree \in Contents
          BY <4>1 DEF Snapshots
        <4> QED BY <2>3, <4>2 DEF RestorePath, Contents
      <3>2. \A at \in {"changed", "restoring"} :
              [request[q] EXCEPT !.at = at, !.paths = request[q].paths \ {p}] \in ActiveRequests
        BY <2>1 DEF ActiveRequests
      <3>3. request' \in [Requests -> ActiveRequests \cup {Idle}]
        BY <2>3, <3>2 DEF RestorePath
      <3> QED BY <2>3, <3>1, <3>3 DEF RestorePath, runVars
    <2>7. CASE RestoreFails(q)
      BY <2>7 DEF RestoreFails, workspace, runVars
    <2>4. CASE WriteBaseline(q)
      <3>1. [head |-> head, tree |-> tree] \in Snapshots
        BY DEF Snapshots
      <3>2. [request[q] EXCEPT !.at = "changed"] \in ActiveRequests
        BY <2>1 DEF ActiveRequests
      <3> QED BY <2>4, <3>1, <3>2 DEF WriteBaseline, workspace, runVars
    <2>5. CASE VerifyChange(q)
      <3>1. \A t \in Contents :
              [request[q] EXCEPT !.at = "decided", !.seen.settled = t] \in ActiveRequests
        <4>1. \A t \in Contents : [request[q].seen EXCEPT !.settled = t] \in Manifests
          BY <2>1, ManifestTypes
        <4> QED BY <2>1, <4>1 DEF ActiveRequests
      <3>2. request[q].seen.settled \in Contents
        BY <2>1, ManifestTypes
      <3>3. request' \in [Requests -> ActiveRequests \cup {Idle}]
        BY <2>5, <3>1, <3>2 DEF VerifyChange
      <3> QED BY <2>5, <3>3 DEF VerifyChange, workspace, runVars
    <2>6. CASE RecordResolution(q)
      <3>1. Resolution[request[q].kind] \in {"UNRESOLVED", "KEPT", "DISCARDED", "ADOPTED"}
        BY <2>1 DEF Resolution
      <3>2. [request[q].seen EXCEPT !.resolution = Resolution[request[q].kind]] \in Manifests
        BY <2>1, <3>1, ManifestTypes
      <3> QED BY <2>1, <2>6, <3>2 DEF RecordResolution, workspace, runVars
    <2> QED BY <1>7, <2>2, <2>3, <2>4, <2>5, <2>6, <2>7 DEF ServeRequest
  <1>8. CASE UNCHANGED vars
    BY <1>8 DEF vars
  <1> QED BY <1>1, <1>2, <1>3, <1>4, <1>5, <1>6, <1>7, <1>8 DEF Next

\* A manifest is never thrown away.
LEMMA SealedStays ==
    ASSUME TypeOK, [Next]_vars
    PROVE  SealedRuns \subseteq SealedRuns'
  <1> USE DEF TypeOK, SealedRuns
  <1>1. CASE UNCHANGED manifest
    BY <1>1
  <1>2. ASSUME NEW r \in Runs, SealRecovery(r) PROVE SealedRuns \subseteq SealedRuns'
    BY <1>2, FrozenType, ManifestTypes DEF SealRecovery
  <1>3. ASSUME NEW q \in Requests, NEW r \in Runs,
               NEW kind \in {"keep", "discard", "adopt"}, OpenRequest(q, kind, r)
        PROVE SealedRuns \subseteq SealedRuns'
    BY <1>3, FrozenType, ManifestTypes DEF OpenRequest
  <1>4. ASSUME NEW q \in Requests, RecordResolution(q) PROVE SealedRuns \subseteq SealedRuns'
    <2>1. request[q].at # "idle"
      BY <1>4 DEF RecordResolution
    <2>2. request[q].run \in Runs /\ request[q].seen \in Manifests
          /\ request[q].kind \in {"keep", "discard", "adopt"}
      BY <2>1, RequestTypes
    <2>3. Resolution[request[q].kind] \in {"UNRESOLVED", "KEPT", "DISCARDED", "ADOPTED"}
      BY <2>2 DEF Resolution
    <2>4. [request[q].seen EXCEPT !.resolution = Resolution[request[q].kind]] \in Manifests
      BY <2>2, <2>3, ManifestTypes
    <2> QED BY <1>4, <2>2, <2>4, ManifestTypes DEF RecordResolution
  <1> QED BY <1>1, <1>2, <1>3, <1>4 DEF Next, RunThread, ServeRequest, ReserveWorktree,
        AcquireLease, RefuseLease, ValidateWorkspace, EditPath, ReturnFromRunner, VacateSlot,
        ReleaseLease, OrphanEnds, BridgeDies, OperatorEdits, OperatorCommits, InspectManifest,
        RestorePath, RestoreFails, WriteBaseline, VerifyChange, runVars, vars

\* A served request is over or goes on about the same run; nothing else moves.
LEMMA ServeShape ==
    ASSUME TypeOK, NEW q \in Requests, ServeRequest(q)
    PROVE  /\ request[q].at # "idle" /\ UNCHANGED <<runVars, head>>
           /\ \A o \in Requests \ {q} : request'[o] = request[o]
           /\ \/ request'[q].at = "idle"
              \/ /\ request'[q].run = request[q].run
                 /\ \/ request'[q].at \in {"changed", "decided"}
                    \/ InspectManifest(q)
                    \/ /\ request[q].at \in {"inspected", "restoring"}
                       /\ request'[q].at = "restoring" /\ request'[q].seen = request[q].seen
  <1>0. request[q].at # "idle" => request[q] \in ActiveRequests
    BY RequestTypes
  <1> USE DEF TypeOK, ActiveRequests
  <1>1. CASE InspectManifest(q)
    BY <1>0, <1>1 DEF InspectManifest, workspace, Idle
  <1>2. CASE \E p \in Paths : RestorePath(q, p)
    <2>1. PICK p \in Paths : RestorePath(q, p)
      BY <1>2
    <2>2. PICK at \in {"changed", "restoring"} :
            request' = [request EXCEPT ![q].at = at, ![q].paths = request[q].paths \ {p}]
      BY <2>1 DEF RestorePath
    <2> QED BY <1>0, <2>1, <2>2 DEF RestorePath
  <1>6. CASE RestoreFails(q)
    BY <1>0, <1>6 DEF RestoreFails, workspace, Idle
  <1>3. CASE WriteBaseline(q)
    BY <1>0, <1>3 DEF WriteBaseline, workspace
  <1>4. CASE VerifyChange(q)
    <2>1. PICK new : /\ request' = [request EXCEPT ![q] = new]
                     /\ \/ new = Idle
                        \/ \E t : new = [request[q] EXCEPT !.at = "decided", !.seen.settled = t]
      BY <1>4 DEF VerifyChange
    <2>2. request[q].at # "idle" /\ UNCHANGED <<runVars, head>>
      BY <1>4 DEF VerifyChange, workspace
    <2>3. new.at = "idle" \/ (new.run = request[q].run /\ new.at = "decided")
      <3>1. CASE new = Idle
        BY <3>1 DEF Idle
      <3>2. ASSUME NEW t, new = [request[q] EXCEPT !.at = "decided", !.seen.settled = t]
            PROVE  new.run = request[q].run /\ new.at = "decided"
        <4>1. {"at", "run", "seen"} \subseteq DOMAIN request[q]
          BY <1>0, <2>2
        <4> HIDE DEF TypeOK, ActiveRequests
        <4> QED BY <3>2, <4>1
      <3> QED BY <2>1, <3>1, <3>2
    <2>4. request'[q] = new /\ \A o \in Requests \ {q} : request'[o] = request[o]
      <3>1. DOMAIN request = Requests
        OBVIOUS
      <3>2. request' = [request EXCEPT ![q] = new]
        BY <2>1
      <3> HIDE DEF TypeOK, ActiveRequests
      <3> QED BY <3>1, <3>2
    <2> QED BY <2>2, <2>3, <2>4
  <1>5. CASE RecordResolution(q)
    BY <1>0, <1>5 DEF RecordResolution, workspace, Idle
  <1> QED BY <1>1, <1>2, <1>3, <1>4, <1>5, <1>6 DEF ServeRequest

\* Only InspectManifest lets a request pass, and only when it can attribute.
LEMMA AttributedStep ==
    ASSUME TypeOK, Attributed, [Next]_vars
    PROVE  Attributed'
  <1> USE DEF Attributed, TypeOK
  <1>1. ASSUME NEW b \in Bridges, BridgeDies(b) PROVE Attributed'
    BY <1>1 DEF BridgeDies, Idle
  <1>2. ASSUME NEW q \in Requests, NEW r \in Runs,
               NEW kind \in {"keep", "discard", "adopt"}, OpenRequest(q, kind, r)
        PROVE Attributed'
    BY <1>2 DEF OpenRequest
  <1>3. ASSUME NEW q \in Requests, ServeRequest(q) PROVE Attributed'
    <2>1. /\ request[q].at # "idle" /\ \A o \in Requests \ {q} : request'[o] = request[o]
      BY <1>3, ServeShape
    <2>2. request'[q].at \in {"inspected", "restoring"} =>
            request'[q].seen.ownership # "AMBIGUOUS_OWNERSHIP"
      <3>1. CASE InspectManifest(q)
        <4>1. request[q] \in ActiveRequests
          BY <2>1, RequestTypes
        <4> QED BY <3>1, <4>1 DEF InspectManifest, Allowed, Exact, Idle, ActiveRequests
      <3>2. CASE ~InspectManifest(q)
        BY <1>3, <3>2, ServeShape
      <3> QED BY <3>1, <3>2
    <2> QED BY <2>1, <2>2
  <1>4. CASE request' = request
    BY <1>4
  <1> QED BY <1>1, <1>2, <1>3, <1>4 DEF Next, RunThread, ReserveWorktree, AcquireLease,
        RefuseLease, ValidateWorkspace, EditPath, ReturnFromRunner, SealRecovery, VacateSlot,
        ReleaseLease, OrphanEnds, OperatorEdits, OperatorCommits, vars

\* Under Serial a request is opened only between runs, and no run starts
\* before it is answered.
LEMMA TurnStep ==
    ASSUME Serial = TRUE, TypeOK, InTurn, [Next]_vars
    PROVE  InTurn'
  <1> USE DEF InTurn, TypeOK
  <1>1. ASSUME NEW b \in Bridges, NEW r \in Runs, ReserveWorktree(b, r) PROVE InTurn'
    BY <1>1 DEF ReserveWorktree, InFlight
  <1>2. ASSUME NEW r \in Runs, RunThread(r) PROVE InTurn'
    BY <1>2 DEF RunThread, AcquireLease, RefuseLease, ValidateWorkspace, EditPath,
        ReturnFromRunner, SealRecovery, VacateSlot, ReleaseLease, OrphanEnds, runVars
  <1>3. ASSUME NEW b \in Bridges, BridgeDies(b) PROVE InTurn'
    BY <1>3 DEF BridgeDies, Idle
  <1>4. ASSUME NEW q \in Requests, NEW r \in Runs,
               NEW kind \in {"keep", "discard", "adopt"}, OpenRequest(q, kind, r)
        PROVE InTurn'
    BY <1>4 DEF OpenRequest, InFlight, Moving, runVars
  <1>5. ASSUME NEW q \in Requests, ServeRequest(q) PROVE InTurn'
    <2>1. /\ request[q].at # "idle" /\ step' = step
          /\ \A o \in Requests \ {q} : request'[o] = request[o]
      BY <1>5, ServeShape DEF runVars
    <2> QED BY <2>1
  <1>6. CASE step' = step /\ request' = request
    BY <1>6
  <1> QED BY <1>1, <1>2, <1>3, <1>4, <1>5, <1>6 DEF Next, OperatorEdits, OperatorCommits,
        runVars, vars

\* As long as freezing a manifest does not fail, a settled run has one.
LEMMA SealingStep ==
    ASSUME SealMayFail = FALSE, TypeOK, Sealing, [Next]_vars
    PROVE  Sealing'
  <1>0. SealedRuns \subseteq SealedRuns' /\ SealedRuns \subseteq Runs
    BY SealedStays DEF SealedRuns
  <1> USE DEF Sealing, TypeOK
  <1>1. ASSUME NEW b \in Bridges, NEW r \in Runs, ReserveWorktree(b, r) PROVE Sealing'
    BY <1>1 DEF ReserveWorktree, SealedRuns
  <1>2. ASSUME NEW r \in Runs, RunThread(r) PROVE Sealing'
    <2>1. CASE SealRecovery(r)
      <3>1. /\ step[r] = "returned" /\ step' = [step EXCEPT ![r] = "sealed"] /\ request' = request
            /\ manifest' = [manifest EXCEPT ![r] = Frozen(r)] /\ Frozen(r) # NoManifest
        BY <2>1, FrozenType, ManifestTypes DEF SealRecovery
      <3>2. SealedRuns' = SealedRuns \cup {r}
        BY <3>1 DEF SealedRuns
      <3> QED BY <3>1, <3>2
    <2>2. CASE ~SealRecovery(r)
      <3>1. /\ manifest' = manifest /\ request' = request
            /\ step' = step \/ \E n \in {"leased", "refused", "driving", "returned", "vacated",
                                         "settled", "lost"} :
                 /\ step' = [step EXCEPT ![r] = n]
                 /\ n = "leased" => step[r] = "slotted"
                 /\ n = "vacated" => step[r] = "sealed"
                 /\ n = "settled" => step[r] = "vacated"
        BY <1>2, <2>2 DEF RunThread, AcquireLease, RefuseLease, ValidateWorkspace, EditPath,
          ReturnFromRunner, VacateSlot, ReleaseLease, OrphanEnds, runVars
      <3>2. SealedRuns' = SealedRuns
        BY <3>1 DEF SealedRuns
      <3> QED BY <3>1, <3>2
    <2> QED BY <2>1, <2>2
  <1>3. ASSUME NEW b \in Bridges, BridgeDies(b) PROVE Sealing'
    <2>1. SealedRuns' = SealedRuns
      BY <1>3 DEF BridgeDies, SealedRuns
    <2>2. /\ \A r \in Runs : step'[r] \in {step[r], "orphaned", "lost"}
          /\ \A q \in Requests : request'[q] \in {request[q], Idle}
      BY <1>3 DEF BridgeDies
    <2> QED BY <2>1, <2>2 DEF Idle
  <1>4. CASE (\E p \in Paths : OperatorEdits(p)) \/ OperatorCommits
    BY <1>4 DEF OperatorEdits, OperatorCommits, runVars, SealedRuns
  <1>6. ASSUME NEW q \in Requests, NEW r \in Runs,
               NEW kind \in {"keep", "discard", "adopt"}, OpenRequest(q, kind, r)
        PROVE Sealing'
    <2>1. LoadedManifest(r) = manifest[r]
      BY <1>6, FrozenType DEF OpenRequest, SealedRuns
    <2>2. /\ r \in SealedRuns /\ manifest' = manifest /\ step' = step /\ request'[q].run = r
          /\ \A o \in Requests \ {q} : request'[o] = request[o]
      BY <1>6, <2>1 DEF OpenRequest, runVars, SealedRuns
    <2> QED BY <2>2 DEF SealedRuns
  <1>7. ASSUME NEW q \in Requests, ServeRequest(q) PROVE Sealing'
    <2>1. /\ request[q].at # "idle" /\ step' = step
          /\ \A o \in Requests \ {q} : request'[o] = request[o]
          /\ request'[q].at # "idle" => request'[q].run = request[q].run
      BY <1>7, ServeShape DEF runVars
    <2>4. SealedRuns' = SealedRuns
      <3>1. \A r \in Runs \ {request[q].run} : manifest'[r] = manifest[r]
        BY <1>7 DEF ServeRequest, InspectManifest, RestorePath, RestoreFails, WriteBaseline, VerifyChange,
                    RecordResolution
      <3> QED BY <1>0, <2>1, <3>1 DEF SealedRuns
    <2> QED BY <2>1, <2>4
  <1>8. CASE UNCHANGED vars
    BY <1>8 DEF vars, runVars, SealedRuns
  <1> QED BY <1>1, <1>2, <1>3, <1>4, <1>6, <1>7, <1>8 DEF Next

-----------------------------------------------------------------------------
\* A wedged worktree stays wedged: its lease is nobody's to release.
LEMMA WedgedStays ==
    ASSUME LeaseNamesRun, TypeOK, Wedged, [Next]_vars
    PROVE  Wedged'
  <1>1. PICK w \in Runs : step[w] \in {"orphaned", "lost"} /\ lease = w
    BY DEF Wedged
  <1>2. w # None
    BY NoneAssumption
  <1>3. step'[w] \in {"orphaned", "lost"} /\ lease' = w
    <2>1. ASSUME NEW b \in Bridges, NEW r \in Runs, ReserveWorktree(b, r)
          PROVE step'[w] \in {"orphaned", "lost"} /\ lease' = w
      BY <1>1, <2>1 DEF ReserveWorktree, TypeOK
    <2>2. ASSUME NEW r \in Runs, RunThread(r)
          PROVE step'[w] \in {"orphaned", "lost"} /\ lease' = w
      BY <1>1, <1>2, <2>2 DEF RunThread, AcquireLease, RefuseLease, ValidateWorkspace, EditPath,
        ReturnFromRunner, SealRecovery, VacateSlot, ReleaseLease, OrphanEnds, runVars, TypeOK,
        LeaseNamesRun, Leased
    <2>3. ASSUME NEW b \in Bridges, BridgeDies(b)
          PROVE step'[w] \in {"orphaned", "lost"} /\ lease' = w
      BY <1>1, <2>3 DEF BridgeDies
    <2>4. ASSUME NEW q \in Requests, ServeRequest(q)
          PROVE step'[w] \in {"orphaned", "lost"} /\ lease' = w
      BY <1>1, <2>4, ServeShape DEF runVars
    <2> QED BY <1>1, <2>1, <2>2, <2>3, <2>4 DEF Next, OperatorEdits, OperatorCommits, OpenRequest,
              runVars, vars
  <1> QED BY <1>3 DEF Wedged

\* More sealed runs can only be more of an explanation.
LEMMA WorkGrows ==
    ASSUME NEW S, NEW T, S \subseteq T
    PROVE  /\ \A h, t : RunWork(h, t, S) => RunWork(h, t, T)
           /\ \A m, r : Owned(m, r, S) => Owned(m, r, T)
  BY DEF RunWork, Owned

\* The steps that leave the baselines alone.
LEMMA BaselinesKept ==
    ASSUME LeaseNamesRun, TypeOK, Baselines, [Next]_vars, UNCHANGED <<approved, base>>
    PROVE  Baselines'
  <1>1. SealedRuns \subseteq SealedRuns'
    BY SealedStays
  <1>2. ~Wedged' => ~Wedged
    BY WedgedStays
  <1> QED BY <1>1, <1>2, WorkGrows DEF Baselines

\* A run starts clean or from the approved baseline; what is approved is what
\* a sealed run left.
LEMMA BaselinesStep ==
    ASSUME LeaseNamesRun, TypeOK, Sealing, Baselines, Attributions, Inspected, [Next]_vars
    PROVE  Baselines'
  <1>1. CASE UNCHANGED <<approved, base>>
    BY <1>1, BaselinesKept
  <1>2. ASSUME NEW r \in Runs, ValidateWorkspace(r), base' # base PROVE Baselines'
    <2>1. /\ step[r] = "leased" /\ Startable
          /\ base' = [base EXCEPT ![r] = [head |-> head, tree |-> tree]]
          /\ step' = [step EXCEPT ![r] = "driving"]
          /\ UNCHANGED <<approved, lease, manifest>>
      BY <1>2 DEF ValidateWorkspace
    <2>2. lease = r /\ ~Wedged
      BY <2>1 DEF LeaseNamesRun, Leased, Wedged
    <2>3. r \notin SealedRuns /\ SealedRuns' = SealedRuns
      BY <2>1 DEF Sealing, SealedRuns
    <2>4. RunWork(head, tree, SealedRuns)
      <3>1. CASE approved = None
        BY <2>1, <3>1 DEF Startable, RunWork
      <3>2. CASE approved # None
        <4>1. approved.head = head /\ approved.tree = tree
          BY <2>1, <3>2 DEF Startable
        <4> QED BY <2>2, <3>2, <4>1 DEF Baselines
      <3> QED BY <3>1, <3>2
    <2>5. \A p \in Paths : tree[p] # head[p] => tree[p] # r
      BY <2>3, <2>4 DEF RunWork
    <2>6. ~Wedged'
      BY <2>1, <2>2, NoneAssumption DEF Wedged, TypeOK
    <2>7. ASSUME NEW s \in Runs, base'[s] # None
          PROVE  /\ RunWork(base'[s].head, base'[s].tree, SealedRuns')
                 /\ \A p \in Paths : base'[s].tree[p] # base'[s].head[p] => base'[s].tree[p] # s
      <3>1. CASE s = r
        BY <2>1, <2>3, <2>4, <2>5, <3>1 DEF TypeOK
      <3>2. CASE s # r
        <4>1. base'[s] = base[s]
          BY <2>1, <3>2
        <4> QED BY <2>3, <2>7, <4>1 DEF Baselines
      <3> QED BY <3>1, <3>2
    <2>8. approved' # None => RunWork(approved'.head, approved'.tree, SealedRuns')
      BY <2>1, <2>2, <2>3 DEF Baselines
    <2> QED BY <2>7, <2>8 DEF Baselines
  <1>3. ASSUME NEW q \in Requests, WriteBaseline(q) PROVE Baselines'
    <2> DEFINE m == request[q].seen
    <2>1. /\ request[q].at = "inspected" /\ request[q].kind = "adopt"
          /\ approved' = [head |-> head, tree |-> tree]
          /\ UNCHANGED <<base, step, lease, manifest>>
      BY <1>3 DEF WriteBaseline, runVars
    <2>2. SealedRuns' = SealedRuns /\ (Wedged' <=> Wedged)
      BY <2>1 DEF SealedRuns, Wedged
    <2>3. ~Wedged => RunWork(head, tree, SealedRuns)
      <3> SUFFICES ASSUME ~Wedged PROVE RunWork(head, tree, SealedRuns)
        OBVIOUS
      <3>1. Allowed("adopt", m)
        BY <2>1 DEF Inspected
      <3>2. m.ownership # "AMBIGUOUS_OWNERSHIP" /\ m.base.head = head /\ m.settled = tree
        BY <3>1 DEF Allowed, Exact
      <3>3. Owned(m, request[q].run, SealedRuns)
        BY <2>1 DEF Attributions
      <3> QED BY <3>2, <3>3 DEF Owned
    <2>4. approved'.head = head /\ approved'.tree = tree
      BY <2>1
    <2> QED BY <2>1, <2>2, <2>3, <2>4 DEF Baselines
  <1> QED BY <1>1, <1>2, <1>3 DEF Next, RunThread, ServeRequest, ReserveWorktree,
        AcquireLease, RefuseLease, ValidateWorkspace, EditPath, ReturnFromRunner, SealRecovery,
        VacateSlot, ReleaseLease, OrphanEnds, BridgeDies, OperatorEdits, OperatorCommits,
        OpenRequest, InspectManifest, RestorePath, RestoreFails, WriteBaseline, VerifyChange, RecordResolution,
        runVars, vars

\* While a run drives, under Serial nobody else writes or commits.
LEMMA DrivenStep ==
    ASSUME Serial = TRUE, LeaseNamesRun, TypeOK, InTurn, Driven, [Next]_vars
    PROVE  Driven'
  <1> USE DEF Driven
  <1>1. ASSUME NEW b \in Bridges, NEW r \in Runs, ReserveWorktree(b, r) PROVE Driven'
    BY <1>1 DEF ReserveWorktree, workspace, TypeOK
  <1>2. ASSUME NEW r \in Runs, RunThread(r) PROVE Driven'
    <2>1. CASE ValidateWorkspace(r)
      <3>1. /\ base[r] = None /\ UNCHANGED <<head, tree>>
            /\ \A s \in Runs \ {r} : base'[s] = base[s] /\ step'[s] = step[s]
        BY <2>1 DEF ValidateWorkspace, workspace, TypeOK
      <3>2. CASE Startable
        <4>1. base'[r] = [head |-> head, tree |-> tree] /\ step'[r] = "driving"
          BY <2>1, <3>2 DEF ValidateWorkspace, TypeOK
        <4>2. base'[r].head = head /\ base'[r].tree = tree
          BY <4>1
        <4> QED BY <3>1, <4>1, <4>2
      <3>3. CASE ~Startable
        <4>1. base'[r] = None /\ step'[r] = "returned"
          BY <2>1, <3>1, <3>3 DEF ValidateWorkspace, TypeOK
        <4> QED BY <3>1, <4>1
      <3> QED BY <3>2, <3>3
    <2>2. CASE \E p \in Paths : EditPath(r, p)
      <3>1. PICK p \in Paths : EditPath(r, p)
        BY <2>2
      <3>2. \A s \in Runs : step[s] \in {"driving", "returned"} => s = r
        BY <3>1 DEF EditPath, Driving, LeaseNamesRun, Leased
      <3>3. PICK c \in {r, head[p]} : tree' = [tree EXCEPT ![p] = c]
        BY <3>1 DEF EditPath
      <3>4. \A x \in Paths : tree'[x] = tree[x] \/ tree'[x] \in {r, head[x]}
        BY <3>3 DEF TypeOK, Contents
      <3>5. UNCHANGED <<head, step, base>>
        BY <3>1 DEF EditPath, runVars
      <3> QED BY <3>2, <3>4, <3>5
    <2>3. CASE ~ValidateWorkspace(r) /\ ~\E p \in Paths : EditPath(r, p)
      <3>1. /\ UNCHANGED <<head, tree, base>>
            /\ step' = step \/ \E n \in {"leased", "refused", "returned", "sealed", "vacated",
                                         "settled", "lost"} :
                 /\ step' = [step EXCEPT ![r] = n]
                 /\ n = "leased" => step[r] = "slotted"
                 /\ n = "returned" => step[r] = "driving"
        BY <1>2, <2>3 DEF RunThread, AcquireLease, RefuseLease, ReturnFromRunner, SealRecovery,
          VacateSlot, ReleaseLease, OrphanEnds, workspace
      <3> QED BY <3>1 DEF TypeOK
    <2> QED BY <2>1, <2>2, <2>3
  <1>3. ASSUME NEW b \in Bridges, BridgeDies(b) PROVE Driven'
    <2>1. \A r \in Runs : step'[r] \in {step[r], "orphaned", "lost"}
      BY <1>3 DEF BridgeDies
    <2> QED BY <1>3, <2>1 DEF BridgeDies, workspace
  <1>4. CASE (\E p \in Paths : OperatorEdits(p)) \/ OperatorCommits
    <2>1. \A r \in Runs : step[r] \notin {"driving", "returned"}
      BY <1>4 DEF OperatorEdits, OperatorCommits, HandsOff
    <2> QED BY <1>4, <2>1 DEF OperatorEdits, OperatorCommits, runVars
  <1>5. ASSUME NEW q \in Requests, NEW p \in Paths, RestorePath(q, p) PROVE Driven'
    <2>1. \A r \in Runs : step[r] \notin {"driving", "returned"}
      BY <1>5 DEF RestorePath, InTurn
    <2> QED BY <1>5, <2>1 DEF RestorePath, runVars
  <1>6. CASE UNCHANGED <<head, tree, base, step>>
    BY <1>6
  <1> QED BY <1>1, <1>2, <1>3, <1>4, <1>5, <1>6 DEF Next, ServeRequest, OpenRequest,
        InspectManifest, RestoreFails, WriteBaseline, VerifyChange, RecordResolution, workspace,
        runVars, vars

\* What a run's thread freezes is the run's own work on top of its baseline.
LEMMA FrozenOwned ==
    ASSUME TypeOK, Baselines, Driven, NEW r \in Runs, step[r] = "returned"
    PROVE  Owned(Frozen(r), r, SealedRuns \cup {r})
  <1>1. /\ Frozen(r).base = base[r] /\ Frozen(r).settled = tree
        /\ Frozen(r).ownership = Ownership(r)
    BY DEF Frozen
  <1> SUFFICES ASSUME Ownership(r) # "AMBIGUOUS_OWNERSHIP"
               PROVE  /\ RunWork(base[r].head, base[r].tree, SealedRuns \cup {r})
                      /\ RunWork(base[r].head, tree, SealedRuns \cup {r})
                      /\ \A p \in Paths : tree[p] \in {base[r].tree[p], r, base[r].head[p]}
    BY <1>1 DEF Owned
  <1>2. base[r] # None /\ base[r].head = head
    BY DEF Ownership
  <1>3. RunWork(base[r].head, base[r].tree, SealedRuns)
    BY <1>2 DEF Baselines
  <1>4. \A p \in Paths : tree[p] \in {base[r].tree[p], r, base[r].head[p]}
    BY <1>2 DEF Driven
  <1> QED BY <1>3, <1>4 DEF RunWork

\* Manifests and their copies keep telling of run work only.
LEMMA AttributionsStep ==
    ASSUME SealMayFail = FALSE, TypeOK, Sealing, Baselines, Attributions, Driven,
           [Next]_vars
    PROVE  Attributions'
  <1>0. SealedRuns \subseteq SealedRuns' /\ SealedRuns \subseteq Runs
    BY SealedStays DEF SealedRuns
  <1>1. CASE manifest' = manifest /\ \A q \in Requests : request'[q] \in {request[q], Idle}
    <2>1. SealedRuns' = SealedRuns
      BY <1>1 DEF SealedRuns
    <2> QED BY <1>1, <2>1 DEF Attributions, Idle
  <1>2. ASSUME NEW r \in Runs, SealRecovery(r) PROVE Attributions'
    <2>1. /\ step[r] = "returned" /\ request' = request
          /\ manifest' = [manifest EXCEPT ![r] = Frozen(r)] /\ Frozen(r) # NoManifest
      BY <1>2, FrozenType, ManifestTypes DEF SealRecovery
    <2>2. SealedRuns' = SealedRuns \cup {r}
      BY <2>1 DEF SealedRuns, TypeOK
    <2>3. Owned(Frozen(r), r, SealedRuns')
      BY <2>1, <2>2, FrozenOwned
    <2>4. ASSUME NEW s \in SealedRuns' PROVE Owned(manifest'[s], s, SealedRuns')
      <3>1. CASE s = r
        BY <2>1, <2>3, <3>1 DEF TypeOK
      <3>2. CASE s # r
        <4>1. s \in SealedRuns /\ manifest'[s] = manifest[s]
          BY <2>1, <2>2, <3>2 DEF TypeOK
        <4> QED BY <1>0, <4>1, WorkGrows DEF Attributions
      <3> QED BY <3>1, <3>2
    <2> QED BY <1>0, <2>1, <2>4, WorkGrows DEF Attributions
  <1>3. ASSUME NEW q \in Requests, NEW r \in Runs,
               NEW kind \in {"keep", "discard", "adopt"}, OpenRequest(q, kind, r)
        PROVE Attributions'
    <2>1. r \in SealedRuns /\ LoadedManifest(r) = manifest[r]
      BY <1>3, FrozenType DEF OpenRequest, Sealing, SealedRuns
    <2>2. /\ manifest' = manifest /\ request'[q].run = r /\ request'[q].seen = manifest[r]
          /\ \A o \in Requests \ {q} : request'[o] = request[o]
      BY <1>3, <2>1 DEF OpenRequest, TypeOK
    <2>3. SealedRuns' = SealedRuns
      BY <2>2 DEF SealedRuns
    <2> QED BY <2>1, <2>2, <2>3 DEF Attributions
  <1>4. ASSUME NEW q \in Requests, ServeRequest(q), ~RecordResolution(q) PROVE Attributions'
    <2> DEFINE m == request[q]
    <2>1. /\ m.at # "idle" /\ \A o \in Requests \ {q} : request'[o] = request[o]
          /\ m \in ActiveRequests /\ m.run \in Runs /\ m.seen \in Manifests
      BY <1>4, ServeShape, RequestTypes
    <2>2. manifest' = manifest /\ SealedRuns' = SealedRuns
      BY <1>4 DEF ServeRequest, InspectManifest, RestorePath, RestoreFails, WriteBaseline, VerifyChange,
                  SealedRuns
    <2>3. Owned(m.seen, m.run, SealedRuns)
      BY <2>1 DEF Attributions
    <2>4. request'[q].at # "idle" => Owned(request'[q].seen, request'[q].run, SealedRuns)
      <3>1. CASE InspectManifest(q)
        <4>1. \/ request'[q] = Idle
              \/ request'[q] = [m EXCEPT !.at = "inspected", !.paths = Changed(m.seen)]
          BY <3>1 DEF InspectManifest, TypeOK
        <4>2. CASE request'[q] = Idle
          BY <4>2 DEF Idle
        <4>3. CASE request'[q] = [m EXCEPT !.at = "inspected", !.paths = Changed(m.seen)]
          <5>1. request'[q].seen = m.seen /\ request'[q].run = m.run
            BY <2>1, <4>3 DEF ActiveRequests
          <5> QED BY <2>3, <5>1
        <4> QED BY <4>1, <4>2, <4>3
      <3>2. CASE WriteBaseline(q) \/ RestoreFails(q)
        <4>1. request'[q] \in {Idle, [m EXCEPT !.at = "changed"]}
          BY <3>2 DEF RestoreFails, WriteBaseline, TypeOK
        <4> QED BY <2>1, <2>3, <4>1 DEF Idle, ActiveRequests
      <3>4. ASSUME NEW p \in Paths, RestorePath(q, p)
            PROVE  Owned(request'[q].seen, request'[q].run, SealedRuns)
        <4>1. PICK at \in {"changed", "restoring"} :
                request'[q] = [m EXCEPT !.at = at, !.paths = m.paths \ {p}]
          BY <3>4 DEF RestorePath, TypeOK
        <4> QED BY <2>1, <2>3, <4>1 DEF ActiveRequests
      <3>3. CASE VerifyChange(q)
        <4> SUFFICES ASSUME request'[q].at # "idle"
                     PROVE  Owned(request'[q].seen, request'[q].run, SealedRuns)
          OBVIOUS
        <4>1. PICK t : /\ request'[q] = [m EXCEPT !.at = "decided", !.seen.settled = t]
                       /\ \/ t = m.seen.settled
                          \/ t = tree /\ m.seen.base = [head |-> head, tree |-> tree]
          BY <3>3 DEF VerifyChange, TypeOK, Idle
        <4>2. t = m.seen.settled \/ t = m.seen.base.tree
          BY <4>1
        <4>3. /\ request'[q].run = m.run
              /\ request'[q].seen = [m.seen EXCEPT !.settled = t]
          BY <2>1, <4>1 DEF ActiveRequests
        <4>4. /\ request'[q].seen.settled = t /\ request'[q].seen.base = m.seen.base
              /\ request'[q].seen.ownership = m.seen.ownership
          BY <2>1, <4>3 DEF Manifests
        <4> QED BY <2>3, <4>2, <4>3, <4>4 DEF Owned
      <3> QED BY <1>4, <3>1, <3>2, <3>3, <3>4 DEF ServeRequest
    <2> QED BY <2>1, <2>2, <2>4 DEF Attributions
  <1>5. ASSUME NEW q \in Requests, RecordResolution(q) PROVE Attributions'
    <2> DEFINE m == request[q]
    <2>1. /\ m.at # "idle" /\ m \in ActiveRequests /\ m.run \in SealedRuns /\ m.seen \in Manifests
      BY <1>5, RequestTypes DEF RecordResolution, Sealing
    <2>2. PICK d : manifest' = [manifest EXCEPT ![m.run] = [m.seen EXCEPT !.resolution = d]]
      BY <1>5 DEF RecordResolution
    <2>3. /\ request' = [request EXCEPT ![q] = Idle]
          /\ \A o \in Requests : request'[o] \in {request[o], Idle}
      BY <1>5 DEF RecordResolution, TypeOK
    <2>4. manifest'[m.run] = [m.seen EXCEPT !.resolution = d]
      BY <1>0, <2>1, <2>2 DEF TypeOK
    <2>5. /\ manifest'[m.run].settled = m.seen.settled /\ manifest'[m.run].base = m.seen.base
          /\ manifest'[m.run].ownership = m.seen.ownership
      BY <2>1, <2>4 DEF Manifests
    <2>6. Owned(manifest'[m.run], m.run, SealedRuns)
      <3>1. Owned(m.seen, m.run, SealedRuns)
        BY <2>1 DEF Attributions
      <3> QED BY <2>5, <3>1 DEF Owned
    <2>7. SealedRuns' = SealedRuns
      <3>1. \A r \in Runs \ {m.run} : manifest'[r] = manifest[r]
        BY <2>2 DEF TypeOK
      <3> QED BY <1>0, <2>1, <3>1 DEF SealedRuns
    <2>8. ASSUME NEW s \in SealedRuns' PROVE Owned(manifest'[s], s, SealedRuns')
      <3>1. CASE s = m.run
        BY <2>6, <2>7, <3>1
      <3>2. CASE s # m.run
        <4>1. manifest'[s] = manifest[s]
          BY <1>0, <2>2, <2>7, <3>2 DEF TypeOK
        <4> QED BY <2>7, <4>1 DEF Attributions
      <3> QED BY <3>1, <3>2
    <2> QED BY <2>3, <2>7, <2>8 DEF Attributions, Idle
  <1> QED BY <1>1, <1>2, <1>3, <1>4, <1>5 DEF Next, RunThread, ReserveWorktree,
        AcquireLease, RefuseLease, ValidateWorkspace, EditPath, ReturnFromRunner,
        VacateSlot, ReleaseLease, OrphanEnds, BridgeDies, OperatorEdits, OperatorCommits,
        runVars, vars

\* What the inspection found stays true until it is acted upon, unless the
\* worktree is wedged.
LEMMA InspectedStep ==
    ASSUME Serial = TRUE, LeaseNamesRun, TypeOK, InTurn, Inspected, [Next]_vars
    PROVE  Inspected'
  <1>0. ~Wedged' => ~Wedged
    BY WedgedStays
  <1>1. CASE /\ UNCHANGED <<head, tree>>
             /\ \A q \in Requests : request'[q] = request[q] \/ request'[q].at # "inspected"
    <2> SUFFICES ASSUME NEW q \in Requests, request'[q].at = "inspected", ~Wedged'
                 PROVE  /\ Allowed(request[q].kind, request[q].seen)'
                        /\ request'[q].paths = Changed(request[q].seen)'
      BY DEF Inspected
    <2>1. request'[q] = request[q] /\ head' = head /\ tree' = tree
      BY <1>1
    <2>2. /\ Allowed(request[q].kind, request[q].seen)
          /\ request[q].paths = Changed(request[q].seen)
      BY <1>0, <2>1 DEF Inspected
    <2> QED BY <2>1, <2>2 DEF Allowed, Exact, Changed
  <1>2. CASE (\A q \in Requests : request'[q].at # "inspected") \/ Wedged'
    BY <1>2 DEF Inspected
  <1>3. ASSUME NEW r \in Runs, RunThread(r) PROVE Inspected'
    <2>1. CASE \E p \in Paths : EditPath(r, p)
      <3>1. CASE step[r] = "driving"
        <4>1. request' = request /\ \A q \in Requests : request[q].at = "idle"
          BY <2>1, <3>1 DEF EditPath, InTurn
        <4> QED BY <1>2, <4>1
      <3>2. CASE step[r] = "orphaned"
        <4>1. lease = r /\ step' = step /\ lease' = lease
          BY <2>1, <3>2 DEF EditPath, runVars, LeaseNamesRun, Leased
        <4> QED BY <1>2, <3>2, <4>1 DEF Wedged
      <3> QED BY <2>1, <3>1, <3>2 DEF EditPath, Driving
    <2>2. CASE ~\E p \in Paths : EditPath(r, p)
      BY <1>1, <1>3, <2>2 DEF RunThread, AcquireLease, RefuseLease, ValidateWorkspace,
        ReturnFromRunner, SealRecovery, VacateSlot, ReleaseLease, OrphanEnds, workspace
    <2> QED BY <2>1, <2>2
  <1>4. ASSUME NEW b \in Bridges, BridgeDies(b) PROVE Inspected'
    BY <1>1, <1>4 DEF BridgeDies, workspace, Idle
  <1>5. CASE (\E p \in Paths : OperatorEdits(p)) \/ OperatorCommits
    <2>1. \A q \in Requests : request[q].at = "idle"
      BY <1>5 DEF OperatorEdits, OperatorCommits, HandsOff, InFlight
    <2> QED BY <1>2, <1>5, <2>1 DEF OperatorEdits, OperatorCommits
  <1>6. ASSUME NEW q \in Requests, NEW r \in Runs,
               NEW kind \in {"keep", "discard", "adopt"}, OpenRequest(q, kind, r)
        PROVE Inspected'
    BY <1>1, <1>6 DEF OpenRequest, workspace, TypeOK
  <1>7. ASSUME NEW q \in Requests, ServeRequest(q) PROVE Inspected'
    <2>1. /\ request[q].at # "idle"
          /\ \A o \in Requests \ {q} : request'[o] = request[o] /\ request[o].at = "idle"
      BY <1>7, ServeShape DEF InTurn
    <2>2. CASE InspectManifest(q)
      <3> DEFINE m == request[q]
      <3>1. /\ UNCHANGED <<head, tree>> /\ m \in ActiveRequests
            /\ \/ request'[q] = Idle
               \/ /\ Allowed(m.kind, m.seen)
                  /\ request'[q] = [m EXCEPT !.at = "inspected", !.paths = Changed(m.seen)]
        BY <2>1, <2>2, RequestTypes DEF InspectManifest, workspace, TypeOK
      <3>2. CASE request'[q] = Idle
        BY <1>2, <2>1, <3>2 DEF Idle
      <3>3. CASE /\ Allowed(m.kind, m.seen)
                 /\ request'[q] = [m EXCEPT !.at = "inspected", !.paths = Changed(m.seen)]
        <4>1. /\ request'[q].kind = m.kind /\ request'[q].seen = m.seen
              /\ request'[q].paths = Changed(m.seen)
          BY <3>1, <3>3 DEF ActiveRequests
        <4>2. Allowed(request[q].kind, request[q].seen)' /\ request'[q].paths = Changed(request[q].seen)'
          BY <3>1, <3>3, <4>1 DEF Allowed, Exact, Changed
        <4> QED BY <2>1, <4>2 DEF Inspected
      <3> QED BY <3>1, <3>2, <3>3
    <2>3. CASE ~InspectManifest(q)
      BY <1>2, <1>7, <2>1, <2>3, ServeShape
    <2> QED BY <2>2, <2>3
  <1>8. CASE UNCHANGED <<head, tree, request>>
    BY <1>1, <1>8
  <1> QED BY <1>3, <1>4, <1>5, <1>6, <1>7, <1>8 DEF Next, ReserveWorktree, workspace, vars

-----------------------------------------------------------------------------
RecoveryInv ==
    LeaseNamesRun /\ TypeOK /\ InTurn /\ Sealing /\ Attributed /\ WorkInv

LEMMA RecoveryInit == Init => RecoveryInv
  <1> SUFFICES ASSUME Init PROVE RecoveryInv
    OBVIOUS
  <1>1. LeaseNamesRun /\ TypeOK
    BY InitLease, TypeInit
  <1>2. InTurn /\ Attributed /\ Inspected
    BY DEF Init, InTurn, Attributed, Inspected, Idle
  <1>3. Sealing
    BY DEF Init, Sealing, SealedRuns, Idle
  <1>4. Baselines /\ Attributions /\ Driven
    BY DEF Init, Baselines, Attributions, Driven, SealedRuns, Idle
  <1> QED BY <1>1, <1>2, <1>3, <1>4 DEF RecoveryInv, WorkInv

LEMMA RecoveryStep ==
    ASSUME Serial = TRUE, SealMayFail = FALSE, RecoveryInv, [Next]_vars
    PROVE  RecoveryInv'
  BY NextLease, TypeStep, AttributedStep, TurnStep, SealingStep, BaselinesStep, AttributionsStep,
     DrivenStep, InspectedStep DEF RecoveryInv, WorkInv

-----------------------------------------------------------------------------
\* Every variable keeps its type, for any bridges, runs, paths and requests,
\* whatever the operator does and whatever fails.
THEOREM TypeCorrect == Spec => []TypeOK
  <1>1. Init => TypeOK /\ Attributed
    BY TypeInit DEF Init, Attributed, Idle
  <1>2. TypeOK /\ Attributed /\ [Next]_vars => (TypeOK /\ Attributed)'
    BY TypeStep, AttributedStep
  <1> QED BY <1>1, <1>2, PTL DEF Spec

\* While the operator acts in turn and freezing a manifest does not fail, what
\* a run starts from is committed or the work of other, settled runs
\* (run_recovery.py, adopt_manifest_as_baseline; aaw_bridge.py, start_run).
THEOREM BaselineIsRunWorkHolds ==
    ASSUME Serial = TRUE, SealMayFail = FALSE
    PROVE  Spec => []BaselineIsRunWork
  <1>1. RecoveryInv /\ [Next]_vars => RecoveryInv'
    BY RecoveryStep
  <1>2. RecoveryInv => BaselineIsRunWork
    BY DEF RecoveryInv, WorkInv, Baselines, RunWork, BaselineIsRunWork, SealedRuns
  <1> QED BY <1>1, <1>2, RecoveryInit, PTL DEF Spec

-----------------------------------------------------------------------------
(* The Control Center's queues (TaskQueues).                                *)

(* What the guards of the queues rely on: whatever thread, process or       *)
(* completion of a queue is still to be heard of is the only one of its     *)
(* queue, and the documents say that its task runs.  A queue is excused as  *)
(* long as it holds one that they do not know of.                           *)
Records(docs) ==
  /\ DOMAIN docs = {"queue", "task", "jobs"}
  /\ DOMAIN docs.queue = Queues /\ DOMAIN docs.task = Tasks
  /\ \A q \in Queues : DOMAIN docs.queue[q] = {"status", "pause"}
  /\ \A q \in Queues : docs.queue[q].pause \in BOOLEAN
  /\ \A t \in Tasks : DOMAIN docs.task[t] = {"status", "pid"}
  /\ \A j \in docs.jobs : DOMAIN j = {"id", "task", "pid", "watched"} /\ j.task \in Tasks

Filed(ts) ==
  /\ ts \in [Queues -> Seq(Tasks)]
  /\ \A q \in Queues : \A t \in ToSet(ts[q]) : QueueOf[t] = q

Posted(es) ==
  /\ es \in Seq([task : Tasks, pid : Pids] \cup [task : Tasks, result : Results])

\* Does event m of es tell that a task of queue q has ended?
Done(es, m, q) == m \in DOMAIN es /\ IsComplete(es[m]) /\ QueueOf[es[m].task] = q

OnlyOne(js, es, q) ==
  /\ \A i, j \in js : QueueOf[i.task] = q /\ QueueOf[j.task] = q => i = j
  /\ \A m, n \in DOMAIN es : Done(es, m, q) /\ Done(es, n, q) => m = n
  /\ \A j \in js : \A m \in DOMAIN es : ~(QueueOf[j.task] = q /\ Done(es, m, q))

RunsIn(docs, ts, q, t) ==
  /\ docs.queue[q].status = "RUNNING"
  /\ t \in ToSet(ts[q]) /\ docs.task[t].status = "RUNNING"

Known(docs, es, ts, q) ==
  /\ \A j \in docs.jobs : QueueOf[j.task] = q => RunsIn(docs, ts, q, j.task)
  /\ \A m \in DOMAIN es : Done(es, m, q) => RunsIn(docs, ts, q, es[m].task)

InSight(docs, es, ts, ex) ==
  \A q \in Queues \ ex : OnlyOne(docs.jobs, es, q) /\ Known(docs, es, ts, q)

QueueInv ==
  /\ Records(Docs) /\ Filed(tasks) /\ Posted(events)
  /\ gate \in Tasks \cup {NoTask}
  /\ InSight(Docs, events, tasks, excused)

\* A queue that may not go on is not among those that start by themselves, and
\* if a task of it still runs, the request to pause is on record.
Halted(q) ==
  /\ queue[q].status # "WAITING"
  /\ queue[q].status = "RUNNING" => queue[q].pause

HaltInv == stopped \subseteq Queues /\ \A q \in stopped : Halted(q)
-----------------------------------------------------------------------------
LEMMA Induction ==
  ASSUME NEW S, 0 \in S, \A n \in Nat : n \in S => n + 1 \in S
  PROVE  Nat \subseteq S
  <1> DEFINE R == OpToRel(<, Nat)
             T == Nat \ S
  <1> SUFFICES ASSUME T # {} PROVE FALSE
    OBVIOUS
  <1>1. IsWellFoundedOn(R, Nat)
    BY NatLessThanWellFounded
  <1>2. \A a, b \in Nat : a < b => <<a, b>> \in R
    BY DEF OpToRel
  <1>3. T \subseteq Nat
    OBVIOUS
  <1> HIDE DEF R
  <1>4. PICK x \in T : \A y \in T : ~(<<y, x>> \in R)
    <2> HIDE DEF T
    <2> QED
      BY <1>1, <1>3, WFMin
  <1>5. x \in Nat /\ x # 0
    OBVIOUS
  <1>6. x - 1 \in Nat /\ x - 1 < x /\ x = (x - 1) + 1
    BY <1>5
  <1>7. x - 1 \in S
    BY <1>2, <1>4, <1>5, <1>6
  <1> QED
    BY <1>6, <1>7

\* Min is meant: a set of positions that is not empty has a least one.
LEMMA LeastIsIn ==
  ASSUME NEW S \in SUBSET Nat, S # {}
  PROVE  Min(S) \in S
  <1> DEFINE R == OpToRel(<, Nat)
  <1>1. IsWellFoundedOn(R, Nat)
    BY NatLessThanWellFounded
  <1>2. \A a, b \in Nat : a < b => <<a, b>> \in R
    BY DEF OpToRel
  <1> HIDE DEF R
  <1>3. PICK x \in S : \A y \in S : ~(<<y, x>> \in R)
    BY <1>1, WFMin
  <1>4. \A y \in S : x =< y
    <2> TAKE y \in S
    <2>1. x \in Nat /\ y \in Nat /\ ~(y < x)
      BY <1>2, <1>3
    <2> QED
      BY <2>1
  <1> QED
    BY <1>3, <1>4 DEF Min

\* What a search through the tasks of a queue finds.
LEMMA NextWaitingIs ==
  ASSUME NEW docs, NEW q \in Queues, Filed(tasks),
         NEW i, i = NextWaiting(docs, q), i # 0
  PROVE  /\ i \in DOMAIN tasks[q] /\ tasks[q][i] \in ToSet(tasks[q])
         /\ docs.task[tasks[q][i]].status = "WAITING"
  <1> DEFINE I == {k \in 1..Len(tasks[q]) : docs.task[tasks[q][k]].status = "WAITING"}
  <1>1. Len(tasks[q]) \in Nat /\ DOMAIN tasks[q] = 1..Len(tasks[q])
    BY DEF Filed
  <1>2. i = IF I # {} THEN Min(I) ELSE 0
    BY DEF NextWaiting, SelectInSeq
  <1>3. I \in SUBSET Nat
    BY <1>1
  <1>4. I # {} /\ i = Min(I)
    BY <1>2
  <1> HIDE DEF I
  <1>5. i \in I
    BY <1>3, <1>4, LeastIsIn
  <1> QED
    BY <1>1, <1>5 DEF I, ToSet

LEMMA InterruptedIs ==
  ASSUME NEW q \in Queues, Filed(tasks), NEW i, i = Interrupted(q), i # 0
  PROVE  /\ i \in DOMAIN tasks[q] /\ tasks[q][i] \in ToSet(tasks[q])
         /\ task[tasks[q][i]].status = "INTERRUPTED"
  <1> DEFINE I == {k \in 1..Len(tasks[q]) : task[tasks[q][k]].status = "INTERRUPTED"}
  <1>1. Len(tasks[q]) \in Nat /\ DOMAIN tasks[q] = 1..Len(tasks[q])
    BY DEF Filed
  <1>2. i = IF I # {} THEN Min(I) ELSE 0
    BY DEF Interrupted, SelectInSeq
  <1>3. I \in SUBSET Nat
    BY <1>1
  <1>4. I # {} /\ i = Min(I)
    BY <1>2
  <1> HIDE DEF I
  <1>5. i \in I
    BY <1>3, <1>4, LeastIsIn
  <1> QED
    BY <1>1, <1>5 DEF I, ToSet

(* The ways _start_queue leaves the documents.                              *)
Blocked(docs, q, t) == [SetStatus(docs, q, "BLOCKED") EXCEPT !.task[t].status = "BLOCKED"]

MayStart(docs, q, t) ==
  /\ docs.queue[q].status # "RUNNING"
  /\ t \in ToSet(tasks[q]) /\ docs.task[t].status = "WAITING"

LEMMA StartQueueIs ==
  ASSUME NEW docs, NEW q \in Queues, NEW bad, Filed(tasks),
         NEW s, s = StartQueue(docs, q, bad)
  PROVE  \/ s = docs
         \/ /\ docs.queue[q].status # "RUNNING"
            /\ \E x \in {"WAITING", "COMPLETED", "PAUSED"} : s = SetStatus(docs, q, x)
         \/ \E t \in ToSet(tasks[q]) :
              /\ MayStart(docs, q, t)
              /\ s = Blocked(docs, q, t)
         \/ \E t \in ToSet(tasks[q]) :
              /\ MayStart(docs, q, t)
              /\ s = Dispatch(docs, q, t)
  <1> PICK i : i = NextWaiting(docs, q)
    OBVIOUS
  <1> PICK t : t = tasks[q][i]
    OBVIOUS
  <1> PICK x : /\ x \in {"COMPLETED", "PAUSED"}
               /\ x = IF tasks[q] # << >> /\ \A u \in ToSet(tasks[q]) : docs.task[u].status = "PASS"
                      THEN "COMPLETED" ELSE "PAUSED"
    OBVIOUS
  <1>1. CASE docs.queue[q].status = "RUNNING"
    BY <1>1 DEF StartQueue
  <1>2. CASE docs.queue[q].status # "RUNNING" /\ active_queue_count(docs) >= maximum'
    BY <1>2 DEF StartQueue
  <1>3. CASE ~(docs.queue[q].status = "RUNNING") /\ ~(active_queue_count(docs) >= maximum')
    <2>1. s = IF i = 0 THEN SetStatus(docs, q, x)
              ELSE IF worktree_in_use(docs, q, t) THEN SetStatus(docs, q, "WAITING")
              ELSE IF t \in bad THEN Blocked(docs, q, t)
              ELSE Dispatch(docs, q, t)
      BY <1>3 DEF StartQueue, Blocked
    <2>2. i # 0 => t \in ToSet(tasks[q]) /\ MayStart(docs, q, t)
      BY <1>3, NextWaitingIs DEF MayStart
    <2> QED
      BY <1>3, <2>1, <2>2
  <1> QED
    BY <1>1, <1>2, <1>3

-----------------------------------------------------------------------------
(* A method that leaves the threads, the running tasks and the queues that   *)
(* run as they are leaves everything in sight.                               *)
LEMMA SameSight ==
  ASSUME NEW docs, NEW s, NEW es, NEW ts, NEW ex, InSight(docs, es, ts, ex),
         s.jobs = docs.jobs,
         \A q \in Queues : docs.queue[q].status = "RUNNING" => s.queue[q].status = "RUNNING",
         \A q \in Queues \ ex : \A t \in ToSet(ts[q]) :
           docs.task[t].status = "RUNNING" => s.task[t].status = "RUNNING"
  PROVE  InSight(s, es, ts, ex)
  <1>1. ASSUME NEW q \in Queues \ ex PROVE OnlyOne(s.jobs, es, q) /\ Known(s, es, ts, q)
    BY DEF InSight, Known, RunsIn
  <1> QED
    BY <1>1 DEF InSight

LEMMA LaunchIs ==
  ASSUME NEW js, NEW t
  PROVE  \E j : /\ DOMAIN j = {"id", "task", "pid", "watched"} /\ j.task = t
                /\ Launch(js, t) = js \cup {j}
  <1> PICK j : j = [id |-> CHOOSE i \in JobIds \ {k.id : k \in js} :
                             \A l \in JobIds \ {k.id : k \in js} : i <= l,
                    task |-> t, pid |-> NoPid, watched |-> TRUE]
    OBVIOUS
  <1>1. DOMAIN j = {"id", "task", "pid", "watched"} /\ j.task = t
    OBVIOUS
  <1>2. Launch(js, t) = js \cup {j}
    BY DEF Launch
  <1> QED
    BY <1>1, <1>2

LEMMA StatusKeepsSight ==
  ASSUME NEW docs, NEW es, NEW ts, NEW ex, NEW q \in Queues, NEW x, NEW s,
         Records(docs), InSight(docs, es, ts, ex),
         docs.queue[q].status # "RUNNING", s = SetStatus(docs, q, x)
  PROVE  /\ Records(s) /\ InSight(s, es, ts, ex)
         /\ s.queue[q].status = x /\ s.queue[q].pause = docs.queue[q].pause
         /\ s.task = docs.task /\ s.jobs = docs.jobs
         /\ \A o \in Queues : o # q => s.queue[o] = docs.queue[o]
  <1>1. /\ s.task = docs.task /\ s.jobs = docs.jobs /\ DOMAIN s = DOMAIN docs
        /\ DOMAIN s.queue = DOMAIN docs.queue
        /\ \A o \in Queues : o # q => s.queue[o] = docs.queue[o]
    BY DEF SetStatus, Records
  <1>2. /\ s.queue[q].status = x /\ s.queue[q].pause = docs.queue[q].pause
        /\ DOMAIN s.queue[q] = {"status", "pause"}
    BY DEF SetStatus, Records
  <1>3. Records(s)
    BY <1>1, <1>2 DEF Records
  <1>4. \A o \in Queues : docs.queue[o].status = "RUNNING" => s.queue[o].status = "RUNNING"
    BY <1>1
  <1>5. InSight(s, es, ts, ex)
    BY <1>1, <1>4, SameSight
  <1> QED
    BY <1>1, <1>2, <1>3, <1>5

\* A task whose spec is not available blocks its queue.
LEMMA BlockedKeepsSight ==
  ASSUME NEW docs, NEW es, NEW ex, NEW q \in Queues, NEW t, NEW s,
         Records(docs), Filed(tasks), InSight(docs, es, tasks, ex), MayStart(docs, q, t),
         s = Blocked(docs, q, t)
  PROVE  /\ Records(s) /\ InSight(s, es, tasks, ex)
         /\ s.jobs = docs.jobs /\ QueueOf[t] = q
         /\ \A o \in Queues : o # q => s.queue[o] = docs.queue[o]
         /\ \A u \in Tasks : u # t => s.task[u] = docs.task[u]
         /\ s.task[t].status = "BLOCKED" /\ s.queue[q].status = "BLOCKED"
  <1> PICK m : m = SetStatus(docs, q, "BLOCKED")
    OBVIOUS
  <1>1. /\ Records(m) /\ InSight(m, es, tasks, ex) /\ m.queue[q].status = "BLOCKED"
        /\ m.task = docs.task /\ m.jobs = docs.jobs
        /\ \A o \in Queues : o # q => m.queue[o] = docs.queue[o]
    <2>1. docs.queue[q].status # "RUNNING"
      BY DEF MayStart
    <2>2. Records(m) /\ InSight(m, es, tasks, ex)
      BY <2>1, StatusKeepsSight
    <2>3. m.queue[q].status = "BLOCKED"
      BY DEF SetStatus, Records
    <2>4. m.task = docs.task /\ m.jobs = docs.jobs
      BY DEF SetStatus, Records
    <2>5. \A o \in Queues : o # q => m.queue[o] = docs.queue[o]
      BY DEF SetStatus, Records
    <2> QED
      BY <2>2, <2>3, <2>4, <2>5
  <1>2. QueueOf[t] = q /\ t \in Tasks /\ docs.task[t].status = "WAITING"
    BY DEF MayStart, Filed, ToSet
  <1>3. s = [m EXCEPT !.task[t].status = "BLOCKED"]
    BY DEF Blocked
  <1>4. /\ s.queue = m.queue /\ s.jobs = m.jobs /\ DOMAIN s = DOMAIN m
        /\ DOMAIN s.task = DOMAIN m.task
        /\ \A u \in Tasks : u # t => s.task[u] = m.task[u]
    BY <1>1, <1>2, <1>3 DEF Records
  <1>5. s.task[t].status = "BLOCKED" /\ DOMAIN s.task[t] = {"status", "pid"}
    BY <1>1, <1>2, <1>3 DEF Records
  <1>6. Records(s)
    BY <1>1, <1>4, <1>5 DEF Records
  <1>7. \A o \in Queues \ ex : \A u \in ToSet(tasks[o]) :
          m.task[u].status = "RUNNING" => s.task[u].status = "RUNNING"
    <2> SUFFICES ASSUME NEW o \in Queues, NEW u \in ToSet(tasks[o]),
                        m.task[u].status = "RUNNING"
                 PROVE  s.task[u].status = "RUNNING"
      OBVIOUS
    <2>1. u \in Tasks
      BY DEF Filed, ToSet
    <2> QED
      BY <2>1, <1>1, <1>2, <1>4
  <1>8. \A o \in Queues : m.queue[o].status = "RUNNING" => s.queue[o].status = "RUNNING"
    BY <1>4
  <1>9. s.jobs = m.jobs
    BY <1>4
  <1>10. InSight(s, es, tasks, ex)
    BY <1>1, <1>7, <1>8, <1>9, SameSight
  <1> QED
    BY <1>1, <1>2, <1>4, <1>5, <1>6, <1>10

\* A task that is started: its queue has nothing open.
LEMMA DispatchKeepsSight ==
  ASSUME NEW docs, NEW es, NEW ex, NEW q \in Queues, NEW t, NEW s,
         Records(docs), Filed(tasks), InSight(docs, es, tasks, ex), MayStart(docs, q, t),
         s = Dispatch(docs, q, t)
  PROVE  /\ Records(s) /\ InSight(s, es, tasks, ex)
         /\ QueueOf[t] = q
         /\ \A o \in Queues : o # q => s.queue[o] = docs.queue[o]
         /\ \A u \in Tasks : u # t => s.task[u] = docs.task[u]
  <1>1. QueueOf[t] = q /\ t \in Tasks /\ t \in ToSet(tasks[q])
    BY DEF MayStart, Filed, ToSet
  <1> PICK j : /\ DOMAIN j = {"id", "task", "pid", "watched"} /\ j.task = t
               /\ Launch(docs.jobs, t) = docs.jobs \cup {j}
    BY LaunchIs
  <1>2. /\ s.jobs = docs.jobs \cup {j} /\ DOMAIN s = {"queue", "task", "jobs"}
        /\ s.queue = [docs.queue EXCEPT ![q] = [status |-> "RUNNING", pause |-> FALSE]]
        /\ s.task = [docs.task EXCEPT ![t] = [status |-> "RUNNING", pid |-> NoPid]]
    BY DEF Dispatch
  <1>3. /\ DOMAIN s.queue = DOMAIN docs.queue
        /\ \A o \in Queues : o # q => s.queue[o] = docs.queue[o]
        /\ s.queue[q].status = "RUNNING"
        /\ DOMAIN s.queue[q] = {"status", "pause"} /\ s.queue[q].pause \in BOOLEAN
    <2> PICK r : r = [status |-> "RUNNING", pause |-> FALSE]
      OBVIOUS
    <2>1. DOMAIN r = {"status", "pause"} /\ r.status = "RUNNING" /\ r.pause \in BOOLEAN
      OBVIOUS
    <2> QED
      BY <1>2, <2>1 DEF Records
  <1>4. /\ DOMAIN s.task = DOMAIN docs.task
        /\ \A u \in Tasks : u # t => s.task[u] = docs.task[u]
        /\ s.task[t] = [status |-> "RUNNING", pid |-> NoPid]
    BY <1>1, <1>2 DEF Records
  <1>5. Records(s)
    <2>1. \A o \in Queues : DOMAIN s.queue[o] = {"status", "pause"} /\ s.queue[o].pause \in BOOLEAN
      BY <1>3 DEF Records
    <2>2. \A u \in Tasks : DOMAIN s.task[u] = {"status", "pid"}
      BY <1>4 DEF Records
    <2>3. \A k \in s.jobs : DOMAIN k = {"id", "task", "pid", "watched"} /\ k.task \in Tasks
      BY <1>1, <1>2 DEF Records
    <2> QED
      BY <1>2, <1>3, <1>4, <2>1, <2>2, <2>3 DEF Records
  <1>6. ASSUME NEW o \in Queues \ ex PROVE OnlyOne(s.jobs, es, o) /\ Known(s, es, tasks, o)
    <2>1. OnlyOne(docs.jobs, es, o) /\ Known(docs, es, tasks, o)
      BY DEF InSight
    <2>2. CASE o = q
      <3>1. /\ \A i \in docs.jobs : QueueOf[i.task] # q
            /\ \A m \in DOMAIN es : ~Done(es, m, q)
        BY <2>1, <2>2 DEF Known, RunsIn, MayStart
      <3>2. OnlyOne(s.jobs, es, q)
        BY <1>2, <3>1 DEF OnlyOne
      <3>3. Known(s, es, tasks, q)
        BY <1>1, <1>2, <1>3, <1>4, <3>1 DEF Known, RunsIn
      <3> QED
        BY <2>2, <3>2, <3>3
    <2>3. CASE o # q
      <3>1. OnlyOne(s.jobs, es, o)
        BY <1>1, <1>2, <2>1, <2>3 DEF OnlyOne
      <3>2. ASSUME NEW u, RunsIn(docs, tasks, o, u) PROVE RunsIn(s, tasks, o, u)
        <4>1. u \in Tasks /\ u # t
          BY <1>1, <2>3, <3>2 DEF RunsIn, Filed, ToSet
        <4> QED
          BY <1>3, <1>4, <2>3, <3>2, <4>1 DEF RunsIn
      <3>3. Known(s, es, tasks, o)
        BY <1>1, <1>2, <2>1, <2>3, <3>2 DEF Known
      <3> QED
        BY <3>1, <3>3
    <2> QED
      BY <2>2, <2>3
  <1> QED
    BY <1>1, <1>3, <1>4, <1>5, <1>6 DEF InSight

\* _start_queue keeps everything in sight and leaves the other queues alone.
LEMMA StartQueueKeeps ==
  ASSUME NEW docs, NEW es, NEW ex, NEW q \in Queues, NEW bad, NEW s,
         Records(docs), Filed(tasks), InSight(docs, es, tasks, ex),
         s = StartQueue(docs, q, bad)
  PROVE  /\ Records(s) /\ InSight(s, es, tasks, ex)
         /\ \A o \in Queues : o # q => s.queue[o] = docs.queue[o]
         /\ \A u \in Tasks : QueueOf[u] # q => s.task[u] = docs.task[u]
  <1>1. CASE s = docs
    BY <1>1
  <1>2. ASSUME NEW x, docs.queue[q].status # "RUNNING", s = SetStatus(docs, q, x)
        PROVE  /\ Records(s) /\ InSight(s, es, tasks, ex)
               /\ \A o \in Queues : o # q => s.queue[o] = docs.queue[o]
               /\ \A u \in Tasks : QueueOf[u] # q => s.task[u] = docs.task[u]
    <2>1. /\ Records(s) /\ InSight(s, es, tasks, ex) /\ s.task = docs.task
          /\ \A o \in Queues : o # q => s.queue[o] = docs.queue[o]
      BY <1>2, StatusKeepsSight
    <2> QED
      BY <2>1
  <1>3. ASSUME NEW t \in ToSet(tasks[q]), MayStart(docs, q, t),
               s = Blocked(docs, q, t)
        PROVE  /\ Records(s) /\ InSight(s, es, tasks, ex)
               /\ \A o \in Queues : o # q => s.queue[o] = docs.queue[o]
               /\ \A u \in Tasks : QueueOf[u] # q => s.task[u] = docs.task[u]
    <2>1. /\ Records(s) /\ InSight(s, es, tasks, ex) /\ QueueOf[t] = q
          /\ \A o \in Queues : o # q => s.queue[o] = docs.queue[o]
          /\ \A u \in Tasks : u # t => s.task[u] = docs.task[u]
      BY <1>3, BlockedKeepsSight
    <2> QED
      BY <2>1
  <1>4. ASSUME NEW t \in ToSet(tasks[q]), MayStart(docs, q, t),
               s = Dispatch(docs, q, t)
        PROVE  /\ Records(s) /\ InSight(s, es, tasks, ex)
               /\ \A o \in Queues : o # q => s.queue[o] = docs.queue[o]
               /\ \A u \in Tasks : QueueOf[u] # q => s.task[u] = docs.task[u]
    <2>1. /\ Records(s) /\ InSight(s, es, tasks, ex) /\ QueueOf[t] = q
          /\ \A o \in Queues : o # q => s.queue[o] = docs.queue[o]
          /\ \A u \in Tasks : u # t => s.task[u] = docs.task[u]
      BY <1>4, DispatchKeepsSight
    <2> QED
      BY <2>1
  <1> QED
    BY <1>1, <1>2, <1>3, <1>4, StartQueueIs

-----------------------------------------------------------------------------
(* _start_waiting_queues goes through the queues in the order of their       *)
(* documents.  That the loop is well defined, and that each round keeps what *)
(* _start_queue keeps, is shown by induction over the rounds.                *)
Round(g, docs, bad, i) ==
  IF i = 0 THEN docs
  ELSE IF g[i - 1].queue[Order[i]].status = "WAITING"
       THEN StartQueue(g[i - 1], Order[i], bad)
       ELSE g[i - 1]
Rounds(g, docs, bad, n) == g = [i \in 0..n |-> Round(g, docs, bad, i)]

LEMMA RoundsExist ==
  ASSUME NEW docs, NEW bad, NEW m \in Nat
  PROVE  \E g : Rounds(g, docs, bad, m)
  <1> DEFINE S == {n \in Nat : \E g : Rounds(g, docs, bad, n)}
  <1>1. 0 \in S
    <2> DEFINE g0 == [i \in 0..0 |-> docs]
    <2>1. Rounds(g0, docs, bad, 0)
      BY DEF Rounds, Round
    <2> QED
      BY <2>1
  <1>2. ASSUME NEW n \in S PROVE n + 1 \in S
    <2>1. PICK g : Rounds(g, docs, bad, n)
      OBVIOUS
    <2> DEFINE h == [i \in 0..n + 1 |-> IF i <= n THEN g[i] ELSE Round(g, docs, bad, i)]
    <2>2. n \in Nat
      OBVIOUS
    <2>3. ASSUME NEW i \in 0..n + 1 PROVE h[i] = Round(h, docs, bad, i)
      <3>1. CASE i <= n
        <4>1. h[i] = g[i] /\ (i # 0 => h[i - 1] = g[i - 1])
          BY <2>2, <3>1
        <4>2. g[i] = Round(g, docs, bad, i)
          BY <2>1, <2>2, <3>1 DEF Rounds
        <4> QED
          BY <4>1, <4>2 DEF Round
      <3>2. CASE i = n + 1
        <4>1. h[i - 1] = g[i - 1] /\ h[i] = Round(g, docs, bad, i)
          BY <2>2, <3>2
        <4> QED
          BY <4>1, <2>2, <3>2 DEF Round
      <3> QED
        BY <2>2, <3>1, <3>2
    <2>4. Rounds(h, docs, bad, n + 1)
      BY <2>3 DEF Rounds
    <2> HIDE DEF h
    <2> QED
      BY <2>2, <2>4
  <1>3. Nat \subseteq S
    <2> HIDE DEF S
    <2> QED
      BY <1>1, <1>2, Induction
  <1> QED
    BY <1>3

LEMMA StartWaitingIs ==
  ASSUME NEW docs, NEW bad
  PROVE  \E g : Rounds(g, docs, bad, Len(Order)) /\ StartWaiting(docs, bad) = g[Len(Order)]
  <1>1. Len(Order) \in Nat
    BY QueueAssumption
  <1> DEFINE after == CHOOSE g : g = [i \in 0..Len(Order) |->
        IF i = 0 THEN docs
        ELSE IF g[i - 1].queue[Order[i]].status = "WAITING"
             THEN StartQueue(g[i - 1], Order[i], bad)
             ELSE g[i - 1]]
  <1>2. Rounds(after, docs, bad, Len(Order))
    <2> PICK g : Rounds(g, docs, bad, Len(Order))
      BY <1>1, RoundsExist
    <2>1. g = [i \in 0..Len(Order) |->
        IF i = 0 THEN docs
        ELSE IF g[i - 1].queue[Order[i]].status = "WAITING"
             THEN StartQueue(g[i - 1], Order[i], bad)
             ELSE g[i - 1]]
      BY DEF Rounds, Round
    <2>2. after = [i \in 0..Len(Order) |->
        IF i = 0 THEN docs
        ELSE IF after[i - 1].queue[Order[i]].status = "WAITING"
             THEN StartQueue(after[i - 1], Order[i], bad)
             ELSE after[i - 1]]
      BY <2>1
    <2> HIDE DEF after
    <2> QED
      BY <2>2 DEF Rounds, Round
  <1>3. StartWaiting(docs, bad) = after[Len(Order)]
    BY DEF StartWaiting
  <1> QED
    BY <1>2, <1>3

\* What the rounds so far have kept.
RoundKeeps(docs, s, es, ex) ==
  /\ Records(s) /\ InSight(s, es, tasks, ex)
  /\ \A o \in Queues : docs.queue[o].status # "WAITING" =>
       /\ s.queue[o] = docs.queue[o]
       /\ \A u \in Tasks : QueueOf[u] = o => s.task[u] = docs.task[u]

LEMMA StartWaitingKeeps ==
  ASSUME NEW docs, NEW es, NEW ex, NEW bad, NEW s,
         Records(docs), Filed(tasks), InSight(docs, es, tasks, ex),
         s = StartWaiting(docs, bad)
  PROVE  RoundKeeps(docs, s, es, ex)
  <1>1. Len(Order) \in Nat /\ \A i \in 1..Len(Order) : Order[i] \in Queues
    BY QueueAssumption
  <1>2. PICK g : Rounds(g, docs, bad, Len(Order)) /\ s = g[Len(Order)]
    BY StartWaitingIs
  <1> DEFINE S == {i \in Nat : i <= Len(Order) => RoundKeeps(docs, g[i], es, ex)}
  <1>3. 0 \in S
    <2>1. g[0] = docs
      BY <1>1, <1>2 DEF Rounds, Round
    <2> QED
      BY <2>1 DEF RoundKeeps
  <1>4. ASSUME NEW i \in Nat, i \in S PROVE i + 1 \in S
    <2> SUFFICES ASSUME i + 1 <= Len(Order) PROVE RoundKeeps(docs, g[i + 1], es, ex)
      OBVIOUS
    <2>1. i + 1 \in 1..Len(Order) /\ i + 1 \in 0..Len(Order) /\ i + 1 # 0 /\ (i + 1) - 1 = i
      BY <1>1
    <2>2. RoundKeeps(docs, g[i], es, ex)
      BY <1>1, <1>4
    <2> PICK q : q = Order[i + 1] /\ q \in Queues
      BY <1>1, <2>1
    <2>3. g[i + 1] = Round(g, docs, bad, i + 1)
      BY <1>2, <2>1 DEF Rounds
    <2>4. g[i + 1] = IF g[i].queue[q].status = "WAITING" THEN StartQueue(g[i], q, bad) ELSE g[i]
      BY <2>1, <2>3 DEF Round
    <2>5. CASE g[i].queue[q].status # "WAITING"
      BY <2>2, <2>4, <2>5
    <2>6. CASE g[i].queue[q].status = "WAITING"
      <3>1. g[i + 1] = StartQueue(g[i], q, bad)
        BY <2>4, <2>6
      <3>2. /\ Records(g[i + 1]) /\ InSight(g[i + 1], es, tasks, ex)
            /\ \A o \in Queues : o # q => g[i + 1].queue[o] = g[i].queue[o]
            /\ \A u \in Tasks : QueueOf[u] # q => g[i + 1].task[u] = g[i].task[u]
        BY <2>2, <3>1, StartQueueKeeps DEF RoundKeeps
      <3>3. ASSUME NEW o \in Queues, docs.queue[o].status # "WAITING" PROVE o # q
        BY <2>2, <2>6, <3>3 DEF RoundKeeps
      <3> QED
        BY <2>2, <3>2, <3>3 DEF RoundKeeps
    <2> QED
      BY <2>5, <2>6
  <1>5. Nat \subseteq S
    <2> HIDE DEF S
    <2> QED
      BY <1>3, <1>4, Induction
  <1> QED
    BY <1>1, <1>2, <1>5

-----------------------------------------------------------------------------
(* What threads, processes and events do to what is in sight.               *)
LEMMA MoreExcused ==
  ASSUME NEW docs, NEW es, NEW ts, NEW ex, NEW ex2, InSight(docs, es, ts, ex), ex \subseteq ex2
  PROVE  InSight(docs, es, ts, ex2)
  BY DEF InSight

\* An excuse may lapse once its queue has nothing open.
LEMMA ExcuseLapses ==
  ASSUME NEW docs, NEW es, NEW ts, NEW ex, NEW ex2, Records(docs), InSight(docs, es, ts, ex),
         ex2 = {q \in ex : Open(q, docs.jobs, es)}
  PROVE  InSight(docs, es, ts, ex2)
  <1>1. ASSUME NEW q \in Queues \ ex2 PROVE OnlyOne(docs.jobs, es, q) /\ Known(docs, es, ts, q)
    <2>1. CASE q \notin ex
      BY <2>1 DEF InSight
    <2>2. CASE q \in ex
      <3>1. ~Open(q, docs.jobs, es)
        BY <2>2
      <3>2. /\ \A j \in docs.jobs : QueueOf[j.task] # q
            /\ \A m \in DOMAIN es : ~Done(es, m, q)
        BY <3>1 DEF Open, Done, ToSet
      <3> QED
        BY <3>2 DEF OnlyOne, Known
    <2> QED
      BY <2>1, <2>2
  <1> QED
    BY <1>1 DEF InSight

LEMMA AppendIs ==
  ASSUME NEW es, NEW e, NEW E, es \in Seq(E), NEW fs, fs = Append(es, e)
  PROVE  /\ \A m \in DOMAIN es : m \in DOMAIN fs /\ fs[m] = es[m]
         /\ \A m \in DOMAIN fs : m \in DOMAIN es \/ fs[m] = e
         /\ \A m, n \in DOMAIN fs : m \in DOMAIN es \/ n \in DOMAIN es \/ m = n
  OBVIOUS

LEMMA AppendKept ==
  ASSUME NEW es, NEW e, NEW E, es \in Seq(E), NEW fs, fs = Append(es, e)
  PROVE  \A q : \A m \in DOMAIN es : Done(fs, m, q) => Done(es, m, q)
  BY AppendIs DEF Done

\* A process is spawned: its thread tells so, and goes on.
Goes(docs, s, es, fs, E, j, k, e) ==
  /\ es \in Seq(E) /\ fs = Append(es, e) /\ ~IsComplete(e)
  /\ s.queue = docs.queue /\ s.task = docs.task
  /\ j \in docs.jobs /\ s.jobs = (docs.jobs \ {j}) \cup {k} /\ k.task = j.task

LEMMA SpawnKeepsSight ==
  ASSUME NEW docs, NEW s, NEW es, NEW fs, NEW ts, NEW ex, NEW E, NEW j, NEW k, NEW e,
         InSight(docs, es, ts, ex), Goes(docs, s, es, fs, E, j, k, e)
  PROVE  InSight(s, fs, ts, ex)
  <1> USE DEF Goes
  <1>1. \A q : \A m \in DOMAIN fs : Done(fs, m, q) =>
          m \in DOMAIN es /\ fs[m] = es[m] /\ Done(es, m, q)
    <2> SUFFICES ASSUME NEW q, NEW m \in DOMAIN fs, Done(fs, m, q)
                 PROVE  m \in DOMAIN es /\ fs[m] = es[m] /\ Done(es, m, q)
      OBVIOUS
    <2>1. m \in DOMAIN es
      BY AppendIs DEF Done
    <2> QED
      BY <2>1, AppendIs DEF Done
  <1>2. ASSUME NEW q \in Queues \ ex PROVE OnlyOne(s.jobs, fs, q) /\ Known(s, fs, ts, q)
    <2>1. OnlyOne(docs.jobs, es, q) /\ Known(docs, es, ts, q)
      BY DEF InSight
    <2>2. OnlyOne(s.jobs, fs, q)
      BY <1>1, <2>1 DEF OnlyOne
    <2>3. Known(s, fs, ts, q)
      BY <1>1, <2>1 DEF Known, RunsIn
    <2> QED
      BY <2>2, <2>3
  <1> QED
    BY <1>2 DEF InSight

\* A thread that is done leaves its event in place of itself.
Ends(docs, s, es, fs, E, j, e) ==
  /\ es \in Seq(E) /\ fs = Append(es, e) /\ e.task = j.task
  /\ s.queue = docs.queue /\ s.task = docs.task
  /\ j \in docs.jobs /\ s.jobs = docs.jobs \ {j}

LEMMA EndKeepsSight ==
  ASSUME NEW docs, NEW s, NEW es, NEW fs, NEW ts, NEW ex, NEW E, NEW j, NEW e,
         InSight(docs, es, ts, ex), Ends(docs, s, es, fs, E, j, e)
  PROVE  InSight(s, fs, ts, ex)
  <1> USE DEF Ends
  <1>1. ASSUME NEW q \in Queues \ ex PROVE OnlyOne(s.jobs, fs, q) /\ Known(s, fs, ts, q)
    <2>1. OnlyOne(docs.jobs, es, q) /\ Known(docs, es, ts, q)
      BY DEF InSight
    <2>2. \A m \in DOMAIN fs : Done(fs, m, q) =>
            \/ m \in DOMAIN es /\ fs[m] = es[m] /\ Done(es, m, q)
            \/ fs[m].task = j.task /\ QueueOf[j.task] = q
      <3> SUFFICES ASSUME NEW m \in DOMAIN fs, Done(fs, m, q)
                   PROVE  \/ m \in DOMAIN es /\ fs[m] = es[m] /\ Done(es, m, q)
                          \/ fs[m].task = j.task /\ QueueOf[j.task] = q
        OBVIOUS
      <3>1. CASE m \in DOMAIN es
        BY <3>1, AppendIs DEF Done
      <3>2. CASE fs[m] = e
        BY <3>2 DEF Done
      <3> QED
        BY <3>1, <3>2, AppendIs
    <2>3. Known(s, fs, ts, q)
      BY <2>1, <2>2 DEF Known, RunsIn
    <2>4. OnlyOne(s.jobs, fs, q)
      <3>1. CASE QueueOf[j.task] = q
        <4>1. \A m \in DOMAIN es : ~Done(es, m, q)
          BY <2>1, <3>1 DEF OnlyOne
        <4>2. \A i \in s.jobs : QueueOf[i.task] # q
          BY <2>1, <3>1 DEF OnlyOne
        <4>3. \A m \in DOMAIN fs : Done(fs, m, q) => m \notin DOMAIN es
          BY <4>1, AppendKept
        <4>4. \A m, n \in DOMAIN fs : Done(fs, m, q) /\ Done(fs, n, q) => m = n
          BY <4>3, AppendIs
        <4> QED
          BY <4>2, <4>4 DEF OnlyOne
      <3>2. CASE QueueOf[j.task] # q
        <4>1. \A m \in DOMAIN fs : Done(fs, m, q) => m \in DOMAIN es /\ Done(es, m, q)
          BY <2>2, <3>2
        <4> QED
          BY <2>1, <4>1 DEF OnlyOne
      <3> QED
        BY <3>1, <3>2
    <2> QED
      BY <2>3, <2>4
  <1> QED
    BY <1>1 DEF InSight

LEMMA TailIs ==
  ASSUME NEW es, NEW E, es \in Seq(E), Len(es) > 0, NEW fs, fs = Tail(es)
  PROVE  /\ fs \in Seq(E) /\ Head(es) = es[1] /\ 1 \in DOMAIN es /\ es[1] \in E
         /\ \A m \in DOMAIN fs : /\ m + 1 \in DOMAIN es /\ m + 1 # 1 /\ m \in Nat
                                 /\ fs[m] = es[m + 1]
  OBVIOUS

\* The first event leaves the line: if it tells of an end, its queue has
\* nothing open then.
LEMMA TailKeepsSight ==
  ASSUME NEW docs, NEW es, NEW fs, NEW ts, NEW ex, NEW E,
         InSight(docs, es, ts, ex), es \in Seq(E), Len(es) > 0, fs = Tail(es)
  PROVE  /\ InSight(docs, fs, ts, ex)
         /\ \A q \in Queues \ ex : Done(es, 1, q) =>
              /\ RunsIn(docs, ts, q, es[1].task)
              /\ \A j \in docs.jobs : QueueOf[j.task] # q
              /\ \A m \in DOMAIN fs : ~Done(fs, m, q)
  <1>1. \A q : \A m \in DOMAIN fs : Done(fs, m, q) =>
          m + 1 \in DOMAIN es /\ m + 1 # 1 /\ m \in Nat /\ fs[m] = es[m + 1] /\ Done(es, m + 1, q)
    BY TailIs DEF Done
  <1>2. ASSUME NEW q \in Queues \ ex PROVE OnlyOne(docs.jobs, fs, q) /\ Known(docs, fs, ts, q)
    <2>1. OnlyOne(docs.jobs, es, q) /\ Known(docs, es, ts, q)
      BY DEF InSight
    <2>2. \A m, n \in DOMAIN fs : Done(fs, m, q) /\ Done(fs, n, q) => m = n
      <3> SUFFICES ASSUME NEW m \in DOMAIN fs, NEW n \in DOMAIN fs, Done(fs, m, q), Done(fs, n, q)
                   PROVE  m = n
        OBVIOUS
      <3>1. m + 1 = n + 1
        BY <1>1, <2>1 DEF OnlyOne
      <3>2. m \in Nat /\ n \in Nat
        BY <1>1
      <3> QED
        BY <3>1, <3>2
    <2>3. OnlyOne(docs.jobs, fs, q)
      BY <1>1, <2>1, <2>2 DEF OnlyOne
    <2>4. Known(docs, fs, ts, q)
      BY <1>1, <2>1 DEF Known
    <2> QED
      BY <2>3, <2>4
  <1>3. ASSUME NEW q \in Queues \ ex, Done(es, 1, q)
        PROVE  /\ RunsIn(docs, ts, q, es[1].task)
               /\ \A j \in docs.jobs : QueueOf[j.task] # q
               /\ \A m \in DOMAIN fs : ~Done(fs, m, q)
    <2>1. OnlyOne(docs.jobs, es, q) /\ Known(docs, es, ts, q) /\ 1 \in DOMAIN es
      BY TailIs DEF InSight
    <2> QED
      BY <1>1, <1>3, <2>1 DEF OnlyOne, Known
  <1> QED
    BY <1>2, <1>3 DEF InSight

\* What is changed of one queue alone matters to nothing that is in sight when
\* the queue has nothing open, or is excused.
Aside(docs, s, es, ex, q) ==
  /\ s.jobs = docs.jobs
  /\ \A o \in Queues : o # q => s.queue[o] = docs.queue[o]
  /\ \A u \in Tasks : QueueOf[u] # q => s.task[u] = docs.task[u]
  /\ q \notin ex => /\ \A j \in docs.jobs : QueueOf[j.task] # q
                    /\ \A m \in DOMAIN es : ~Done(es, m, q)

LEMMA AsideKeepsSight ==
  ASSUME NEW docs, NEW s, NEW es, NEW ts, NEW ex, NEW q,
         Filed(ts), InSight(docs, es, ts, ex), Aside(docs, s, es, ex, q)
  PROVE  InSight(s, es, ts, ex)
  <1> USE DEF Aside
  <1>1. ASSUME NEW o \in Queues \ ex PROVE OnlyOne(s.jobs, es, o) /\ Known(s, es, ts, o)
    <2>1. OnlyOne(docs.jobs, es, o) /\ Known(docs, es, ts, o)
      BY DEF InSight
    <2>2. CASE o = q
      BY <2>1, <2>2 DEF Known
    <2>3. CASE o # q
      <3>1. \A u : RunsIn(docs, ts, o, u) => RunsIn(s, ts, o, u)
        BY <2>3 DEF RunsIn, Filed, ToSet
      <3> QED
        BY <2>1, <3>1 DEF Known
    <2> QED
      BY <2>2, <2>3
  <1> QED
    BY <1>1 DEF InSight

LEMMA FieldsAreAll ==
  ASSUME NEW docs, NEW s, NEW es, NEW ts, NEW ex, Records(docs), InSight(docs, es, ts, ex),
         DOMAIN s = {"queue", "task", "jobs"},
         s.queue = docs.queue, s.task = docs.task, s.jobs = docs.jobs
  PROVE  Records(s) /\ InSight(s, es, ts, ex)
  <1>1. Records(s)
    BY DEF Records
  <1>2. \A q \in Queues : Known(docs, es, ts, q) => Known(s, es, ts, q)
    BY DEF Known, RunsIn
  <1> QED
    BY <1>1, <1>2 DEF InSight

LEMMA DocsIs ==
  /\ DOMAIN Docs = {"queue", "task", "jobs"}
  /\ Docs.queue = queue /\ Docs.task = task /\ Docs.jobs = jobs
  BY DEF Docs

LEMMA DocsNextIs ==
  /\ DOMAIN Docs' = {"queue", "task", "jobs"}
  /\ Docs'.queue = queue' /\ Docs'.task = task' /\ Docs'.jobs = jobs'
  BY DEF Docs

LEMMA SettledSight ==
  ASSUME NEW s, NEW es, NEW ts, NEW ex, Records(s), InSight(s, es, ts, ex), Settle(s)
  PROVE  Records(Docs') /\ InSight(Docs', es, ts, ex)
  BY FieldsAreAll, DocsNextIs DEF Settle

LEMMA ExcusedInv ==
  ASSUME NEW qs, Excuse(qs), Records(Docs'), Filed(tasks'), Posted(events'),
         gate' \in Tasks \cup {NoTask}, InSight(Docs', events', tasks', excused \cup qs)
  PROVE  QueueInv'
  <1>1. excused' = {q \in excused \cup qs : Open(q, Docs'.jobs, events')}
    BY DocsNextIs DEF Excuse
  <1>2. InSight(Docs', events', tasks', excused')
    BY <1>1, ExcuseLapses
  <1> QED
    BY <1>2 DEF QueueInv

LEMMA StartInv ==
  ASSUME QueueInv, NEW q \in Queues, Start(q)
  PROVE  QueueInv'
  <1>1. /\ UNCHANGED <<tasks, events, gate>> /\ Excuse({})
        /\ \E bad \in SUBSET Unready : Settle(StartQueue(Docs, q, bad))
    BY DEF Start, desk
  <1>2. PICK bad : Settle(StartQueue(Docs, q, bad))
    BY <1>1
  <1> PICK s : s = StartQueue(Docs, q, bad)
    OBVIOUS
  <1>3. Records(s) /\ InSight(s, events, tasks, excused)
    BY StartQueueKeeps DEF QueueInv
  <1>4. Records(Docs') /\ InSight(Docs', events, tasks, excused)
    BY <1>2, <1>3, SettledSight
  <1>5. InSight(Docs', events', tasks', excused \cup {})
    BY <1>1, <1>4, MoreExcused
  <1> QED
    BY <1>1, <1>4, <1>5, ExcusedInv DEF QueueInv

\* The interrupted task that resume_selected_queue lets wait again.
Reset(q) ==
  IF Interrupted(q) = 0 THEN Docs
  ELSE [Docs EXCEPT !.task[tasks[q][Interrupted(q)]].status = "WAITING"]

LEMMA ResetIs ==
  ASSUME QueueInv, NEW q \in Queues, NEW s, s = Reset(q)
  PROVE  /\ Records(s) /\ InSight(s, events, tasks, excused)
         /\ s.queue = queue /\ s.jobs = jobs
         /\ \A u \in Tasks : s.task[u].status # task[u].status => s.task[u].status = "WAITING"
         /\ DOMAIN s.task = Tasks
  <1>1. Records(Docs) /\ Filed(tasks) /\ InSight(Docs, events, tasks, excused)
    BY DEF QueueInv
  <1>2. CASE Interrupted(q) = 0
    BY <1>1, <1>2, DocsIs DEF Reset, Records
  <1>3. CASE Interrupted(q) # 0
    <2> PICK t : t = tasks[q][Interrupted(q)]
      OBVIOUS
    <2>1. t \in Tasks /\ task[t].status = "INTERRUPTED"
      BY <1>1, <1>3, InterruptedIs DEF Filed, ToSet
    <2>2. s = [Docs EXCEPT !.task[t].status = "WAITING"]
      BY <1>3 DEF Reset
    <2>3. /\ s.queue = queue /\ s.jobs = jobs /\ DOMAIN s = {"queue", "task", "jobs"}
          /\ DOMAIN s.task = Tasks
          /\ \A u \in Tasks : u # t => s.task[u] = task[u]
      BY <1>1, <2>1, <2>2, DocsIs DEF Records
    <2>4. s.task[t].status = "WAITING" /\ DOMAIN s.task[t] = {"status", "pid"}
      BY <1>1, <2>1, <2>2, DocsIs DEF Records
    <2>5. Records(s)
      BY <1>1, <2>3, <2>4, DocsIs DEF Records
    <2>6. \A u \in Tasks : task[u].status = "RUNNING" => s.task[u].status = "RUNNING"
      BY <2>1, <2>3
    <2>7. \A o \in Queues \ excused : \A u \in ToSet(tasks[o]) :
            Docs.task[u].status = "RUNNING" => s.task[u].status = "RUNNING"
      BY <1>1, <2>6, DocsIs DEF Filed, ToSet
    <2>8. s.queue = Docs.queue /\ s.jobs = Docs.jobs
      BY <2>3, DocsIs
    <2>9. \A o \in Queues : Docs.queue[o].status = "RUNNING" => s.queue[o].status = "RUNNING"
      BY <2>8
    <2>10. InSight(s, events, tasks, excused)
      BY <1>1, <2>7, <2>8, <2>9, SameSight
    <2> QED
      BY <2>3, <2>4, <2>5, <2>10
  <1> QED
    BY <1>2, <1>3

LEMMA ResumeInv ==
  ASSUME QueueInv, NEW q \in Queues, Resume(q)
  PROVE  QueueInv'
  <1> PICK r : r = Reset(q)
    OBVIOUS
  <1>1. /\ UNCHANGED <<tasks, events, gate>> /\ Excuse({})
        /\ queue[q].status # "RUNNING"
        /\ \/ Settle(r)
           \/ \E bad \in SUBSET Unready : Settle(StartQueue(SetStatus(r, q, "IDLE"), q, bad))
    BY DEF Resume, Reset, desk
  <1>2. Records(r) /\ InSight(r, events, tasks, excused) /\ r.queue = queue
    BY ResetIs
  <1>3. Records(Docs') /\ InSight(Docs', events, tasks, excused)
    <2>1. CASE Settle(r)
      BY <1>2, <2>1, SettledSight
    <2>2. ASSUME NEW bad, Settle(StartQueue(SetStatus(r, q, "IDLE"), q, bad))
          PROVE  Records(Docs') /\ InSight(Docs', events, tasks, excused)
      <3> PICK m : m = SetStatus(r, q, "IDLE")
        OBVIOUS
      <3> PICK s : s = StartQueue(m, q, bad)
        OBVIOUS
      <3>1. r.queue[q].status # "RUNNING"
        BY <1>1, <1>2
      <3>2. Records(m) /\ InSight(m, events, tasks, excused)
        BY <1>2, <3>1, StatusKeepsSight
      <3>3. Records(s) /\ InSight(s, events, tasks, excused)
        BY <3>2, StartQueueKeeps DEF QueueInv
      <3>4. Settle(s)
        BY <2>2
      <3> QED
        BY <3>3, <3>4, SettledSight
    <2> QED
      BY <1>1, <2>1, <2>2
  <1>4. InSight(Docs', events', tasks', excused \cup {})
    BY <1>1, <1>3, MoreExcused
  <1> QED
    BY <1>1, <1>3, <1>4, ExcusedInv DEF QueueInv

\* The operator's changes of a list of tasks, or of a document that is not of a
\* running task.
LEMMA ListKeepsSight ==
  ASSUME NEW docs, NEW s, NEW es, NEW ts, NEW us, NEW ex, InSight(docs, es, ts, ex),
         s.jobs = docs.jobs,
         \A q \in Queues : docs.queue[q].status = "RUNNING" => s.queue[q].status = "RUNNING",
         \A q \in Queues : \A t \in ToSet(ts[q]) :
           docs.task[t].status = "RUNNING" => t \in ToSet(us[q]) /\ s.task[t].status = "RUNNING"
  PROVE  InSight(s, es, us, ex)
  <1>1. ASSUME NEW q \in Queues \ ex PROVE OnlyOne(s.jobs, es, q) /\ Known(s, es, us, q)
    BY DEF InSight, Known, RunsIn
  <1> QED
    BY <1>1 DEF InSight

LEMMA PauseInv ==
  ASSUME QueueInv, NEW q \in Queues, Pause(q)
  PROVE  QueueInv'
  <1>1. /\ UNCHANGED <<tasks, task, jobs, events, gate, excused>>
        /\ queue' = [queue EXCEPT ![q] = IF @.status = "RUNNING" THEN [@ EXCEPT !.pause = TRUE]
                                         ELSE [@ EXCEPT !.status = "PAUSED"]]
    BY DEF Pause, desk, world
  <1>2. Records(Docs) /\ Filed(tasks) /\ InSight(Docs, events, tasks, excused)
    BY DEF QueueInv
  <1>3. /\ DOMAIN queue' = Queues
        /\ \A o \in Queues : o # q => queue'[o] = queue[o]
        /\ DOMAIN queue'[q] = {"status", "pause"}
        /\ queue[q].status = "RUNNING" => queue'[q].status = "RUNNING"
    BY <1>1, <1>2, DocsIs DEF Records
  <1>4. queue'[q].pause \in BOOLEAN
    BY <1>1, <1>2, DocsIs DEF Records
  <1>5. Records(Docs')
    <2>1. \A o \in Queues : DOMAIN queue'[o] = {"status", "pause"}
      BY <1>2, <1>3, DocsIs DEF Records
    <2>2. \A o \in Queues : queue'[o].pause \in BOOLEAN
      BY <1>2, <1>3, <1>4, DocsIs DEF Records
    <2>3. DOMAIN task' = Tasks /\ \A u \in Tasks : DOMAIN task'[u] = {"status", "pid"}
      BY <1>1, <1>2, DocsIs DEF Records
    <2>4. \A j \in jobs' : DOMAIN j = {"id", "task", "pid", "watched"} /\ j.task \in Tasks
      BY <1>1, <1>2, DocsIs DEF Records
    <2> QED
      BY <1>3, <2>1, <2>2, <2>3, <2>4, DocsNextIs DEF Records
  <1>6. \A o \in Queues : Docs.queue[o].status = "RUNNING" => Docs'.queue[o].status = "RUNNING"
    BY <1>3, DocsIs, DocsNextIs
  <1>7. Docs'.jobs = Docs.jobs /\ Docs'.task = Docs.task
    BY <1>1, DocsIs, DocsNextIs
  <1>8. InSight(Docs', events, tasks, excused)
    BY <1>2, <1>6, <1>7, ListKeepsSight
  <1> QED
    BY <1>1, <1>5, <1>8 DEF QueueInv

LEMMA AddTaskInv ==
  ASSUME QueueInv, NEW t \in Tasks, AddTask(t)
  PROVE  QueueInv'
  <1> PICK q : q = QueueOf[t] /\ q \in Queues
    BY QueueAssumption
  <1>1. /\ UNCHANGED <<jobs, events, gate, excused>> /\ task[t].status = "NEW"
        /\ task' = [task EXCEPT ![t].status = "WAITING"]
        /\ tasks' = [tasks EXCEPT ![q] = Append(@, t)]
        /\ queue' = [queue EXCEPT ![q].status = IF @ = "COMPLETED" THEN "IDLE" ELSE @]
    BY DEF AddTask, desk, world, history
  <1>2. Records(Docs) /\ Filed(tasks) /\ InSight(Docs, events, tasks, excused)
    BY DEF QueueInv
  <1>3. /\ DOMAIN queue' = Queues
        /\ \A o \in Queues : o # q => queue'[o] = queue[o]
        /\ DOMAIN queue'[q] = {"status", "pause"} /\ queue'[q].pause = queue[q].pause
        /\ queue[q].status = "RUNNING" => queue'[q].status = "RUNNING"
    BY <1>1, <1>2, DocsIs DEF Records
  <1>4. /\ DOMAIN task' = Tasks /\ \A u \in Tasks : u # t => task'[u] = task[u]
        /\ DOMAIN task'[t] = {"status", "pid"}
    BY <1>1, <1>2, DocsIs DEF Records
  <1>5. Records(Docs')
    BY <1>1, <1>2, <1>3, <1>4, DocsIs, DocsNextIs DEF Records
  <1>6. \A o \in Queues : tasks[o] \in Seq(Tasks) /\ tasks'[o] \in Seq(Tasks)
    BY <1>1, <1>2 DEF Filed
  <1>7. \A o \in Queues : o # q => tasks'[o] = tasks[o]
    BY <1>1, <1>2 DEF Filed
  <1>8. /\ \A u \in ToSet(tasks[q]) : u \in ToSet(tasks'[q])
        /\ \A u \in ToSet(tasks'[q]) : u \in ToSet(tasks[q]) \/ u = t
    <2>1. tasks'[q] = Append(tasks[q], t)
      BY <1>1, <1>2 DEF Filed
    <2> QED
      BY <1>6, <2>1, AppendIs DEF ToSet
  <1>9. Filed(tasks')
    <2>1. DOMAIN tasks' = Queues /\ tasks' = [o \in Queues |-> tasks'[o]]
      BY <1>1, <1>2 DEF Filed
    <2>2. tasks' \in [Queues -> Seq(Tasks)]
      BY <2>1, <1>6
    <2> QED
      BY <1>2, <1>7, <1>8, <2>2 DEF Filed
  <1>10. \A o \in Queues : \A u \in ToSet(tasks[o]) : u \in Tasks /\ u \in ToSet(tasks'[o])
    <2>1. \A o \in Queues : \A u \in ToSet(tasks[o]) : u \in Tasks
      BY <1>2 DEF Filed, ToSet
    <2>2. \A u \in ToSet(tasks[q]) : u \in ToSet(tasks'[q])
      BY <1>8
    <2>3. \A o \in Queues : o # q => ToSet(tasks'[o]) = ToSet(tasks[o])
      BY <1>7
    <2> QED
      BY <2>1, <2>2, <2>3
  <1>11. \A u \in Tasks : task[u].status = "RUNNING" => task'[u].status = "RUNNING"
    BY <1>1, <1>4
  <1>12. \A o \in Queues : \A u \in ToSet(tasks[o]) : Docs.task[u].status = "RUNNING" =>
           u \in ToSet(tasks'[o]) /\ Docs'.task[u].status = "RUNNING"
    BY <1>10, <1>11, DocsIs, DocsNextIs
  <1>13. \A o \in Queues : Docs.queue[o].status = "RUNNING" => Docs'.queue[o].status = "RUNNING"
    BY <1>3, DocsIs, DocsNextIs
  <1>14. Docs'.jobs = Docs.jobs
    BY <1>1, DocsIs, DocsNextIs
  <1>15. InSight(Docs', events, tasks', excused)
    BY <1>2, <1>12, <1>13, <1>14, ListKeepsSight
  <1> QED
    BY <1>1, <1>5, <1>9, <1>15 DEF QueueInv

LEMMA ConcatIs ==
  ASSUME NEW E, NEW a \in Seq(E), NEW b \in Seq(E), NEW r, r = a \o b
  PROVE  /\ r \in Seq(E) /\ Len(r) = Len(a) + Len(b) /\ DOMAIN r = 1..Len(r)
         /\ \A k \in 1..Len(a) : r[k] = a[k]
         /\ \A k \in 1..Len(b) : r[Len(a) + k] = b[k]
  OBVIOUS

LEMMA RemoveAtIs ==
  ASSUME NEW E, NEW s \in Seq(E), NEW i \in DOMAIN s, NEW r, r = RemoveAt(s, i)
  PROVE  /\ r \in Seq(E)
         /\ \A u \in ToSet(r) : u \in ToSet(s)
         /\ \A u \in ToSet(s) : u # s[i] => u \in ToSet(r)
  <1>a. PICK a : a = SubSeq(s, 1, i - 1)
    OBVIOUS
  <1>b. PICK b : b = SubSeq(s, i + 1, Len(s))
    OBVIOUS
  <1>1. i \in Nat /\ i >= 1 /\ i <= Len(s) /\ Len(s) \in Nat /\ DOMAIN s = 1..Len(s)
    OBVIOUS
  <1>2. /\ a \in Seq(E) /\ Len(a) = i - 1
        /\ \A k \in 1..(i - 1) : a[k] = s[k]
    BY <1>1, <1>a
  <1>3. /\ b \in Seq(E) /\ Len(b) = Len(s) - i
        /\ \A k \in 1..(Len(s) - i) : b[k] = s[k + i]
    BY <1>1, <1>b
  <1>4. r = a \o b
    BY <1>a, <1>b DEF RemoveAt
  <1>c. /\ r \in Seq(E) /\ Len(r) = Len(a) + Len(b) /\ DOMAIN r = 1..Len(r)
        /\ \A k \in 1..Len(a) : r[k] = a[k]
        /\ \A k \in 1..Len(b) : r[Len(a) + k] = b[k]
    <2>1. a \in Seq(E) /\ b \in Seq(E)
      BY <1>2, <1>3
    <2> QED
      BY <1>4, <2>1, ConcatIs
  <1>5. r \in Seq(E) /\ Len(r) = Len(s) - 1 /\ DOMAIN r = 1..(Len(s) - 1)
    BY <1>1, <1>2, <1>3, <1>c
  <1>6. \A k \in 1..(i - 1) : k \in DOMAIN r /\ r[k] = s[k]
    BY <1>1, <1>2, <1>5, <1>c
  <1>7. \A k \in i..(Len(s) - 1) : k \in DOMAIN r /\ r[k] = s[k + 1]
    <2> TAKE k \in i..(Len(s) - 1)
    <2>0. k \in Int /\ i \in Int /\ i <= k /\ k <= Len(s) - 1
      BY <1>1
    <2> PICK n \in Int : n = (k - i) + 1
      BY <2>0
    <2>m. Len(s) \in Int
      BY <1>1
    <2>5. n >= 1 /\ n <= Len(s) - i
      BY <2>0, <2>m
    <2>6. (i - 1) + n = k /\ n + i = k + 1
      BY <2>0
    <2>4. n \in 1..(Len(s) - i) /\ (i - 1) + n = k /\ n + i = k + 1
      BY <1>1, <2>5, <2>6
    <2>1. r[Len(a) + n] = b[n]
      BY <1>3, <1>c, <2>4
    <2>2. r[k] = b[n]
      BY <1>2, <2>1, <2>4
    <2>3. b[n] = s[k + 1]
      BY <1>3, <2>4
    <2> QED
      BY <1>1, <1>5, <2>2, <2>3
  <1>8. \A k \in DOMAIN r : k \in 1..(i - 1) \/ k \in i..(Len(s) - 1)
    BY <1>1, <1>5
  <1>9. ASSUME NEW u \in ToSet(r) PROVE u \in ToSet(s)
    <2> PICK k \in DOMAIN r : u = r[k]
      BY DEF ToSet
    <2>1. CASE k \in 1..(i - 1)
      BY <1>1, <1>6, <2>1 DEF ToSet
    <2>2. CASE k \in i..(Len(s) - 1)
      <3>1. k + 1 \in DOMAIN s /\ u = s[k + 1]
        BY <1>1, <1>7, <2>2
      <3> QED
        BY <3>1 DEF ToSet
    <2> QED
      BY <1>8, <2>1, <2>2
  <1>10. ASSUME NEW u \in ToSet(s), u # s[i] PROVE u \in ToSet(r)
    <2> PICK k \in DOMAIN s : u = s[k]
      BY DEF ToSet
    <2>1. CASE k < i
      <3>1. k \in 1..(i - 1)
        BY <1>1, <2>1
      <3> QED
        BY <1>6, <3>1 DEF ToSet
    <2>2. CASE k > i
      <3>1. k - 1 \in i..(Len(s) - 1) /\ (k - 1) + 1 = k
        BY <1>1, <2>2
      <3> QED
        BY <1>7, <3>1 DEF ToSet
    <2> QED
      BY <1>1, <1>10, <2>1, <2>2
  <1> QED
    BY <1>5, <1>9, <1>10

Relisted(ts, q, l) == [ts EXCEPT ![q] = l]

LEMMA FiledAfter ==
  ASSUME NEW ts, NEW us, NEW q \in Queues, NEW l, Filed(ts), us = Relisted(ts, q, l),
         l \in Seq(Tasks), \A u \in ToSet(l) : QueueOf[u] = q
  PROVE  /\ Filed(us)
         /\ \A o \in Queues : \A u \in ToSet(ts[o]) :
              u \in Tasks /\ (o # q \/ u \in ToSet(l) => u \in ToSet(us[o]))
  <1>1. DOMAIN us = Queues /\ us[q] = l /\ \A o \in Queues : o # q => us[o] = ts[o]
    BY DEF Filed, Relisted
  <1>2. \A o \in Queues : us[o] \in Seq(Tasks)
    BY <1>1 DEF Filed
  <1>3. us \in [Queues -> Seq(Tasks)]
    <2>1. us = [o \in Queues |-> us[o]]
      BY DEF Filed, Relisted
    <2> QED
      BY <1>2, <2>1
  <1>4. \A o \in Queues : \A u \in ToSet(us[o]) : QueueOf[u] = o
    <2> SUFFICES ASSUME NEW o \in Queues, NEW u \in ToSet(us[o]) PROVE QueueOf[u] = o
      OBVIOUS
    <2>1. CASE o = q
      BY <1>1, <2>1 DEF Filed
    <2>2. CASE o # q
      BY <1>1, <2>2 DEF Filed
    <2> QED
      BY <2>1, <2>2
  <1>5. ASSUME NEW o \in Queues, NEW u \in ToSet(ts[o])
        PROVE  u \in Tasks /\ (o # q \/ u \in ToSet(l) => u \in ToSet(us[o]))
    <2>1. u \in Tasks
      BY DEF Filed, ToSet
    <2>2. CASE o = q
      BY <1>1, <2>1, <2>2
    <2>3. CASE o # q
      BY <1>1, <2>1, <2>3
    <2> QED
      BY <2>2, <2>3
  <1> QED
    BY <1>3, <1>4, <1>5 DEF Filed

Running(docs) == {t \in Tasks : docs.task[t].status = "RUNNING"}

LEMMA DeleteWaitingInv ==
  ASSUME QueueInv, NEW t \in Tasks, DeleteWaiting(t)
  PROVE  QueueInv'
  <1>q. PICK q \in Queues : q = QueueOf[t]
    BY QueueAssumption
  <1>1. /\ UNCHANGED <<queue, jobs, events, gate, excused>> /\ task[t].status = "WAITING"
        /\ task' = [task EXCEPT ![t].status = "DELETED"]
        /\ \E i \in DOMAIN tasks[q] :
             tasks[q][i] = t /\ tasks' = [tasks EXCEPT ![q] = RemoveAt(tasks[q], i)]
    BY <1>q DEF DeleteWaiting, desk, world, history
  <1>2. Records(Docs) /\ Filed(tasks) /\ InSight(Docs, events, tasks, excused)
    BY DEF QueueInv
  <1>3. /\ DOMAIN task' = Tasks /\ \A u \in Tasks : u # t => task'[u] = task[u]
        /\ DOMAIN task'[t] = {"status", "pid"}
    BY <1>1, <1>2, DocsIs DEF Records
  <1>4. Records(Docs')
    BY <1>1, <1>2, <1>3, DocsIs, DocsNextIs DEF Records
  <1>5. PICK i \in DOMAIN tasks[q] :
          tasks[q][i] = t /\ tasks' = [tasks EXCEPT ![q] = RemoveAt(tasks[q], i)]
    BY <1>1
  <1>l. PICK l : l = RemoveAt(tasks[q], i)
    OBVIOUS
  <1>6. tasks[q] \in Seq(Tasks)
    BY <1>2 DEF Filed
  <1>7. /\ l \in Seq(Tasks) /\ \A u \in ToSet(l) : u \in ToSet(tasks[q])
        /\ \A u \in ToSet(tasks[q]) : u # t => u \in ToSet(l)
    BY <1>l, <1>5, <1>6, RemoveAtIs
  <1>8. t \notin Running(Docs)
    BY <1>1, DocsIs DEF Running
  <1>9. \A u \in ToSet(tasks[q]) : u \in Running(Docs) => u \in ToSet(l)
    BY <1>7, <1>8
  <1>10. tasks' = Relisted(tasks, q, l)
    BY <1>l, <1>5 DEF Relisted
  <1>11. /\ Filed(tasks')
         /\ \A o \in Queues : \A u \in ToSet(tasks[o]) :
              u \in Tasks /\ (o # q \/ u \in ToSet(l) => u \in ToSet(tasks'[o]))
    <2>1. \A u \in ToSet(l) : QueueOf[u] = q
      BY <1>2, <1>7 DEF Filed
    <2>2. l \in Seq(Tasks) /\ q \in Queues
      BY <1>7
    <2> QED
      BY <1>2, <1>10, <2>1, <2>2, FiledAfter
  <1>12. \A o \in Queues : \A u \in ToSet(tasks[o]) : Docs.task[u].status = "RUNNING" =>
           u \in ToSet(tasks'[o]) /\ Docs'.task[u].status = "RUNNING"
    BY <1>1, <1>3, <1>9, <1>11, DocsIs, DocsNextIs DEF Running
  <1>13. Docs'.jobs = Docs.jobs /\ Docs'.queue = Docs.queue
    BY <1>1, DocsIs, DocsNextIs
  <1>14. InSight(Docs', events, tasks', excused)
    BY <1>2, <1>12, <1>13, ListKeepsSight
  <1> QED
    BY <1>1, <1>4, <1>11, <1>14 DEF QueueInv

LEMMA SwapIs ==
  ASSUME NEW E, NEW s \in Seq(E), NEW i \in 1..(Len(s) - 1), NEW l,
         l = [[s EXCEPT ![i] = s[i + 1]] EXCEPT ![i + 1] = s[i]]
  PROVE  /\ l \in Seq(E)
         /\ \A u \in ToSet(l) : u \in ToSet(s)
         /\ \A u \in ToSet(s) : u \in ToSet(l)
  <1>1. /\ Len(s) \in Nat /\ DOMAIN s = 1..Len(s) /\ i \in DOMAIN s /\ i + 1 \in DOMAIN s
        /\ i # i + 1
    OBVIOUS
  <1>2. /\ DOMAIN l = DOMAIN s /\ l[i] = s[i + 1] /\ l[i + 1] = s[i]
        /\ \A k \in DOMAIN s : k # i /\ k # i + 1 => l[k] = s[k]
    BY <1>1
  <1>3. l \in Seq(E)
    BY <1>1
  <1>4. ASSUME NEW k \in DOMAIN s PROVE l[k] \in ToSet(s) /\ s[k] \in ToSet(l)
    <2>1. CASE k = i
      BY <1>1, <1>2, <2>1 DEF ToSet
    <2>2. CASE k = i + 1
      BY <1>1, <1>2, <2>2 DEF ToSet
    <2>3. CASE k # i /\ k # i + 1
      BY <1>1, <1>2, <2>3 DEF ToSet
    <2> QED
      BY <2>1, <2>2, <2>3
  <1>5. ASSUME NEW u \in ToSet(l) PROVE u \in ToSet(s)
    <2> PICK k \in DOMAIN s : u = l[k]
      BY <1>2 DEF ToSet
    <2> QED
      BY <1>4
  <1>6. ASSUME NEW u \in ToSet(s) PROVE u \in ToSet(l)
    <2> PICK k \in DOMAIN s : u = s[k]
      BY DEF ToSet
    <2> QED
      BY <1>4
  <1> QED
    BY <1>3, <1>5, <1>6

LEMMA ReorderInv ==
  ASSUME QueueInv, NEW q \in Queues, NEW i, Reorder(q, i)
  PROVE  QueueInv'
  <1>l. PICK l : l = [[tasks[q] EXCEPT ![i] = tasks[q][i + 1]] EXCEPT ![i + 1] = tasks[q][i]]
    OBVIOUS
  <1>1. /\ UNCHANGED <<queue, task, jobs, events, gate, excused>>
        /\ i \in 1..(Len(tasks[q]) - 1)
        /\ tasks' = [tasks EXCEPT ![q][i] = tasks[q][i + 1], ![q][i + 1] = tasks[q][i]]
    BY DEF Reorder, desk, world, history
  <1>2. Records(Docs) /\ Filed(tasks) /\ InSight(Docs, events, tasks, excused)
    BY DEF QueueInv
  <1>3. tasks' = Relisted(tasks, q, l)
    BY <1>l, <1>1, <1>2 DEF Filed, Relisted
  <1>4. tasks[q] \in Seq(Tasks)
    BY <1>2 DEF Filed
  <1>5. /\ l \in Seq(Tasks) /\ \A u \in ToSet(l) : u \in ToSet(tasks[q])
        /\ \A u \in ToSet(tasks[q]) : u \in ToSet(l)
    <2> PICK s \in Seq(Tasks) : s = tasks[q]
      BY <1>4
    <2>1. i \in 1..(Len(s) - 1) /\ l = [[s EXCEPT ![i] = s[i + 1]] EXCEPT ![i + 1] = s[i]]
      BY <1>l, <1>1
    <2>2. /\ l \in Seq(Tasks) /\ \A u \in ToSet(l) : u \in ToSet(s)
          /\ \A u \in ToSet(s) : u \in ToSet(l)
      BY <2>1, SwapIs
    <2> QED
      BY <2>2
  <1>6. /\ Filed(tasks')
        /\ \A o \in Queues : \A u \in ToSet(tasks[o]) :
             u \in Tasks /\ (o # q \/ u \in ToSet(l) => u \in ToSet(tasks'[o]))
    <2>1. \A u \in ToSet(l) : QueueOf[u] = q
      BY <1>2, <1>5 DEF Filed
    <2> QED
      BY <1>2, <1>3, <1>5, <2>1, FiledAfter
  <1>7. Docs'.jobs = Docs.jobs /\ Docs'.queue = Docs.queue /\ Docs'.task = Docs.task
    BY <1>1, DocsIs, DocsNextIs
  <1>8. \A o \in Queues : \A u \in ToSet(tasks[o]) : Docs.task[u].status = "RUNNING" =>
           u \in ToSet(tasks'[o]) /\ Docs'.task[u].status = "RUNNING"
    BY <1>5, <1>6, <1>7
  <1>9. InSight(Docs', events, tasks', excused)
    BY <1>2, <1>7, <1>8, ListKeepsSight
  <1>10. Records(Docs')
    BY <1>2, <1>7, DocsNextIs DEF Records
  <1> QED
    BY <1>1, <1>6, <1>9, <1>10 DEF QueueInv

LEMMA SaveSettingsInv ==
  ASSUME QueueInv, NEW m, SaveSettings(m)
  PROVE  QueueInv'
  <1>1. /\ UNCHANGED <<tasks, events, gate>> /\ Excuse({})
        /\ \E bad \in SUBSET Unready : Settle(StartWaiting(Docs, bad))
    BY DEF SaveSettings, desk
  <1>2. PICK bad : Settle(StartWaiting(Docs, bad))
    BY <1>1
  <1> PICK s : s = StartWaiting(Docs, bad)
    OBVIOUS
  <1>3. RoundKeeps(Docs, s, events, excused)
    BY StartWaitingKeeps DEF QueueInv
  <1>4. Records(Docs') /\ InSight(Docs', events, tasks, excused)
    BY <1>2, <1>3, SettledSight DEF RoundKeeps
  <1>5. InSight(Docs', events', tasks', excused \cup {})
    BY <1>1, <1>4, MoreExcused
  <1> QED
    BY <1>1, <1>4, <1>5, ExcusedInv DEF QueueInv

\* What is found to be lost takes its queues out of sight; a queue that does
\* not run has nothing open.
LEMMA HitKeepsSight ==
  ASSUME NEW docs, NEW s, NEW es, NEW ts, NEW ex, NEW hit, InSight(docs, es, ts, ex),
         s.jobs = docs.jobs,
         \A o \in Queues : o \in hit \/ docs.queue[o].status # "RUNNING" \/
           /\ s.queue[o] = docs.queue[o]
           /\ \A u \in ToSet(ts[o]) :
                docs.task[u].status = "RUNNING" => s.task[u].status = "RUNNING"
  PROVE  InSight(s, es, ts, ex \cup hit)
  <1>1. ASSUME NEW o \in Queues \ (ex \cup hit)
        PROVE  OnlyOne(s.jobs, es, o) /\ Known(s, es, ts, o)
    <2>1. OnlyOne(docs.jobs, es, o) /\ Known(docs, es, ts, o)
      BY DEF InSight
    <2>2. CASE docs.queue[o].status # "RUNNING"
      BY <2>1, <2>2 DEF Known, RunsIn
    <2>3. CASE docs.queue[o].status = "RUNNING"
      BY <2>1, <2>3 DEF Known, RunsIn
    <2> QED
      BY <2>2, <2>3
  <1> QED
    BY <1>1 DEF InSight

\* One more thread is no matter when its queue is excused.
LEMMA ThreadKeepsSight ==
  ASSUME NEW docs, NEW s, NEW es, NEW ts, NEW ex, NEW j, InSight(docs, es, ts, ex),
         s.queue = docs.queue, s.task = docs.task, s.jobs = docs.jobs \cup {j},
         QueueOf[j.task] \in ex
  PROVE  InSight(s, es, ts, ex)
  <1>1. ASSUME NEW o \in Queues \ ex PROVE OnlyOne(s.jobs, es, o) /\ Known(s, es, ts, o)
    <2>1. OnlyOne(docs.jobs, es, o) /\ Known(docs, es, ts, o) /\ QueueOf[j.task] # o
      BY DEF InSight
    <2> QED
      BY <2>1 DEF OnlyOne, Known, RunsIn
  <1> QED
    BY <1>1 DEF InSight

LEMMA VerdictInv ==
  ASSUME QueueInv, NEW d \in Tasks, Verdict(d)
  PROVE  QueueInv'
  <1> PICK t : t = gate
    OBVIOUS
  <1>1. gate \in Tasks /\ t \in Tasks /\ QueueOf[t] \in Queues
    BY QueueAssumption DEF Verdict, QueueInv
  <1> PICK q : q = QueueOf[t]
    OBVIOUS
  <1>2. /\ UNCHANGED <<gate, tasks, events>> /\ jobs' = Launch(jobs, t) /\ Excuse({q})
        /\ \/ /\ task' = [task EXCEPT ![t] = [status |-> "RUNNING", pid |-> NoPid]]
              /\ queue' = [queue EXCEPT ![q].status = "RUNNING"]
           \/ UNCHANGED <<task, queue>>
    BY DEF Verdict
  <1>3. Records(Docs) /\ Filed(tasks) /\ InSight(Docs, events, tasks, excused)
    BY DEF QueueInv
  <1> PICK j : /\ DOMAIN j = {"id", "task", "pid", "watched"} /\ j.task = t
               /\ jobs' = jobs \cup {j}
    BY <1>2, LaunchIs
  <1>4. /\ DOMAIN queue' = Queues /\ \A o \in Queues : o # q => queue'[o] = queue[o]
        /\ DOMAIN queue'[q] = {"status", "pause"} /\ queue'[q].pause = queue[q].pause
    BY <1>1, <1>2, <1>3, DocsIs DEF Records
  <1>5. /\ DOMAIN task' = Tasks /\ \A u \in Tasks : u # t => task'[u] = task[u]
        /\ DOMAIN task'[t] = {"status", "pid"}
    BY <1>1, <1>2, <1>3, DocsIs DEF Records
  <1>6. Records(Docs')
    <2>1. \A o \in Queues : DOMAIN queue'[o] = {"status", "pause"} /\ queue'[o].pause \in BOOLEAN
      BY <1>3, <1>4, DocsIs DEF Records
    <2>2. \A u \in Tasks : DOMAIN task'[u] = {"status", "pid"}
      BY <1>3, <1>5, DocsIs DEF Records
    <2>3. \A k \in jobs' : DOMAIN k = {"id", "task", "pid", "watched"} /\ k.task \in Tasks
      BY <1>1, <1>3, DocsIs DEF Records
    <2> QED
      BY <1>4, <1>5, <2>1, <2>2, <2>3, DocsNextIs DEF Records
  <1> PICK s : s = [queue |-> queue', task |-> task', jobs |-> jobs]
    OBVIOUS
  <1>7. s.queue = queue' /\ s.task = task' /\ s.jobs = jobs
    OBVIOUS
  <1>8. InSight(Docs, events, tasks, excused \cup {q})
    BY <1>3, MoreExcused
  <1>9. /\ \A o \in Queues : o # q => s.queue[o] = Docs.queue[o]
        /\ \A u \in Tasks : QueueOf[u] # q => s.task[u] = Docs.task[u]
        /\ s.jobs = Docs.jobs /\ q \in excused \cup {q}
    BY <1>4, <1>5, <1>7, DocsIs
  <1>10. InSight(s, events, tasks, excused \cup {q})
    <2>1. Aside(Docs, s, events, excused \cup {q}, q)
      BY <1>9 DEF Aside
    <2> QED
      BY <1>3, <1>8, <2>1, AsideKeepsSight
  <1>11. /\ Docs'.queue = s.queue /\ Docs'.task = s.task /\ Docs'.jobs = s.jobs \cup {j}
         /\ QueueOf[j.task] \in excused \cup {q}
    BY <1>7, DocsNextIs
  <1>12. InSight(Docs', events, tasks, excused \cup {q})
    BY <1>10, <1>11, ThreadKeepsSight
  <1>13. Filed(tasks') /\ Posted(events') /\ gate' \in Tasks \cup {NoTask}
    BY <1>1, <1>2 DEF QueueInv
  <1>14. InSight(Docs', events', tasks', excused \cup {q})
    BY <1>2, <1>12
  <1> QED
    BY <1>2, <1>6, <1>13, <1>14, ExcusedInv

\* What load_all reads back, with the queues it pauses and the statuses it files.
Reread(hit, st) ==
  /\ hit \subseteq Queues /\ \A o \in Queues : queue[o].status = "RUNNING" => o \in hit
  /\ \A t \in Tasks : st[t] = "RUNNING" => task[t].status = "RUNNING"
  /\ task' = [t \in Tasks |-> [task[t] EXCEPT !.status = st[t]]]
  /\ queue' = [o \in Queues |->
       IF o \in hit THEN [queue[o] EXCEPT !.status = "PAUSED"] ELSE queue[o]]
  /\ UNCHANGED <<tasks, jobs, events, gate>> /\ Excuse(hit)
  /\ stopped' = stopped \cup hit

LEMMA ReloadIs ==
  ASSUME Reload
  PROVE  \E hit, st : Reread(hit, st)
  <1> DEFINE OnDisk(t) == IF t \in unsaved THEN "INTERRUPTED" ELSE task[t].status
             Lost(t) == OnDisk(t) = "RUNNING" /\ ~process_exists(task[t].pid)
             hit == {q \in Queues : \/ queue[q].status = "RUNNING"
                                    \/ \E t \in ToSet(tasks[q]) : Lost(t)}
             st == [t \in Tasks |->
                      IF t \in ToSet(tasks[QueueOf[t]]) /\ Lost(t) THEN "INTERRUPTED"
                      ELSE OnDisk(t)]
  <1>1. /\ task' = [t \in Tasks |-> [task[t] EXCEPT !.status =
             IF t \in ToSet(tasks[QueueOf[t]]) /\ Lost(t) THEN "INTERRUPTED" ELSE OnDisk(t)]]
        /\ queue' = [o \in Queues |->
             IF o \in hit THEN [queue[o] EXCEPT !.status = "PAUSED"] ELSE queue[o]]
        /\ UNCHANGED <<tasks, jobs, events, gate>> /\ Excuse(hit)
        /\ stopped' = stopped \cup hit
    BY DEF Reload, world, desk
  <1>2. \A o \in Queues : queue[o].status = "RUNNING" => o \in hit
    OBVIOUS
  <1>3. task' = [t \in Tasks |-> [task[t] EXCEPT !.status = st[t]]]
    BY <1>1
  <1>4. hit \subseteq Queues /\ \A t \in Tasks : st[t] = "RUNNING" => task[t].status = "RUNNING"
    OBVIOUS
  <1> HIDE DEF hit, st
  <1>5. Reread(hit, st)
    BY <1>1, <1>2, <1>3, <1>4 DEF Reread
  <1> QED
    BY <1>5

LEMMA ReloadInv ==
  ASSUME QueueInv, Reload
  PROVE  QueueInv'
  <1>1. Records(Docs) /\ Filed(tasks) /\ InSight(Docs, events, tasks, excused)
    BY DEF QueueInv
  <1>3. PICK hit, st : Reread(hit, st)
    BY ReloadIs
  <1>4. Records(Docs')
    <2>1. DOMAIN queue' = Queues /\ \A o \in Queues : DOMAIN queue'[o] = {"status", "pause"}
      BY <1>1, <1>3, DocsIs DEF Records, Reread
    <2>2. \A o \in Queues : queue'[o].pause \in BOOLEAN
      BY <1>1, <1>3, DocsIs DEF Records, Reread
    <2>3. DOMAIN task' = Tasks /\ \A u \in Tasks : DOMAIN task'[u] = {"status", "pid"}
      BY <1>1, <1>3, DocsIs DEF Records, Reread
    <2>4. \A j \in jobs' : DOMAIN j = {"id", "task", "pid", "watched"} /\ j.task \in Tasks
      BY <1>1, <1>3, DocsIs DEF Records, Reread
    <2> QED
      BY <2>1, <2>2, <2>3, <2>4, DocsNextIs DEF Records
  <1>5. Docs'.jobs = Docs.jobs
    BY <1>3, DocsIs, DocsNextIs DEF Reread
  <1>6. \A o \in Queues : o \in hit \/ Docs.queue[o].status # "RUNNING"
    BY <1>3, DocsIs DEF Reread
  <1>7. InSight(Docs', events, tasks, excused \cup hit)
    BY <1>1, <1>5, <1>6, HitKeepsSight
  <1>8. Filed(tasks') /\ Posted(events') /\ gate' \in Tasks \cup {NoTask}
    BY <1>3 DEF QueueInv, Reread
  <1>9. InSight(Docs', events', tasks', excused \cup hit) /\ Excuse(hit)
    BY <1>3, <1>7 DEF Reread
  <1> QED
    BY <1>4, <1>8, <1>9, ExcusedInv

LEMMA CloseInv ==
  ASSUME QueueInv, Close
  PROVE  QueueInv'
  <1>1. /\ jobs' = {[j EXCEPT !.watched = FALSE] : j \in {k \in jobs : k.pid # NoPid}}
        /\ UNCHANGED <<queue, tasks, task>> /\ events' = << >> /\ gate' = NoTask /\ Excuse({})
    BY DEF Close, book
  <1>2. Records(Docs) /\ Filed(tasks) /\ InSight(Docs, events, tasks, excused)
    BY DEF QueueInv
  <1>3. \A i \in jobs' : \E k \in jobs : /\ i = [k EXCEPT !.watched = FALSE]
                                         /\ DOMAIN i = DOMAIN k /\ i.task = k.task
    <2> SUFFICES ASSUME NEW i \in jobs'
                 PROVE  \E k \in jobs : /\ i = [k EXCEPT !.watched = FALSE]
                                        /\ DOMAIN i = DOMAIN k /\ i.task = k.task
      OBVIOUS
    <2> PICK k \in jobs : i = [k EXCEPT !.watched = FALSE]
      BY <1>1
    <2>1. DOMAIN k = {"id", "task", "pid", "watched"}
      BY <1>2, DocsIs DEF Records
    <2>2. DOMAIN i = DOMAIN k /\ i.task = k.task
      BY <2>1
    <2> QED
      BY <2>2
  <1>4. Records(Docs')
    <2>1. \A j \in jobs' : DOMAIN j = {"id", "task", "pid", "watched"} /\ j.task \in Tasks
      BY <1>2, <1>3, DocsIs DEF Records
    <2> QED
      BY <1>1, <1>2, <2>1, DocsIs, DocsNextIs DEF Records
  <1>5. ASSUME NEW q \in Queues \ excused
        PROVE  OnlyOne(Docs'.jobs, events', q) /\ Known(Docs', events', tasks, q)
    <2>1. OnlyOne(jobs, events, q) /\ Known(Docs, events, tasks, q)
      BY <1>2, DocsIs DEF InSight
    <2>2. \A i, j \in jobs' : QueueOf[i.task] = q /\ QueueOf[j.task] = q => i = j
      <3> SUFFICES ASSUME NEW i \in jobs', NEW j \in jobs', QueueOf[i.task] = q, QueueOf[j.task] = q
                   PROVE  i = j
        OBVIOUS
      <3> PICK k \in jobs : i = [k EXCEPT !.watched = FALSE] /\ i.task = k.task
        BY <1>3
      <3> PICK l \in jobs : j = [l EXCEPT !.watched = FALSE] /\ j.task = l.task
        BY <1>3
      <3>1. k = l
        BY <2>1 DEF OnlyOne
      <3> QED
        BY <3>1
    <2>3. OnlyOne(jobs', events', q)
      BY <1>1, <2>2 DEF OnlyOne
    <2>4. Known(Docs', events', tasks, q)
      BY <1>1, <1>3, <2>1, DocsIs, DocsNextIs DEF Known, RunsIn
    <2> QED
      BY <2>3, <2>4, DocsNextIs
  <1>7. InSight(Docs', events', tasks, excused)
    BY <1>5 DEF InSight
  <1>8. InSight(Docs', events', tasks', excused \cup {})
    BY <1>1, <1>7, MoreExcused
  <1>9. Filed(tasks') /\ Posted(events') /\ gate' \in Tasks \cup {NoTask}
    BY <1>1, <1>2 DEF Posted
  <1> QED
    BY <1>1, <1>4, <1>8, <1>9, ExcusedInv

LEMMA SpawnInv ==
  ASSUME QueueInv, NEW j \in jobs, Spawn(j)
  PROVE  QueueInv'
  <1>1. UNCHANGED <<queue, tasks, task, gate>> /\ Excuse({})
    BY DEF Spawn, book, desk
  <1>2. Records(Docs) /\ Filed(tasks) /\ InSight(Docs, events, tasks, excused)
    BY DEF QueueInv
  <1>3. j.task \in Tasks /\ DOMAIN j = {"id", "task", "pid", "watched"}
    BY <1>2, DocsIs DEF Records
  <1> PICK E : E = [task : Tasks, pid : Pids] \cup [task : Tasks, result : Results]
    OBVIOUS
  <1>4. events \in Seq(E)
    BY DEF QueueInv, Posted
  <1>5. CASE \E p \in Pids : /\ jobs' = (jobs \ {j}) \cup {[j EXCEPT !.pid = p]}
                             /\ events' = Append(events, [task |-> j.task, pid |-> p])
    <2>1. PICK p \in Pids : /\ jobs' = (jobs \ {j}) \cup {[j EXCEPT !.pid = p]}
                            /\ events' = Append(events, [task |-> j.task, pid |-> p])
      BY <1>5
    <2> PICK k : k = [j EXCEPT !.pid = p]
      OBVIOUS
    <2> PICK e : e = [task |-> j.task, pid |-> p]
      OBVIOUS
    <2>2. DOMAIN k = {"id", "task", "pid", "watched"} /\ k.task = j.task
      BY <1>3
    <2>3. ~IsComplete(e) /\ e \in E
      BY <1>3 DEF IsComplete
    <2>4. jobs' = (jobs \ {j}) \cup {k} /\ events' = Append(events, e)
      BY <2>1
    <2>5. Posted(events')
      BY <1>4, <2>3, <2>4 DEF Posted
    <2>6. Records(Docs')
      <3>1. \A i \in jobs' : DOMAIN i = {"id", "task", "pid", "watched"} /\ i.task \in Tasks
        BY <1>2, <1>3, <2>2, <2>4, DocsIs DEF Records
      <3> QED
        BY <1>1, <1>2, <3>1, DocsIs, DocsNextIs DEF Records
    <2>7. /\ Docs'.queue = Docs.queue /\ Docs'.task = Docs.task
          /\ Docs'.jobs = (Docs.jobs \ {j}) \cup {k} /\ j \in Docs.jobs
      BY <1>1, <2>4, DocsIs, DocsNextIs
    <2>8. InSight(Docs', events', tasks, excused)
      <3>1. Goes(Docs, Docs', events, events', E, j, k, e)
        BY <1>4, <2>2, <2>3, <2>4, <2>7 DEF Goes
      <3> QED
        BY <1>2, <3>1, SpawnKeepsSight
    <2>9. InSight(Docs', events', tasks', excused \cup {})
      BY <1>1, <2>8, MoreExcused
    <2> QED
      BY <1>1, <1>2, <2>5, <2>6, <2>9, ExcusedInv DEF QueueInv
  <1>6. CASE /\ jobs' = jobs \ {j}
             /\ events' = Append(events, [task |-> j.task, result |-> "BLOCKED"])
    <2> PICK e : e = [task |-> j.task, result |-> "BLOCKED"]
      OBVIOUS
    <2>1. e \in E /\ e.task = j.task
      BY <1>3 DEF Results
    <2>2. jobs' = jobs \ {j} /\ events' = Append(events, e)
      BY <1>6
    <2>3. Posted(events')
      BY <1>4, <2>1, <2>2 DEF Posted
    <2>4. Records(Docs')
      BY <1>1, <1>2, <2>2, DocsIs, DocsNextIs DEF Records
    <2>5. /\ Docs'.queue = Docs.queue /\ Docs'.task = Docs.task
          /\ Docs'.jobs = Docs.jobs \ {j} /\ j \in Docs.jobs
      BY <1>1, <2>2, DocsIs, DocsNextIs
    <2>6. InSight(Docs', events', tasks, excused)
      <3>1. Ends(Docs, Docs', events, events', E, j, e)
        BY <1>4, <2>1, <2>2, <2>5 DEF Ends
      <3> QED
        BY <1>2, <3>1, EndKeepsSight
    <2>7. InSight(Docs', events', tasks', excused \cup {})
      BY <1>1, <2>6, MoreExcused
    <2> QED
      BY <1>1, <1>2, <2>3, <2>4, <2>7, ExcusedInv DEF QueueInv
  <1> QED
    BY <1>5, <1>6 DEF Spawn

LEMMA ExitInv ==
  ASSUME QueueInv, NEW j \in jobs, Exit(j)
  PROVE  QueueInv'
  <1>1. UNCHANGED <<queue, tasks, task, gate>> /\ Excuse({}) /\ jobs' = jobs \ {j}
    BY DEF Exit, book, desk
  <1>2. Records(Docs) /\ Filed(tasks) /\ InSight(Docs, events, tasks, excused)
    BY DEF QueueInv
  <1>3. j.task \in Tasks
    BY <1>2, DocsIs DEF Records
  <1> PICK E : E = [task : Tasks, pid : Pids] \cup [task : Tasks, result : Results]
    OBVIOUS
  <1>4. events \in Seq(E)
    BY DEF QueueInv, Posted
  <1>5. Records(Docs')
    BY <1>1, <1>2, DocsIs, DocsNextIs DEF Records
  <1>6. /\ Docs'.queue = Docs.queue /\ Docs'.task = Docs.task
        /\ Docs'.jobs = Docs.jobs \ {j} /\ j \in Docs.jobs
    BY <1>1, DocsIs, DocsNextIs
  <1>7. Posted(events') /\ InSight(Docs', events', tasks, excused)
    <2>1. ASSUME NEW r \in Results, events' = Append(events, [task |-> j.task, result |-> r])
          PROVE  Posted(events') /\ InSight(Docs', events', tasks, excused)
      <3> PICK e : e = [task |-> j.task, result |-> r]
        OBVIOUS
      <3>1. e \in E /\ e.task = j.task
        BY <1>3
      <3>2. events' = Append(events, e)
        BY <2>1
      <3>3. Posted(events')
        BY <1>4, <3>1, <3>2 DEF Posted
      <3> QED
        <4>1. Ends(Docs, Docs', events, events', E, j, e)
          BY <1>4, <1>6, <3>1, <3>2 DEF Ends
        <4> QED
          BY <1>2, <3>3, <4>1, EndKeepsSight
    <2>2. CASE UNCHANGED events
      <3>1. ASSUME NEW q \in Queues \ excused
            PROVE  OnlyOne(Docs'.jobs, events, q) /\ Known(Docs', events, tasks, q)
        <4>1. OnlyOne(Docs.jobs, events, q) /\ Known(Docs, events, tasks, q)
          BY <1>2 DEF InSight
        <4> QED
          BY <1>6, <4>1 DEF OnlyOne, Known, RunsIn
      <3> QED
        BY <2>2, <3>1 DEF InSight, QueueInv
    <2> QED
      BY <2>1, <2>2 DEF Exit
  <1>8. InSight(Docs', events', tasks', excused \cup {})
    BY <1>1, <1>7, MoreExcused
  <1> QED
    BY <1>1, <1>2, <1>5, <1>7, <1>8, ExcusedInv DEF QueueInv

LEMMA PollInv ==
  ASSUME QueueInv, Poll
  PROVE  QueueInv'
  <1>1. Records(Docs) /\ Filed(tasks) /\ InSight(Docs, events, tasks, excused)
    BY DEF QueueInv
  <1>2. \E gone \in SUBSET Tasks :
           /\ task' = [t \in Tasks |->
                IF t \in gone THEN [status |-> "INTERRUPTED", pid |-> NoPid] ELSE task[t]]
           /\ queue' = [q \in Queues |->
                IF q \in {QueueOf[t] : t \in gone} THEN [queue[q] EXCEPT !.status = "PAUSED"]
                ELSE queue[q]]
           /\ UNCHANGED <<tasks, jobs, events, gate>> /\ Excuse({QueueOf[t] : t \in gone})
    BY DEF Poll, world, desk
  <1>3. PICK gone \in SUBSET Tasks :
           /\ task' = [t \in Tasks |->
                IF t \in gone THEN [status |-> "INTERRUPTED", pid |-> NoPid] ELSE task[t]]
           /\ queue' = [q \in Queues |->
                IF q \in {QueueOf[t] : t \in gone} THEN [queue[q] EXCEPT !.status = "PAUSED"]
                ELSE queue[q]]
           /\ UNCHANGED <<tasks, jobs, events, gate>> /\ Excuse({QueueOf[t] : t \in gone})
    BY <1>2
  <1> PICK hit : hit = {QueueOf[t] : t \in gone}
    OBVIOUS
  <1>4. Records(Docs')
    <2>1. DOMAIN queue' = Queues /\ \A o \in Queues : DOMAIN queue'[o] = {"status", "pause"}
      BY <1>1, <1>3, DocsIs DEF Records
    <2>2. \A o \in Queues : queue'[o].pause \in BOOLEAN
      BY <1>1, <1>3, DocsIs DEF Records
    <2>3. DOMAIN task' = Tasks /\ \A u \in Tasks : DOMAIN task'[u] = {"status", "pid"}
      BY <1>1, <1>3, DocsIs DEF Records
    <2>4. \A j \in jobs' : DOMAIN j = {"id", "task", "pid", "watched"} /\ j.task \in Tasks
      BY <1>1, <1>3, DocsIs DEF Records
    <2> QED
      BY <2>1, <2>2, <2>3, <2>4, DocsNextIs DEF Records
  <1>5. Docs'.jobs = Docs.jobs
    BY <1>3, DocsIs, DocsNextIs
  <1>6. ASSUME NEW o \in Queues, o \notin hit
        PROVE  /\ Docs'.queue[o] = Docs.queue[o]
               /\ \A u \in ToSet(tasks[o]) :
                    Docs.task[u].status = "RUNNING" => Docs'.task[u].status = "RUNNING"
    <2>1. queue'[o] = queue[o]
      BY <1>3, <1>6
    <2>2. \A u \in ToSet(tasks[o]) : u \in Tasks /\ QueueOf[u] = o
      BY <1>1 DEF Filed, ToSet
    <2>3. \A u \in ToSet(tasks[o]) : u \notin gone
      BY <1>6, <2>2
    <2>4. \A u \in ToSet(tasks[o]) : task'[u] = task[u]
      BY <1>3, <2>2, <2>3
    <2> QED
      BY <2>1, <2>4, DocsIs, DocsNextIs
  <1>7. \A o \in Queues : o \in hit \/ Docs.queue[o].status # "RUNNING" \/
          /\ Docs'.queue[o] = Docs.queue[o]
          /\ \A u \in ToSet(tasks[o]) :
               Docs.task[u].status = "RUNNING" => Docs'.task[u].status = "RUNNING"
    BY <1>6
  <1>8. InSight(Docs', events, tasks, excused \cup hit)
    BY <1>1, <1>5, <1>7, HitKeepsSight
  <1>9. Filed(tasks') /\ Posted(events') /\ gate' \in Tasks \cup {NoTask}
    BY <1>3 DEF QueueInv
  <1>10. InSight(Docs', events', tasks', excused \cup hit) /\ Excuse(hit)
    BY <1>3, <1>8
  <1> QED
    BY <1>4, <1>9, <1>10, ExcusedInv

\* What _on_queue_task_complete records before any queue is started.
Told(e) == [Docs EXCEPT !.task[e.task] = [status |-> e.result, pid |-> NoPid]]
Shown(e, st) ==
  [Told(e) EXCEPT !.queue[QueueOf[e.task]] = [status |-> st, pause |-> FALSE]]

LEMMA ShownIs ==
  ASSUME Records(Docs), NEW e, e.task \in Tasks, NEW st, NEW s, s = Shown(e, st)
  PROVE  /\ Records(s) /\ s.jobs = jobs
         /\ s.queue[QueueOf[e.task]].status = st
         /\ \A o \in Queues : o # QueueOf[e.task] => s.queue[o] = queue[o]
         /\ \A u \in Tasks : u # e.task => s.task[u] = task[u]
         /\ s.task[e.task].status = e.result
  <1> PICK t \in Tasks : t = e.task
    OBVIOUS
  <1> PICK q \in Queues : q = QueueOf[t]
    BY QueueAssumption
  <1> PICK a : a = [status |-> e.result, pid |-> NoPid]
    OBVIOUS
  <1> PICK b : b = [status |-> st, pause |-> FALSE]
    OBVIOUS
  <1> PICK m : m = Told(e)
    OBVIOUS
  <1>1. /\ DOMAIN a = {"status", "pid"} /\ DOMAIN b = {"status", "pause"} /\ b.pause \in BOOLEAN
        /\ b.status = st /\ a.status = e.result
    OBVIOUS
  <1>2. m = [Docs EXCEPT !.task[t] = a]
    BY DEF Told
  <1>3. s = [m EXCEPT !.queue[q] = b]
    BY DEF Shown
  <1>4. /\ m.queue = queue /\ m.jobs = jobs /\ DOMAIN m = {"queue", "task", "jobs"}
        /\ DOMAIN m.task = Tasks /\ m.task[t] = a
        /\ \A u \in Tasks : u # t => m.task[u] = task[u]
    BY <1>2, DocsIs DEF Records
  <1>5. /\ s.task = m.task /\ s.jobs = jobs /\ DOMAIN s = {"queue", "task", "jobs"}
        /\ DOMAIN s.queue = Queues /\ s.queue[q] = b
        /\ \A o \in Queues : o # q => s.queue[o] = queue[o]
    BY <1>3, <1>4, DocsIs DEF Records
  <1>6. Records(s)
    <2>1. \A o \in Queues : DOMAIN s.queue[o] = {"status", "pause"} /\ s.queue[o].pause \in BOOLEAN
      BY <1>1, <1>5, DocsIs DEF Records
    <2>2. DOMAIN s.task = Tasks /\ \A u \in Tasks : DOMAIN s.task[u] = {"status", "pid"}
      BY <1>1, <1>4, <1>5, DocsIs DEF Records
    <2>3. \A j \in s.jobs : DOMAIN j = {"id", "task", "pid", "watched"} /\ j.task \in Tasks
      BY <1>5, DocsIs DEF Records
    <2> QED
      BY <1>5, <2>1, <2>2, <2>3 DEF Records
  <1> QED
    BY <1>1, <1>4, <1>5, <1>6

\* The steps of _on_queue_task_complete.
Completes(e, dec, shown, next, bad, s) ==
  /\ dec = queue_decision(QueueOf[e.task], e.result, Told(e)) /\ shown = Shown(e, dec[1])
  /\ next = IF dec[2] THEN StartQueue(shown, QueueOf[e.task], bad) ELSE shown
  /\ s = StartWaiting(next, bad) /\ Settle(s)

LEMMA CompletedIs ==
  ASSUME NEW e, Completed(e)
  PROVE  \E dec, shown, next, bad, s : Completes(e, dec, shown, next, bad, s)
  <1> PICK dec : dec = queue_decision(QueueOf[e.task], e.result, Told(e))
    OBVIOUS
  <1> PICK shown : shown = Shown(e, dec[1])
    OBVIOUS
  <1>1. \E bad \in SUBSET Unready :
          Settle(StartWaiting(IF dec[2] THEN StartQueue(shown, QueueOf[e.task], bad) ELSE shown,
                              bad))
    BY DEF Completed, Told, Shown
  <1> PICK bad : Settle(StartWaiting(
                   IF dec[2] THEN StartQueue(shown, QueueOf[e.task], bad) ELSE shown, bad))
    BY <1>1
  <1> PICK next : next = IF dec[2] THEN StartQueue(shown, QueueOf[e.task], bad) ELSE shown
    OBVIOUS
  <1> PICK s : s = StartWaiting(next, bad)
    OBVIOUS
  <1>2. Completes(e, dec, shown, next, bad, s)
    BY DEF Completes
  <1> QED
    BY <1>2

LEMMA PostedIs ==
  ASSUME Posted(events), events # << >>, NEW e, e = Head(events), events' = Tail(events)
  PROVE  /\ Posted(events') /\ Len(events) > 0 /\ e = events[1] /\ 1 \in DOMAIN events
         /\ e.task \in Tasks /\ (IsComplete(e) => e.result \in Results)
  <1> PICK E : E = [task : Tasks, pid : Pids] \cup [task : Tasks, result : Results]
    OBVIOUS
  <1>1. events \in Seq(E) /\ Len(events) > 0
    BY DEF Posted
  <1>2. events' \in Seq(E) /\ e = events[1] /\ 1 \in DOMAIN events /\ e \in E
    BY <1>1, TailIs
  <1>3. e.task \in Tasks /\ (IsComplete(e) => e.result \in Results)
    BY <1>2 DEF IsComplete
  <1> QED
    BY <1>1, <1>2, <1>3 DEF Posted

LEMMA CompletedInv ==
  ASSUME QueueInv, NEW e, e = Head(events), events # << >>, events' = Tail(events),
         IsComplete(e), UNCHANGED tasks, e.task \in ToSet(tasks[QueueOf[e.task]]),
         Completed(e), Excuse({})
  PROVE  QueueInv'
  <1>1. Records(Docs) /\ Filed(tasks) /\ InSight(Docs, events, tasks, excused) /\ Posted(events)
    BY DEF QueueInv
  <1>2. /\ Posted(events') /\ Len(events) > 0 /\ e = events[1] /\ 1 \in DOMAIN events
        /\ e.task \in Tasks
    BY <1>1, PostedIs
  <1> PICK t \in Tasks : t = e.task
    BY <1>2
  <1> PICK q \in Queues : q = QueueOf[t]
    BY QueueAssumption
  <1> PICK dec, shown, next, bad, s : Completes(e, dec, shown, next, bad, s)
    BY CompletedIs
  <1>3. /\ InSight(Docs, events', tasks, excused)
        /\ q \notin excused => /\ \A j \in Docs.jobs : QueueOf[j.task] # q
                               /\ \A m \in DOMAIN events' : ~Done(events', m, q)
    <2>1. Done(events, 1, q)
      BY <1>2 DEF Done
    <2>2. \E E : events \in Seq(E)
      BY <1>1 DEF Posted
    <2> QED
      BY <1>1, <1>2, <2>1, <2>2, TailKeepsSight
  <1>4. /\ Records(shown) /\ shown.jobs = jobs
        /\ \A o \in Queues : o # q => shown.queue[o] = queue[o]
        /\ \A u \in Tasks : u # t => shown.task[u] = task[u]
    <2>1. shown = Shown(e, dec[1])
      BY DEF Completes
    <2>2. /\ Records(shown) /\ shown.jobs = jobs
          /\ \A o \in Queues : o # QueueOf[e.task] => shown.queue[o] = queue[o]
          /\ \A u \in Tasks : u # e.task => shown.task[u] = task[u]
      BY <1>1, <1>2, <2>1, ShownIs
    <2> QED
      BY <2>2
  <1>5. /\ shown.jobs = Docs.jobs
        /\ \A o \in Queues : o # q => shown.queue[o] = Docs.queue[o]
        /\ \A u \in Tasks : QueueOf[u] # q => shown.task[u] = Docs.task[u]
    BY <1>4, DocsIs
  <1>6. InSight(shown, events', tasks, excused)
    <2>1. Aside(Docs, shown, events', excused, q)
      BY <1>3, <1>5 DEF Aside
    <2> QED
      BY <1>1, <1>3, <2>1, AsideKeepsSight
  <1>7. Records(next) /\ InSight(next, events', tasks, excused)
    <2>1. CASE next = shown
      BY <1>4, <1>6, <2>1
    <2>2. CASE next = StartQueue(shown, q, bad)
      BY <1>1, <1>4, <1>6, <2>2, StartQueueKeeps
    <2> QED
      BY <2>1, <2>2 DEF Completes
  <1>8. RoundKeeps(next, s, events', excused) /\ Settle(s)
    BY <1>1, <1>7, StartWaitingKeeps DEF Completes
  <1>9. Records(Docs') /\ InSight(Docs', events', tasks, excused)
    BY <1>8, SettledSight DEF RoundKeeps
  <1>10. InSight(Docs', events', tasks', excused \cup {})
    BY <1>9, MoreExcused
  <1>11. Filed(tasks') /\ gate' \in Tasks \cup {NoTask}
    BY <1>1, <1>2 DEF Completed, desk, QueueInv
  <1> QED
    BY <1>2, <1>9, <1>10, <1>11, ExcusedInv

LEMMA DrainInv ==
  ASSUME QueueInv, Drain
  PROVE  QueueInv'
  <1> PICK e : e = Head(events)
    OBVIOUS
  <1>1. Records(Docs) /\ Filed(tasks) /\ InSight(Docs, events, tasks, excused) /\ Posted(events)
    BY DEF QueueInv
  <1>2. /\ events # << >> /\ events' = Tail(events) /\ UNCHANGED tasks /\ Excuse({})
        /\ \/ ~IsComplete(e) /\ Started(e)
           \/ IsComplete(e) /\ e.task \in ToSet(tasks[QueueOf[e.task]]) /\ Completed(e)
           \/ UNCHANGED <<queue, task, jobs, gate>>
    BY DEF Drain, book, desk
  <1>3. Posted(events') /\ Len(events) > 0 /\ e.task \in Tasks
    BY <1>1, <1>2, PostedIs
  <1>4. InSight(Docs, events', tasks, excused)
    <2>1. \E E : events \in Seq(E)
      BY <1>1 DEF Posted
    <2> QED
      BY <1>1, <1>2, <1>3, <2>1, TailKeepsSight
  <1>5. ASSUME UNCHANGED <<queue, jobs, gate>>, DOMAIN task' = Tasks,
               \A u \in Tasks : DOMAIN task'[u] = {"status", "pid"},
               \A u \in Tasks : task'[u].status = task[u].status
        PROVE  QueueInv'
    <2>1. Records(Docs')
      BY <1>1, <1>5, DocsIs, DocsNextIs DEF Records
    <2>2. /\ Docs'.jobs = Docs.jobs /\ Docs'.queue = Docs.queue
          /\ \A u \in Tasks : Docs'.task[u].status = Docs.task[u].status
      BY <1>5, DocsIs, DocsNextIs
    <2>3. \A q \in Queues : \A u \in ToSet(tasks[q]) :
            Docs.task[u].status = "RUNNING" =>
              u \in ToSet(tasks[q]) /\ Docs'.task[u].status = "RUNNING"
      BY <1>1, <2>2 DEF Filed, ToSet
    <2>4. InSight(Docs', events', tasks, excused)
      BY <1>4, <2>2, <2>3, ListKeepsSight
    <2>5. InSight(Docs', events', tasks', excused \cup {})
      BY <1>2, <2>4, MoreExcused
    <2> QED
      BY <1>1, <1>2, <1>3, <1>5, <2>1, <2>5, ExcusedInv DEF QueueInv
  <1>6. CASE ~IsComplete(e) /\ Started(e)
    <2>1. UNCHANGED <<queue, jobs, gate>>
      BY <1>6 DEF Started, desk
    <2>2. task' = task \/ task' = [task EXCEPT ![e.task].pid = e.pid]
      BY <1>6 DEF Started
    <2>3. /\ DOMAIN task' = Tasks /\ \A u \in Tasks : DOMAIN task'[u] = {"status", "pid"}
          /\ \A u \in Tasks : task'[u].status = task[u].status
      BY <1>1, <1>3, <2>2, DocsIs DEF Records
    <2> QED
      BY <1>5, <2>1, <2>3
  <1>7. CASE IsComplete(e) /\ e.task \in ToSet(tasks[QueueOf[e.task]]) /\ Completed(e)
    BY <1>2, <1>7, CompletedInv
  <1>8. CASE UNCHANGED <<queue, task, jobs, gate>>
    <2>1. /\ DOMAIN task' = Tasks /\ \A u \in Tasks : DOMAIN task'[u] = {"status", "pid"}
          /\ \A u \in Tasks : task'[u].status = task[u].status
      BY <1>1, <1>8, DocsIs DEF Records
    <2> QED
      BY <1>5, <1>8, <2>1
  <1> QED
    BY <1>2, <1>6, <1>7, <1>8
-----------------------------------------------------------------------------
LEMMA InitWork == QueueInit => QueueInv
  <1> SUFFICES ASSUME QueueInit PROVE QueueInv
    OBVIOUS
  <1>1. Records(Docs)
    <2>1. DOMAIN queue = Queues /\ \A q \in Queues : DOMAIN queue[q] = {"status", "pause"}
      BY DEF QueueInit
    <2>2. \A q \in Queues : queue[q].pause \in BOOLEAN
      BY DEF QueueInit
    <2>3. DOMAIN task = Tasks /\ \A t \in Tasks : DOMAIN task[t] = {"status", "pid"}
      BY DEF QueueInit
    <2>4. jobs = {}
      BY DEF QueueInit
    <2> QED
      BY <2>1, <2>2, <2>3, <2>4, DocsIs DEF Records
  <1>2. Filed(tasks)
    BY QueueAssumption DEF QueueInit, Filed
  <1>3. Posted(events) /\ gate \in Tasks \cup {NoTask}
    BY DEF QueueInit, Posted
  <1>4. InSight(Docs, events, tasks, excused)
    BY DocsIs DEF QueueInit, InSight, OnlyOne, Known
  <1> QED
    BY <1>1, <1>2, <1>3, <1>4 DEF QueueInv

LEMMA NextWork == QueueInv /\ [QueueNext]_queueVars => QueueInv'
  <1> SUFFICES ASSUME QueueInv, [QueueNext]_queueVars PROVE QueueInv'
    OBVIOUS
  <1>1. CASE OperatorActs
    <2>1. ASSUME NEW q \in Queues, Start(q) \/ Resume(q) \/ Pause(q) PROVE QueueInv'
      BY <2>1, StartInv, ResumeInv, PauseInv
    <2>2. ASSUME NEW t \in Tasks, AddTask(t) \/ DeleteWaiting(t) \/ Verdict(t) PROVE QueueInv'
      BY <2>2, AddTaskInv, DeleteWaitingInv, VerdictInv
    <2>3. ASSUME NEW q \in Queues, NEW i, Reorder(q, i) PROVE QueueInv'
      BY <2>3, ReorderInv
    <2>4. ASSUME NEW m, SaveSettings(m) PROVE QueueInv'
      BY <2>4, SaveSettingsInv
    <2>5. CASE ShowHome
      BY <2>5, ReloadInv DEF ShowHome
    <2> QED
      BY <1>1, <2>1, <2>2, <2>3, <2>4, <2>5 DEF OperatorActs
  <1>2. CASE Close
    BY <1>2, CloseInv
  <1>3. CASE Reopen
    BY <1>3, ReloadInv DEF Reopen
  <1>4. CASE Process
    BY <1>4, SpawnInv, ExitInv DEF Process
  <1>5. CASE Drain
    BY <1>5, DrainInv
  <1>6. CASE Poll
    BY <1>6, PollInv
  <1>7. CASE UNCHANGED queueVars
    <2>1. UNCHANGED <<queue, tasks, task, jobs, events, gate, excused>>
      BY <1>7 DEF queueVars, book, world, desk, history
    <2> QED
      BY <2>1 DEF QueueInv, Docs
  <1> QED
    BY <1>1, <1>2, <1>3, <1>4, <1>5, <1>6, <1>7 DEF QueueNext

-----------------------------------------------------------------------------
(* Queue q, which may not go on, still may not, and no task of it started.   *)
Stays(q) ==
  /\ Halted(q)'
  /\ \A u \in Tasks : QueueOf[u] = q /\ task'[u].status = "RUNNING" => task[u].status = "RUNNING"

HaltStep == stopped' \subseteq Queues /\ \A q \in stopped' : Stays(q)

\* A queue that the step leaves alone.
LEMMA LeftAlone ==
  ASSUME HaltInv, NEW q \in stopped, queue'[q] = queue[q],
         \A u \in Tasks : QueueOf[u] = q => task'[u].status = task[u].status
  PROVE  Stays(q)
  BY DEF HaltInv, Halted, Stays

LEMMA StartHalt ==
  ASSUME QueueInv, HaltInv, NEW q \in Queues, Start(q)
  PROVE  HaltStep
  <1>1. PICK bad : Settle(StartQueue(Docs, q, bad))
    BY DEF Start
  <1> PICK s : s = StartQueue(Docs, q, bad)
    OBVIOUS
  <1>2. /\ \A o \in Queues : o # q => s.queue[o] = Docs.queue[o]
        /\ \A u \in Tasks : QueueOf[u] # q => s.task[u] = Docs.task[u]
    BY StartQueueKeeps DEF QueueInv
  <1>3. /\ \A o \in Queues : o # q => queue'[o] = queue[o]
        /\ \A u \in Tasks : QueueOf[u] # q => task'[u] = task[u]
    BY <1>1, <1>2, DocsIs DEF Settle
  <1>4. stopped' = stopped \ {q} /\ stopped \subseteq Queues
    BY DEF Start, HaltInv
  <1>5. \A o \in stopped' : Stays(o)
    BY <1>3, <1>4, LeftAlone
  <1> QED
    BY <1>4, <1>5 DEF HaltStep

LEMMA ResumeHalt ==
  ASSUME QueueInv, HaltInv, NEW q \in Queues, Resume(q)
  PROVE  HaltStep
  <1> PICK r : r = Reset(q)
    OBVIOUS
  <1>1. /\ queue[q].status # "RUNNING"
        /\ \/ Settle(r) /\ stopped' = stopped
           \/ /\ \E bad : Settle(StartQueue(SetStatus(r, q, "IDLE"), q, bad))
              /\ stopped' = stopped \ {q}
    BY DEF Resume, Reset
  <1>2. /\ Records(r) /\ InSight(r, events, tasks, excused) /\ r.queue = queue
        /\ \A u \in Tasks : r.task[u].status # task[u].status => r.task[u].status = "WAITING"
    BY ResetIs
  <1>3. stopped \subseteq Queues /\ \A o \in stopped : Halted(o)
    BY DEF HaltInv
  <1>4. CASE Settle(r) /\ stopped' = stopped
    <2>1. queue' = queue /\ task' = r.task
      BY <1>2, <1>4 DEF Settle
    <2> QED
      BY <1>2, <1>3, <1>4, <2>1 DEF HaltStep, Stays, Halted
  <1>5. ASSUME NEW bad, Settle(StartQueue(SetStatus(r, q, "IDLE"), q, bad)),
               stopped' = stopped \ {q}
        PROVE  HaltStep
    <2> PICK m : m = SetStatus(r, q, "IDLE")
      OBVIOUS
    <2> PICK s : s = StartQueue(m, q, bad)
      OBVIOUS
    <2>1. r.queue[q].status # "RUNNING"
      BY <1>1, <1>2
    <2>2. Records(m) /\ InSight(m, events, tasks, excused)
      BY <1>2, <2>1, StatusKeepsSight
    <2>3. m.task = r.task /\ \A o \in Queues : o # q => m.queue[o] = r.queue[o]
      BY <1>2 DEF SetStatus, Records
    <2>4. /\ \A o \in Queues : o # q => s.queue[o] = m.queue[o]
          /\ \A u \in Tasks : QueueOf[u] # q => s.task[u] = m.task[u]
      BY <2>2, StartQueueKeeps DEF QueueInv
    <2>5. /\ \A o \in Queues : o # q => queue'[o] = queue[o]
          /\ \A u \in Tasks : QueueOf[u] # q => task'[u] = r.task[u]
      BY <1>2, <1>5, <2>3, <2>4 DEF Settle
    <2>6. \A u \in Tasks : QueueOf[u] # q /\ task'[u].status = "RUNNING" => task[u].status = "RUNNING"
      BY <1>2, <2>5
    <2> QED
      BY <1>3, <1>5, <2>5, <2>6 DEF HaltStep, Stays, Halted
  <1> QED
    BY <1>1, <1>4, <1>5

LEMMA PauseHalt ==
  ASSUME QueueInv, HaltInv, NEW q \in Queues, Pause(q)
  PROVE  HaltStep
  <1>1. /\ UNCHANGED task /\ stopped' = stopped \cup {q}
        /\ queue' = [queue EXCEPT ![q] = IF @.status = "RUNNING" THEN [@ EXCEPT !.pause = TRUE]
                                         ELSE [@ EXCEPT !.status = "PAUSED"]]
    BY DEF Pause
  <1>2. Records(Docs)
    BY DEF QueueInv
  <1>3. /\ \A o \in Queues : o # q => queue'[o] = queue[o]
        /\ queue'[q] = IF queue[q].status = "RUNNING" THEN [queue[q] EXCEPT !.pause = TRUE]
                       ELSE [queue[q] EXCEPT !.status = "PAUSED"]
        /\ DOMAIN queue[q] = {"status", "pause"}
    BY <1>1, <1>2, DocsIs DEF Records
  <1>4. Halted(q)'
    <2>1. CASE queue[q].status = "RUNNING"
      <3>1. queue'[q].status = "RUNNING" /\ queue'[q].pause = TRUE
        BY <1>3, <2>1
      <3> QED
        BY <3>1 DEF Halted
    <2>2. CASE queue[q].status # "RUNNING"
      BY <1>3, <2>2 DEF Halted
    <2> QED
      BY <2>1, <2>2
  <1>5. ASSUME NEW o \in stopped' PROVE Stays(o)
    <2>1. CASE o = q
      BY <1>1, <1>4, <2>1 DEF Stays
    <2>2. CASE o # q
      BY <1>1, <1>3, <2>2, LeftAlone DEF HaltInv
    <2> QED
      BY <2>1, <2>2
  <1> QED
    BY <1>1, <1>5 DEF HaltStep, HaltInv

\* What the operator does to the lists of tasks.
LEMMA ListHalt ==
  ASSUME QueueInv, HaltInv,
         \/ \E t \in Tasks : AddTask(t) \/ DeleteWaiting(t)
         \/ \E q \in Queues : \E i : Reorder(q, i)
  PROVE  HaltStep
  <1>1. Records(Docs) /\ stopped \subseteq Queues /\ \A q \in stopped : Halted(q)
    BY DEF QueueInv, HaltInv
  <1>2. ASSUME NEW t \in Tasks, AddTask(t) PROVE HaltStep
    <2> PICK q \in Queues : q = QueueOf[t]
      BY QueueAssumption
    <2>1. /\ stopped' = stopped /\ task' = [task EXCEPT ![t].status = "WAITING"]
          /\ queue' = [queue EXCEPT ![q].status = IF @ = "COMPLETED" THEN "IDLE" ELSE @]
      BY <1>2 DEF AddTask, history
    <2>2. \A u \in Tasks : task'[u].status = "RUNNING" => task[u].status = "RUNNING"
      BY <1>1, <2>1, DocsIs DEF Records
    <2>3. /\ \A o \in Queues : o # q => queue'[o] = queue[o]
          /\ queue'[q].pause = queue[q].pause
          /\ queue'[q].status = IF queue[q].status = "COMPLETED" THEN "IDLE" ELSE queue[q].status
      BY <1>1, <2>1, DocsIs DEF Records
    <2>4. \A o \in stopped : Halted(o)'
      BY <1>1, <2>3 DEF Halted
    <2> QED
      BY <1>1, <2>1, <2>2, <2>4 DEF HaltStep, Stays
  <1>3. ASSUME NEW t \in Tasks, DeleteWaiting(t) PROVE HaltStep
    <2>1. /\ stopped' = stopped /\ queue' = queue
          /\ task' = [task EXCEPT ![t].status = "DELETED"]
      BY <1>3 DEF DeleteWaiting, history
    <2>2. \A u \in Tasks : task'[u].status = "RUNNING" => task[u].status = "RUNNING"
      BY <1>1, <2>1, DocsIs DEF Records
    <2> QED
      BY <1>1, <2>1, <2>2 DEF HaltStep, Stays, Halted
  <1>4. ASSUME NEW q \in Queues, NEW i, Reorder(q, i) PROVE HaltStep
    <2>1. stopped' = stopped /\ queue' = queue /\ task' = task
      BY <1>4 DEF Reorder, history
    <2> QED
      BY <1>1, <2>1 DEF HaltStep, Stays, Halted
  <1> QED
    BY <1>2, <1>3, <1>4

LEMMA SaveSettingsHalt ==
  ASSUME QueueInv, HaltInv, NEW m, SaveSettings(m)
  PROVE  HaltStep
  <1>1. PICK bad : Settle(StartWaiting(Docs, bad))
    BY DEF SaveSettings
  <1> PICK s : s = StartWaiting(Docs, bad)
    OBVIOUS
  <1>2. RoundKeeps(Docs, s, events, excused)
    BY StartWaitingKeeps DEF QueueInv
  <1>3. \A o \in Queues : queue[o].status # "WAITING" =>
          /\ queue'[o] = queue[o]
          /\ \A u \in Tasks : QueueOf[u] = o => task'[u] = task[u]
    BY <1>1, <1>2, DocsIs DEF RoundKeeps, Settle
  <1>4. stopped' = stopped
    BY DEF SaveSettings
  <1>5. \A o \in stopped' : Stays(o)
    BY <1>3, <1>4, LeftAlone DEF HaltInv, Halted
  <1> QED
    BY <1>4, <1>5 DEF HaltStep, HaltInv

LEMMA VerdictHalt ==
  ASSUME QueueInv, HaltInv, NEW d \in Tasks, Verdict(d)
  PROVE  HaltStep
  <1> PICK t : t = gate
    OBVIOUS
  <1> PICK q : q = QueueOf[t]
    OBVIOUS
  <1>1. gate \in Tasks /\ t \in Tasks /\ q \in Queues
    BY QueueAssumption DEF Verdict, QueueInv
  <1>2. /\ stopped' = stopped \ {q}
        /\ \/ /\ task' = [task EXCEPT ![t] = [status |-> "RUNNING", pid |-> NoPid]]
              /\ queue' = [queue EXCEPT ![q].status = "RUNNING"]
           \/ UNCHANGED <<task, queue>>
    BY DEF Verdict
  <1>3. Records(Docs)
    BY DEF QueueInv
  <1>4. /\ \A o \in Queues : o # q => queue'[o] = queue[o]
        /\ \A u \in Tasks : QueueOf[u] # q => task'[u] = task[u]
    BY <1>1, <1>2, <1>3, DocsIs DEF Records
  <1>5. \A o \in stopped' : Stays(o)
    BY <1>2, <1>4, LeftAlone DEF HaltInv
  <1> QED
    BY <1>2, <1>5 DEF HaltStep, HaltInv

LEMMA ReloadHalt ==
  ASSUME QueueInv, HaltInv, Reload
  PROVE  HaltStep
  <1> PICK hit, st : Reread(hit, st)
    BY ReloadIs
  <1>1. Records(Docs)
    BY DEF QueueInv
  <1>2. /\ hit \subseteq Queues /\ stopped' = stopped \cup hit
        /\ \A t \in Tasks : st[t] = "RUNNING" => task[t].status = "RUNNING"
    BY DEF Reread
  <1>3. \A t \in Tasks : task'[t].status = st[t]
    BY <1>1, DocsIs DEF Reread, Records
  <1>4. \A o \in hit : queue'[o].status = "PAUSED"
    BY <1>1, DocsIs DEF Reread, Records
  <1>5. \A o \in Queues \ hit : queue'[o] = queue[o]
    BY DEF Reread
  <1>6. \A o \in stopped' : Halted(o)'
    <2> SUFFICES ASSUME NEW o \in stopped' PROVE Halted(o)'
      OBVIOUS
    <2>1. CASE o \in hit
      BY <1>4, <2>1 DEF Halted
    <2>2. CASE o \notin hit
      <3>1. o \in stopped /\ o \in Queues \ hit
        BY <1>2, <2>2 DEF HaltInv
      <3> QED
        BY <1>5, <3>1 DEF Halted, HaltInv
    <2> QED
      BY <2>1, <2>2
  <1> QED
    BY <1>2, <1>3, <1>6 DEF HaltStep, Stays, HaltInv

LEMMA PollHalt ==
  ASSUME QueueInv, HaltInv, Poll
  PROVE  HaltStep
  <1>1. \E gone \in SUBSET Tasks : \E hit :
           /\ hit = {QueueOf[t] : t \in gone} /\ stopped' = stopped \cup hit
           /\ task' = [t \in Tasks |->
                IF t \in gone THEN [status |-> "INTERRUPTED", pid |-> NoPid] ELSE task[t]]
           /\ queue' = [q \in Queues |->
                IF q \in hit THEN [queue[q] EXCEPT !.status = "PAUSED"] ELSE queue[q]]
    BY DEF Poll
  <1>2. PICK gone, hit :
           /\ gone \in SUBSET Tasks /\ hit = {QueueOf[t] : t \in gone} /\ stopped' = stopped \cup hit
           /\ task' = [t \in Tasks |->
                IF t \in gone THEN [status |-> "INTERRUPTED", pid |-> NoPid] ELSE task[t]]
           /\ queue' = [q \in Queues |->
                IF q \in hit THEN [queue[q] EXCEPT !.status = "PAUSED"] ELSE queue[q]]
    BY <1>1
  <1>3. hit \subseteq Queues
    BY <1>2, QueueAssumption
  <1>4. Records(Docs)
    BY DEF QueueInv
  <1>5. \A t \in Tasks : task'[t].status = "RUNNING" => task[t].status = "RUNNING"
    BY <1>2
  <1>6. \A o \in hit : queue'[o].status = "PAUSED"
    BY <1>2, <1>3, <1>4, DocsIs DEF Records
  <1>7. \A o \in Queues \ hit : queue'[o] = queue[o]
    BY <1>2
  <1>8. \A o \in stopped' : Halted(o)'
    <2> SUFFICES ASSUME NEW o \in stopped' PROVE Halted(o)'
      OBVIOUS
    <2>1. CASE o \in hit
      BY <1>6, <2>1 DEF Halted
    <2>2. CASE o \notin hit
      <3>1. o \in stopped /\ o \in Queues \ hit
        BY <1>2, <2>2 DEF HaltInv
      <3> QED
        BY <1>7, <3>1 DEF Halted, HaltInv
    <2> QED
      BY <2>1, <2>2
  <1>9. stopped' \subseteq Queues
    BY <1>2, <1>3 DEF HaltInv
  <1> QED
    BY <1>5, <1>8, <1>9 DEF HaltStep, Stays

\* queue_decision: only a task that passed lets its queue go on, and only when
\* nobody asked for a pause.
LEMMA DecisionIs ==
  ASSUME NEW q, NEW r \in Results, NEW docs, r = "PASS" => queue[q].pause,
         NEW dec, dec = queue_decision(q, r, docs)
  PROVE  dec \in {"WAITING_FOR_HUMAN", "BLOCKED", "PAUSED", "IDLE"} \X {FALSE}
  <1>1. CASE r = "PASS"
    BY <1>1 DEF queue_decision
  <1>2. CASE r = "WAITING_FOR_HUMAN"
    BY <1>2 DEF queue_decision
  <1>3. CASE r = "BLOCKED"
    BY <1>3 DEF queue_decision
  <1>4. CASE r \in {"FAIL", "CANCELLED"}
    BY <1>4 DEF queue_decision
  <1> QED
    BY <1>1, <1>2, <1>3, <1>4 DEF Results

LEMMA CompletedHalt ==
  ASSUME QueueInv, HaltInv, NEW e, e = Head(events), events # << >>, events' = Tail(events),
         IsComplete(e), UNCHANGED tasks, e.task \in ToSet(tasks[QueueOf[e.task]]),
         Completed(e), Excuse({})
  PROVE  HaltStep
  <1>1. Records(Docs) /\ Filed(tasks) /\ InSight(Docs, events, tasks, excused) /\ Posted(events)
    BY DEF QueueInv
  <1>2. /\ Len(events) > 0 /\ e = events[1] /\ 1 \in DOMAIN events
        /\ e.task \in Tasks /\ e.result \in Results
    BY <1>1, PostedIs
  <1> PICK t \in Tasks : t = e.task
    BY <1>2
  <1> PICK q \in Queues : q = QueueOf[t]
    BY QueueAssumption
  <1> PICK dec, shown, next, bad, s : Completes(e, dec, shown, next, bad, s)
    BY CompletedIs
  <1>3. /\ InSight(Docs, events', tasks, excused)
        /\ q \notin excused => /\ RunsIn(Docs, tasks, q, t)
                               /\ \A j \in Docs.jobs : QueueOf[j.task] # q
                               /\ \A m \in DOMAIN events' : ~Done(events', m, q)
    <2>1. Done(events, 1, q)
      BY <1>2 DEF Done
    <2>2. \E E : events \in Seq(E)
      BY <1>1 DEF Posted
    <2> QED
      BY <1>1, <1>2, <2>1, <2>2, TailKeepsSight
  <1>4. /\ Records(shown) /\ shown.jobs = jobs /\ shown.queue[q].status = dec[1]
        /\ \A o \in Queues : o # q => shown.queue[o] = queue[o]
        /\ \A u \in Tasks : u # t => shown.task[u] = task[u]
        /\ shown.task[t].status = e.result
    <2>1. shown = Shown(e, dec[1])
      BY DEF Completes
    <2>2. /\ Records(shown) /\ shown.jobs = jobs /\ shown.queue[QueueOf[e.task]].status = dec[1]
          /\ \A o \in Queues : o # QueueOf[e.task] => shown.queue[o] = queue[o]
          /\ \A u \in Tasks : u # e.task => shown.task[u] = task[u]
          /\ shown.task[e.task].status = e.result
      BY <1>1, <1>2, <2>1, ShownIs
    <2> QED
      BY <2>2
  <1>5. InSight(shown, events', tasks, excused)
    <2>1. /\ shown.jobs = Docs.jobs
          /\ \A o \in Queues : o # q => shown.queue[o] = Docs.queue[o]
          /\ \A u \in Tasks : QueueOf[u] # q => shown.task[u] = Docs.task[u]
      BY <1>4, DocsIs
    <2>2. Aside(Docs, shown, events', excused, q)
      BY <1>3, <2>1 DEF Aside
    <2> QED
      BY <1>1, <1>3, <2>2, AsideKeepsSight
  <1>6. /\ Records(next) /\ InSight(next, events', tasks, excused)
        /\ \A o \in Queues : o # q => next.queue[o] = shown.queue[o]
        /\ \A u \in Tasks : QueueOf[u] # q => next.task[u] = shown.task[u]
    <2>1. CASE next = shown
      BY <1>4, <1>5, <2>1
    <2>2. CASE next = StartQueue(shown, q, bad)
      BY <1>1, <1>4, <1>5, <2>2, StartQueueKeeps
    <2> QED
      BY <2>1, <2>2 DEF Completes
  <1>7. RoundKeeps(next, s, events', excused) /\ queue' = s.queue /\ task' = s.task
    BY <1>1, <1>6, StartWaitingKeeps DEF Completes, Settle
  <1>8. stopped' = IF e.result # "PASS" THEN stopped \cup {q}
                   ELSE IF q \in excused THEN stopped \ {q} ELSE stopped
    BY DEF Completed
  <1>9. ASSUME NEW o \in stopped, o # q PROVE Stays(o)
    <2>1. o \in Queues /\ Halted(o)
      BY DEF HaltInv
    <2>2. next.queue[o] = queue[o] /\ \A u \in Tasks : QueueOf[u] = o => next.task[u] = task[u]
      BY <1>4, <1>6, <1>9, <2>1
    <2>3. next.queue[o].status # "WAITING"
      BY <2>1, <2>2 DEF Halted
    <2>4. queue'[o] = queue[o] /\ \A u \in Tasks : QueueOf[u] = o => task'[u] = task[u]
      BY <1>7, <2>1, <2>2, <2>3 DEF RoundKeeps
    <2> QED
      BY <2>4, LeftAlone
  <1>10. ASSUME q \in stopped' PROVE Stays(q)
    <2>1. e.result = "PASS" => queue[q].pause
      <3> SUFFICES ASSUME e.result = "PASS" PROVE queue[q].pause
        OBVIOUS
      <3>1. q \notin excused /\ q \in stopped
        BY <1>8, <1>10
      <3>2. queue[q].status = "RUNNING"
        BY <1>3, <3>1, DocsIs DEF RunsIn
      <3> QED
        BY <3>1, <3>2 DEF HaltInv, Halted
    <2>2. dec \in {"WAITING_FOR_HUMAN", "BLOCKED", "PAUSED", "IDLE"} \X {FALSE}
      BY <1>2, <2>1, DecisionIs DEF Completes
    <2>3. next = shown
      BY <2>2 DEF Completes
    <2>4. dec[1] # "WAITING" /\ dec[1] # "RUNNING"
      BY <2>2
    <2>5. next.queue[q].status # "WAITING" /\ next.queue[q].status # "RUNNING"
      BY <1>4, <2>3, <2>4
    <2>6. queue'[q] = next.queue[q] /\ \A u \in Tasks : QueueOf[u] = q => task'[u] = next.task[u]
      BY <1>7, <2>5 DEF RoundKeeps
    <2>7. \A u \in Tasks : next.task[u].status = "RUNNING" => task[u].status = "RUNNING"
      BY <1>2, <1>4, <2>3 DEF Results
    <2> QED
      BY <2>5, <2>6, <2>7 DEF Stays, Halted
  <1>11. stopped' \subseteq Queues /\ \A o \in stopped' : o = q \/ o \in stopped
    BY <1>8 DEF HaltInv
  <1> QED
    BY <1>9, <1>10, <1>11 DEF HaltStep

LEMMA DrainHalt ==
  ASSUME QueueInv, HaltInv, Drain
  PROVE  HaltStep
  <1> PICK e : e = Head(events)
    OBVIOUS
  <1>1. Records(Docs) /\ Posted(events)
    BY DEF QueueInv
  <1>2. /\ events # << >> /\ events' = Tail(events) /\ UNCHANGED tasks /\ Excuse({})
        /\ \/ ~IsComplete(e) /\ Started(e)
           \/ IsComplete(e) /\ e.task \in ToSet(tasks[QueueOf[e.task]]) /\ Completed(e)
           \/ UNCHANGED <<queue, task, stopped>>
    BY DEF Drain, book
  <1>3. e.task \in Tasks
    BY <1>1, <1>2, PostedIs
  <1>4. ASSUME UNCHANGED <<queue, stopped>>, \A u \in Tasks : task'[u].status = task[u].status
        PROVE  HaltStep
    BY <1>4, LeftAlone DEF HaltStep, HaltInv
  <1>5. CASE ~IsComplete(e) /\ Started(e)
    <2>1. UNCHANGED <<queue, stopped>>
      BY <1>5 DEF Started
    <2>2. task' = task \/ task' = [task EXCEPT ![e.task].pid = e.pid]
      BY <1>5 DEF Started
    <2>3. \A u \in Tasks : task'[u].status = task[u].status
      BY <1>1, <1>3, <2>2, DocsIs DEF Records
    <2> QED
      BY <1>4, <2>1, <2>3
  <1>6. CASE IsComplete(e) /\ e.task \in ToSet(tasks[QueueOf[e.task]]) /\ Completed(e)
    BY <1>2, <1>6, CompletedHalt
  <1>7. CASE UNCHANGED <<queue, task, stopped>>
    BY <1>4, <1>7
  <1> QED
    BY <1>2, <1>5, <1>6, <1>7

LEMMA NextHalt ==
  ASSUME QueueInv, HaltInv, [QueueNext]_queueVars
  PROVE  HaltStep
  <1>1. CASE OperatorActs
    <2>1. ASSUME NEW q \in Queues, Start(q) \/ Resume(q) \/ Pause(q) PROVE HaltStep
      BY <2>1, StartHalt, ResumeHalt, PauseHalt
    <2>2. ASSUME NEW t \in Tasks, AddTask(t) \/ DeleteWaiting(t) PROVE HaltStep
      BY <2>2, ListHalt
    <2>3. ASSUME NEW t \in Tasks, Verdict(t) PROVE HaltStep
      BY <2>3, VerdictHalt
    <2>4. ASSUME NEW q \in Queues, NEW i, Reorder(q, i) PROVE HaltStep
      BY <2>4, ListHalt
    <2>5. ASSUME NEW m, SaveSettings(m) PROVE HaltStep
      BY <2>5, SaveSettingsHalt
    <2>6. CASE ShowHome
      BY <2>6, ReloadHalt DEF ShowHome
    <2> QED
      BY <1>1, <2>1, <2>2, <2>3, <2>4, <2>5, <2>6 DEF OperatorActs
  <1>2. CASE Reopen
    BY <1>2, ReloadHalt DEF Reopen
  <1>3. CASE Drain
    BY <1>3, DrainHalt
  <1>4. CASE Poll
    BY <1>4, PollHalt
  <1>5. ASSUME UNCHANGED <<queue, task, stopped>> PROVE HaltStep
    BY <1>5, LeftAlone DEF HaltStep, HaltInv
  <1>6. CASE Close
    BY <1>5, <1>6 DEF Close, book
  <1>7. CASE Process
    BY <1>5, <1>7 DEF Process, Spawn, Exit, book
  <1>8. CASE UNCHANGED queueVars
    BY <1>5, <1>8 DEF queueVars, book, history
  <1> QED
    BY <1>1, <1>2, <1>3, <1>4, <1>6, <1>7, <1>8 DEF QueueNext

\* A queue that failed, was interrupted, waits for a human or was paused starts
\* no further task before the operator says so (aaw_control_center.py,
\* queue_decision, _on_queue_task_complete, _start_waiting_queues), whichever
\* completion, setting or reload lets others start.
THEOREM OnlyPassContinuesHolds == QueueSpec => OnlyPassContinues
  <1>1. QueueInit => HaltInv
    BY DEF QueueInit, HaltInv
  <1>2. HaltStep => HaltInv'
    BY DEF HaltStep, HaltInv, Stays
  <1>3. ASSUME QueueInv, HaltInv, [QueueNext]_queueVars
        PROVE  /\ HaltInv'
               /\ [\A t \in Tasks : task[t].status # "RUNNING" /\ task'[t].status = "RUNNING"
                     => QueueOf[t] \notin stopped']_queueVars
    <2>1. HaltStep
      BY <1>3, NextHalt
    <2> QED
      BY <1>2, <2>1 DEF HaltStep, Stays
  <1> QED
    BY <1>1, <1>3, InitWork, NextWork, PTL DEF QueueSpec, OnlyPassContinues
=============================================================================
