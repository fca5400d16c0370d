------------------------- MODULE WorkflowRunProofs --------------------------
(***************************************************************************)
(* Theorems about RoutingContract and WorkflowRun, for all valid workflows *)
(* and any results, runs and faults.                                       *)
(***************************************************************************)
EXTENDS WorkflowRun, WellFoundedInduction, FiniteSetTheorems, TLAPS

-----------------------------------------------------------------------------
(* The merge journal: with one on disk, its backups are the worktree as the *)
(* last completed merge left it, and only its files may differ from that.   *)
JournalInv ==
  /\ flow \in DOMAIN Workflows /\ runs \in Nat
  /\ {tree, sealed} \subseteq [BranchFiles -> Nat]
  /\ journal = NoJournal => tree = sealed
  /\ journal # NoJournal =>
       /\ journal.before = sealed
       /\ \A f \in BranchFiles \ journal.files : tree[f] = sealed[f]
  /\ todo \subseteq journal.files
  /\ todo # {} => pc = "merge"
  /\ pc = "merged" => journal # NoJournal

-----------------------------------------------------------------------------
(* The run and its queues.                                                  *)
Ids == Seq(STRING \cup Nat) \ {NoNode}

\* A minted branch is a repair under a new id.
Minting ==
  /\ IsFiniteSet(DOMAIN minted) /\ DOMAIN minted \subseteq Ids \ Declared
  /\ \A b \in DOMAIN minted : /\ minted[b].id = b /\ minted[b].type = "REPAIR"
                              /\ ValidNode(minted[b], Flow.nodes)

Statuses == {"RUNNING"} \cup Settled
Phases == {"head", "record", "dispatch", "merge", "merged", "committed", "off"}

Control ==
  /\ status \in Statuses /\ pc \in Phases
  /\ pc # "off" => status = "RUNNING"
  /\ IF pc \in {"merge", "merged", "committed"} THEN merging \in Merges ELSE merging = NoNode

\* Each worker has a node of its own, and so has each entry of the snapshot.
Workers ==
  /\ active \in Seq(Elements(active))
  /\ \A w \in Elements(active) : DOMAIN w = {"id", "res"} /\ w.id \in Known
  /\ \A i, j \in DOMAIN active : i # j => active[i].id # active[j].id
Snapshot ==
  /\ due \in Seq(ActiveIds)
  /\ \A i, j \in DOMAIN due : i # j => due[i] # due[j]
Queues == frontier \in Seq(Known) /\ Workers /\ Snapshot

Records ==
  /\ completed \in Seq(Elements(completed))
  /\ \A rec \in Elements(completed) :
       /\ DOMAIN rec = {"id", "type", "res", "cycle", "here"}
       /\ rec.id \in Known /\ rec.type = Node(rec.id).type /\ rec.cycle \in Nat

\* The arrivals at each node are a sequence.
RowsOK(all) == \A n \in DOMAIN all : all[n] \in Seq(Elements(all[n]))
Arrived == DOMAIN arrivals \subseteq Known /\ RowsOK(arrivals)
Merging == merges \in [Merges -> {"WAITING", "READY", "MERGED", "BLOCKED"}]

\* As long as a run goes on nothing has settled twice in it, and no gate.
SettledOnce ==
  status = "RUNNING" =>
    /\ ~Twice
    /\ \A rec \in Elements(completed) : rec.here => rec.type \notin GateTypes

Budget == cycle \in Nat /\ calls \in Nat

RunInv ==
  /\ flow \in DOMAIN Workflows
  /\ Minting /\ Control /\ Budget /\ Queues /\ Records /\ Arrived /\ Merging
  /\ SettledOnce /\ SettledTwiceStops

-----------------------------------------------------------------------------
(* What has been selected is on its way as long as the run goes on.         *)
Pending == Elements(frontier) \cup ActiveIds \cup ({merging} \ {NoNode})

OnItsWay(n, e) ==
  \/ e.to = Stop
  \/ IF e.kind = "REPAIR"
     THEN \E b \in DOMAIN minted : minted[b].origin = n /\ b \in CompletedIds \cup Pending
     ELSE e.to \in Merges \cup CompletedIds \cup Pending

NothingForgotten ==
  pc # "off" =>
    /\ \A rec \in Elements(completed) : rec.here =>
         \A e \in Elements(Selected(Node(rec.id), rec.res)) : OnItsWay(rec.id, e)
    /\ \A m \in Merges : merges[m] = "MERGED" => m \in CompletedIds

-----------------------------------------------------------------------------
(* What a merge reads was routed to it by a result on record, and a merge   *)
(* is taken up only with its policy satisfied.                              *)
StartsElsewhere ==
  \A w \in DOMAIN Workflows : Workflows[w].nodes[Workflows[w].start].type # "MERGE"

RoutedBy(rec, a) ==
  /\ rec.id = a.from
  /\ a.edge \in {e.id : e \in Elements(Selected(Node(rec.id), rec.res))}

Fed(m) == MergeReady(Flow.nodes[m], Rows(arrivals, m))

MergesFed ==
  /\ \A m \in Merges : \A a \in Elements(Rows(arrivals, m)) :
       \E rec \in Elements(completed) : RoutedBy(rec, a)
  /\ \A m \in Merges \cap Pending : Fed(m)
  /\ \A rec \in Elements(completed) : rec.type = "MERGE" /\ rec.here => Fed(rec.id)

-----------------------------------------------------------------------------
(* THE MERGE JOURNAL.                                                       *)
LEMMA JournalInvInit == Init => JournalInv
  BY WorkflowAssumption DEF Init, JournalInv, NoJournal

LEMMA RestoredWhole ==
  ASSUME JournalInv, journal # NoJournal
  PROVE  Restored(journal.files) = sealed
  BY DEF JournalInv, Restored

LEMMA RestoredPart ==
  ASSUME JournalInv, journal # NoJournal, NEW files \in SUBSET journal.files
  PROVE  /\ Restored(files) \in [BranchFiles -> Nat]
         /\ \A f \in BranchFiles \ journal.files : Restored(files)[f] = sealed[f]
  BY DEF JournalInv, Restored

LEMMA RestoredNothing ==
  ASSUME JournalInv, journal = NoJournal, NEW files \in SUBSET journal.files
  PROVE  Restored(files) = tree
  BY DEF JournalInv, Restored, NoJournal

LEMMA JournalInvNext ==
  ASSUME JournalInv, JournalMayStay = FALSE, [Next]_vars
  PROVE  JournalInv'
  <1> USE DEF JournalInv
  <1>1. BranchFiles' = BranchFiles /\ flow' = flow
    <2>1. flow' = flow
      BY DEF Next, Loop, Harvest, Record, LookAround, Dispatch, DispatchUnmet, DispatchWorker,
             DispatchGate, DispatchMerge, DispatchEnds, Merge, MergeRefused, MergeStops,
             MergePrepares, MergeWrites, MergeCommits, MergeCompletes, Finish, MainMoved, MergeFails,
             Cancel, Crash, Recover, Decide, Resume, SeedFromResume, vars, graphVars
    <2> QED
      BY <2>1 DEF BranchFiles, Flow, Declared
  <1>2. ASSUME UNCHANGED mergeVars, runs' \in Nat, todo # {} => pc' = "merge", pc' # "merged"
        PROVE  JournalInv'
    BY <1>1, <1>2 DEF mergeVars
  <1>3. CASE Loop \/ Finish \/ MainMoved \/ Cancel \/ Decide
    <2>1. CASE Harvest \/ Record \/ LookAround \/ MainMoved \/ Decide
      BY <1>2, <2>1 DEF Harvest, Record, LookAround, MainMoved, Decide, StopWith, Goto
    <2>2. CASE Dispatch
      <3>1. runs' = runs /\ pc = "dispatch" /\ todo = {}
        BY <2>2 DEF Dispatch
      <3>2. \/ pc' # "merged" /\ UNCHANGED mergeVars
            \/ \E i \in Turn : DispatchMerge(i)
        BY <2>2, <3>1 DEF Dispatch, DispatchUnmet, DispatchWorker, DispatchGate, StopWith
      <3>3. CASE \E i \in Turn : DispatchMerge(i)
        BY <1>1, <3>1, <3>3 DEF DispatchMerge
      <3> QED
        BY <1>2, <3>1, <3>2, <3>3
    <2>3. CASE DispatchEnds
      BY <1>2, <2>3 DEF DispatchEnds
    <2>4. CASE Merge
      <3>1. CASE MergeRefused
        BY <1>1, <3>1 DEF MergeRefused, MergeStops, StopWith
      <3>2. CASE MergePrepares
        BY <1>1, <3>2 DEF MergePrepares, NoJournal
      <3>3. CASE MergeWrites
        <4>1. PICK f \in todo : tree' = [tree EXCEPT ![f] = runs] /\ todo' = todo \ {f}
          BY <3>3 DEF MergeWrites
        <4>2. journal' = journal /\ sealed' = sealed /\ runs' = runs
          BY <3>3 DEF MergeWrites
        <4>3. journal # NoJournal
          BY <3>3 DEF MergeWrites, NoJournal
        <4>4. todo' # {} => pc' = "merge"
          BY <3>3 DEF MergeWrites
        <4>5. tree' \in [BranchFiles -> Nat] /\ \A g \in BranchFiles \ journal.files : tree'[g] = sealed[g]
          BY <4>1, <4>3
        <4> QED
          BY <1>1, <4>1, <4>2, <4>3, <4>4, <4>5
      <3>4. CASE MergeCommits
        <4>1. pc' # "merged" /\ pc' # "merge" /\ todo' = {} /\ tree' = tree /\ runs' = runs
          BY <3>4 DEF MergeCommits
        <4>2. journal' = NoJournal /\ sealed' = tree
          BY <3>4 DEF MergeCommits
        <4> QED
          BY <1>1, <4>1, <4>2 DEF NoJournal
      <3>5. CASE MergeCompletes
        <4>1. pc' # "merged" /\ todo' = {} /\ runs' = runs /\ UNCHANGED <<tree, journal, sealed>>
          BY <3>5 DEF MergeCompletes, Goto
        <4> QED
          BY <1>1, <4>1
      <3> QED
        BY <2>4, <3>1, <3>2, <3>3, <3>4, <3>5 DEF Merge
    <2>5. CASE Finish \/ Cancel
      BY <1>1, <2>5 DEF Finish, Cancel, mergeVars
    <2> QED
      BY <1>3, <2>1, <2>2, <2>3, <2>4, <2>5 DEF Loop
  <1>4. CASE MergeFails
    <2>1. pc' = "off" /\ todo' = {} /\ sealed' = sealed /\ runs' = runs
      BY <1>4 DEF MergeFails, MergeStops, StopWith
    <2>2. journal # NoJournal
      BY <1>4 DEF MergeFails, NoJournal
    <2>3. PICK files \in SUBSET journal.files :
            /\ tree' = Restored(files)
            /\ journal' = IF files = journal.files THEN NoJournal ELSE journal
      BY <1>4 DEF MergeFails
    <2>4. tree' \in [BranchFiles -> Nat] /\ \A f \in BranchFiles \ journal.files : tree'[f] = sealed[f]
      BY <2>2, <2>3, RestoredPart
    <2>5. journal' = NoJournal => tree' = sealed
      BY <2>2, <2>3, RestoredWhole
    <2> QED
      BY <1>1, <2>1, <2>3, <2>4, <2>5
  <1>5. CASE Crash
    BY <1>1, <1>5 DEF Crash
  <1>6. CASE Recover
    <2>1. pc' = "off" /\ pc = "off" /\ todo' = {} /\ sealed' = sealed /\ runs' = runs
      BY <1>6 DEF Recover
    <2>2. PICK files \in SUBSET journal.files : tree' = Restored(files)
      BY <1>6 DEF Recover
    <2>3. (journal' = NoJournal /\ tree' = Restored(journal.files)) \/ journal' = journal
      BY <1>6 DEF Recover
    <2>4. CASE journal = NoJournal
      <3>1. tree' = tree /\ journal' = NoJournal
        BY <2>2, <2>3, <2>4, RestoredNothing
      <3> QED
        BY <1>1, <2>1, <2>4, <3>1
    <2>5. CASE journal # NoJournal
      <3>1. tree' \in [BranchFiles -> Nat] /\ \A f \in BranchFiles \ journal.files : tree'[f] = sealed[f]
        BY <2>2, <2>5, RestoredPart
      <3>2. journal' = NoJournal => tree' = sealed
        BY <2>3, <2>5, RestoredWhole
      <3> QED
        BY <1>1, <2>1, <2>3, <3>1, <3>2
    <2> QED
      BY <2>4, <2>5
  <1>7. CASE \E t \in Declared : Resume(t)
    BY <1>2, <1>7 DEF Resume, SeedFromResume
  <1>8. CASE UNCHANGED vars
    BY <1>1, <1>8 DEF vars, mergeVars
  <1> QED
    BY <1>3, <1>4, <1>5, <1>6, <1>7, <1>8 DEF Next

(* A merge is whole or absent, also when it fails between two files, the    *)
(* rollback fails, or the process dies and the run is recovered or resumed, *)
(* as long as a journal that could not be removed is noticed                *)
(* (transactional_merge_branch_worktrees, recover_run_in_place).            *)
THEOREM MergeAtomicHolds ==
  ASSUME JournalMayStay = FALSE
  PROVE  Spec => []MergeAtomic
  <1>1. JournalInv /\ [Next]_vars => JournalInv'
    BY JournalInvNext
  <1>2. JournalInv => MergeAtomic
    BY DEF JournalInv, MergeAtomic
  <1> QED
    BY <1>1, <1>2, JournalInvInit, PTL DEF Spec


-----------------------------------------------------------------------------
(* SEQUENCES.  Induction over the natural numbers, by a least               *)
(* counterexample; what Append, RemoveAt and Picked do.                     *)
LEMMA Least ==
  ASSUME NEW T \in SUBSET Nat, T # {}
  PROVE  \E least \in T : \A n \in T : least <= n
  <1> DEFINE R == OpToRel(<, Nat)
  <1>1. IsWellFoundedOn(R, Nat)
    BY NatLessThanWellFounded
  <1>2. \A a, b \in Nat : a < b => <<a, b>> \in R
    BY DEF OpToRel
  <1> HIDE DEF R
  <1>3. PICK least \in T : \A y \in T : ~(<<y, least>> \in R)
    BY <1>1, WFMin
  <1>4. ASSUME NEW n \in T PROVE least <= n
    <2>1. n \in Nat /\ least \in Nat
      OBVIOUS
    <2>2. ~(n < least)
      BY <1>2, <1>3, <2>1
    <2> QED
      BY <2>1, <2>2
  <1> QED
    BY <1>4

LEMMA Induction ==
  ASSUME NEW S, 0 \in S, \A n \in Nat : n \in S => n + 1 \in S
  PROVE  Nat \subseteq S
  <1> DEFINE T == Nat \ S
  <1> SUFFICES ASSUME T # {} PROVE FALSE
    OBVIOUS
  <1>1. PICK least \in T : \A n \in T : least <= n
    <2>1. T \in SUBSET Nat
      OBVIOUS
    <2> HIDE DEF T
    <2> QED
      BY <2>1, Least
  <1>2. least # 0 /\ least - 1 \in Nat /\ least - 1 < least /\ least = (least - 1) + 1
    OBVIOUS
  <1>3. least - 1 \in S
    BY <1>1, <1>2
  <1> QED
    BY <1>2, <1>3

LEMMA AppendPositions ==
  ASSUME NEW S, NEW s \in Seq(S), NEW e
  PROVE  /\ Append(s, e) \in Seq(S \cup {e})
         /\ DOMAIN Append(s, e) = DOMAIN s \cup {Len(s) + 1}
         /\ Append(s, e)[Len(s) + 1] = e
         /\ \A i \in DOMAIN s : Append(s, e)[i] = s[i]
  <1>1. s \in Seq(S \cup {e})
    OBVIOUS
  <1> QED
    BY <1>1

LEMMA AppendElements ==
  ASSUME NEW S, NEW s \in Seq(S), NEW e
  PROVE  Elements(Append(s, e)) = Elements(s) \cup {e}
  BY AppendPositions DEF Elements

LEMMA ConcatElements ==
  ASSUME NEW S, NEW s \in Seq(S), NEW t \in Seq(S)
  PROVE  /\ s \o t \in Seq(S) /\ Len(s \o t) = Len(s) + Len(t)
         /\ \A j \in 1..Len(s) : (s \o t)[j] = s[j]
         /\ \A j \in 1..Len(t) : (s \o t)[Len(s) + j] = t[j]
         /\ Elements(s \o t) = Elements(s) \cup Elements(t)
  <1> DEFINE u == s \o t
  <1>1. u \in Seq(S) /\ Len(u) = Len(s) + Len(t) /\ {Len(s), Len(t)} \subseteq Nat
    OBVIOUS
  <1>2. /\ \A j \in 1..Len(s) : u[j] = s[j]
        /\ \A j \in 1..Len(t) : u[Len(s) + j] = t[j]
    OBVIOUS
  <1> HIDE DEF u
  <1>3. DOMAIN u = 1..(Len(s) + Len(t)) /\ DOMAIN s = 1..Len(s) /\ DOMAIN t = 1..Len(t)
    BY <1>1
  <1>4. ASSUME NEW j \in DOMAIN u PROVE u[j] \in Elements(s) \cup Elements(t)
    <2>1. CASE j <= Len(s)
      BY <1>1, <1>2, <1>3, <2>1 DEF Elements
    <2>2. CASE j > Len(s)
      <3>1. j - Len(s) \in 1..Len(t) /\ Len(s) + (j - Len(s)) = j
        BY <1>1, <1>3, <2>2
      <3>2. u[j] = t[j - Len(s)]
        BY <1>2, <3>1
      <3> QED
        BY <1>3, <3>1, <3>2 DEF Elements
    <2> QED
      BY <1>1, <1>3, <2>1, <2>2
  <1>5. Elements(s) \subseteq Elements(u)
    BY <1>1, <1>2, <1>3 DEF Elements
  <1>6. ASSUME NEW j \in DOMAIN t PROVE t[j] \in Elements(u)
    <2>1. Len(s) + j \in DOMAIN u /\ u[Len(s) + j] = t[j]
      BY <1>1, <1>2, <1>3
    <2> QED
      BY <2>1 DEF Elements
  <1>7. Elements(u) = Elements(s) \cup Elements(t)
    BY <1>4, <1>5, <1>6 DEF Elements
  <1> QED
    BY <1>1, <1>2, <1>7 DEF u

LEMMA RemoveElements ==
  ASSUME NEW S, NEW s \in Seq(S), NEW i \in DOMAIN s
  PROVE  /\ RemoveAt(s, i) \in Seq(S)
         /\ Elements(s) \ {s[i]} \subseteq Elements(RemoveAt(s, i))
         /\ Elements(RemoveAt(s, i)) \subseteq Elements(s)
  <1> DEFINE before == SubSeq(s, 1, i - 1)
             after  == SubSeq(s, i + 1, Len(s))
             t == before \o after
  <1>1. /\ before \in Seq(S) /\ Len(before) = i - 1 /\ \A j \in 1..(i - 1) : before[j] = s[j]
        /\ after \in Seq(S) /\ Len(after) = Len(s) - i
        /\ \A j \in 1..(Len(s) - i) : after[j] = s[i + j]
    OBVIOUS
  <1> HIDE DEF before, after
  <1>2. /\ t \in Seq(S) /\ Len(t) = Len(s) - 1
        /\ \A j \in 1..(i - 1) : t[j] = s[j]
        /\ \A j \in i..(Len(s) - 1) : t[j] = s[j + 1]
    <2>1. /\ t \in Seq(S) /\ Len(t) = Len(before) + Len(after)
          /\ \A j \in 1..Len(before) : t[j] = before[j]
          /\ \A j \in 1..Len(after) : t[Len(before) + j] = after[j]
      <3>1. before \in Seq(S) /\ after \in Seq(S)
        BY <1>1
      <3>2. \A a, b \in Seq(S) :
              /\ a \o b \in Seq(S) /\ Len(a \o b) = Len(a) + Len(b)
              /\ \A j \in 1..Len(a) : (a \o b)[j] = a[j]
              /\ \A j \in 1..Len(b) : (a \o b)[Len(a) + j] = b[j]
        BY ConcatElements
      <3> QED
        BY <3>1, <3>2, Zenon
    <2>2. ASSUME NEW j \in 1..(i - 1) PROVE t[j] = s[j]
      <3>1. j \in 1..Len(before) /\ before[j] = s[j]
        BY <1>1
      <3>2. t[j] = before[j]
        BY <2>1, <3>1
      <3> QED
        BY <3>1, <3>2
    <2>3. ASSUME NEW j \in i..(Len(s) - 1) PROVE t[j] = s[j + 1]
      <3>1. /\ j - (i - 1) \in 1..(Len(s) - i) /\ i + (j - (i - 1)) = j + 1
            /\ (i - 1) + (j - (i - 1)) = j
        OBVIOUS
      <3>2. \A k \in 1..(Len(s) - i) : t[(i - 1) + k] = s[i + k]
        BY <1>1, <2>1
      <3>3. PICK k \in 1..(Len(s) - i) : k = j - (i - 1)
        BY <3>1
      <3>4. t[(i - 1) + k] = s[i + k]
        BY <3>2
      <3>5. (i - 1) + k = j /\ i + k = j + 1
        BY <3>1, <3>3
      <3> QED
        BY <3>4, <3>5
    <2> QED
      BY <1>1, <2>1, <2>2, <2>3
  <1> HIDE DEF t
  <1>3. Elements(t) \subseteq Elements(s)
    BY <1>2 DEF Elements
  <1>4. ASSUME NEW j \in DOMAIN s, j # i PROVE s[j] \in Elements(t)
    <2>1. j < i => j \in DOMAIN t /\ t[j] = s[j]
      BY <1>2
    <2>2. j > i => j - 1 \in DOMAIN t /\ t[j - 1] = s[j]
      BY <1>2
    <2> QED
      BY <1>4, <2>1, <2>2 DEF Elements
  <1>5. RemoveAt(s, i) = t
    BY DEF RemoveAt, t, before, after
  <1>6. Elements(s) \ {s[i]} \subseteq Elements(t)
    BY <1>4 DEF Elements
  <1> QED
    BY <1>2, <1>3, <1>5, <1>6


PickStep(u, s, keep, k) ==
  IF k = 0 THEN <<>>
  ELSE IF k \in keep THEN Append(u[k - 1], s[k]) ELSE u[k - 1]
Picks(u, s, keep, n) == u = [k \in 0..n |-> PickStep(u, s, keep, k)]

LEMMA PicksExist ==
  ASSUME NEW s, NEW keep, NEW m \in Nat
  PROVE  \E u : Picks(u, s, keep, m)
  <1> DEFINE S == {n \in Nat : \E u : Picks(u, s, keep, n)}
  <1>1. 0 \in S
    <2>1. Picks([k \in 0..0 |-> <<>>], s, keep, 0)
      BY DEF Picks, PickStep
    <2> QED
      BY <2>1
  <1>2. ASSUME NEW n \in S PROVE n + 1 \in S
    <2>1. PICK u : Picks(u, s, keep, n)
      OBVIOUS
    <2>2. n \in Nat
      OBVIOUS
    <2> DEFINE v == [k \in 0..n + 1 |-> IF k <= n THEN u[k] ELSE PickStep(u, s, keep, k)]
    <2>3. ASSUME NEW k \in 0..n + 1 PROVE v[k] = PickStep(v, s, keep, k)
      <3>1. CASE k <= n
        <4>1. v[k] = u[k] /\ (k # 0 => v[k - 1] = u[k - 1])
          BY <2>2, <3>1
        <4>2. u[k] = PickStep(u, s, keep, k)
          BY <2>1, <2>2, <3>1 DEF Picks
        <4> QED
          BY <4>1, <4>2 DEF PickStep
      <3>2. CASE k = n + 1
        BY <2>2, <3>2 DEF PickStep
      <3> QED
        BY <2>2, <3>1, <3>2
    <2>4. Picks(v, s, keep, n + 1)
      BY <2>3 DEF Picks
    <2> HIDE DEF v
    <2> QED
      BY <2>2, <2>4
  <1>3. Nat \subseteq S
    <2> HIDE DEF S
    <2> QED
      BY <1>1, <1>2, Induction
  <1> QED
    BY <1>3

\* What a selection of the first n elements is.
PickedFrom(t, s, keep, n) ==
  /\ t \in Seq(Elements(s)) /\ Elements(t) = {s[i] : i \in keep \cap (1..n)}
  /\ \A i, j \in DOMAIN t : i # j =>
       \E a, b \in keep \cap (1..n) : a # b /\ t[i] = s[a] /\ t[j] = s[b]

LEMMA PickedGrows ==
  ASSUME NEW S, NEW s \in Seq(S), NEW keep, NEW t, NEW n \in Nat, n + 1 \in DOMAIN s,
         PickedFrom(t, s, keep, n)
  PROVE  PickedFrom(IF n + 1 \in keep THEN Append(t, s[n + 1]) ELSE t, s, keep, n + 1)
  <1>1. CASE n + 1 \notin keep
    <2>1. keep \cap (1..n + 1) = keep \cap (1..n)
      BY <1>1
    <2> QED
      BY <1>1, <2>1 DEF PickedFrom
  <1>2. CASE n + 1 \in keep
    <2> DEFINE u == Append(t, s[n + 1])
    <2>1. s[n + 1] \in Elements(s) /\ t \in Seq(Elements(s)) /\ Len(t) \in Nat
      BY DEF Elements, PickedFrom
    <2>2. /\ u \in Seq(Elements(s)) /\ Elements(u) = Elements(t) \cup {s[n + 1]}
          /\ DOMAIN u = DOMAIN t \cup {Len(t) + 1} /\ u[Len(t) + 1] = s[n + 1]
          /\ \A i \in DOMAIN t : u[i] = t[i]
      <3>1. Elements(s) \cup {s[n + 1]} = Elements(s)
        BY <2>1
      <3> QED
        BY <2>1, <3>1, AppendPositions, AppendElements
    <2> HIDE DEF u
    <2>3. keep \cap (1..n + 1) = (keep \cap (1..n)) \cup {n + 1}
      BY <1>2
    <2>4. Elements(u) = {s[i] : i \in keep \cap (1..n + 1)}
      BY <2>2, <2>3 DEF PickedFrom
    <2>5. \A i \in DOMAIN t : \E a \in keep \cap (1..n) : t[i] = s[a]
      BY DEF PickedFrom, Elements
    <2>6. ASSUME NEW i \in DOMAIN u, NEW j \in DOMAIN u, i # j
          PROVE  \E a, b \in keep \cap (1..n + 1) : a # b /\ u[i] = s[a] /\ u[j] = s[b]
      <3>1. CASE i \in DOMAIN t /\ j \in DOMAIN t
        <4>1. PICK a, b \in keep \cap (1..n) : a # b /\ t[i] = s[a] /\ t[j] = s[b]
          BY <2>6, <3>1 DEF PickedFrom
        <4> QED
          BY <2>2, <2>3, <3>1, <4>1
      <3>2. CASE i = Len(t) + 1 /\ j \in DOMAIN t
        <4>1. PICK b \in keep \cap (1..n) : t[j] = s[b]
          BY <2>5, <3>2
        <4> QED
          BY <2>2, <2>3, <3>2, <4>1
      <3>3. CASE j = Len(t) + 1 /\ i \in DOMAIN t
        <4>1. PICK a \in keep \cap (1..n) : t[i] = s[a]
          BY <2>5, <3>3
        <4> QED
          BY <2>2, <2>3, <3>3, <4>1
      <3> QED
        BY <2>2, <2>6, <3>1, <3>2, <3>3
    <2>7. PickedFrom(u, s, keep, n + 1)
      BY <2>2, <2>4, <2>6 DEF PickedFrom
    <2> QED
      BY <1>2, <2>7 DEF u
  <1> QED
    BY <1>1, <1>2

(* What the helper RoutingContract!Picked returns: the elements at the      *)
(* positions to keep, and two entries of it stand at two positions.         *)
LEMMA PickedIs ==
  ASSUME NEW S, NEW s \in Seq(S), NEW keep
  PROVE  PickedFrom(Picked(s, keep), s, keep, Len(s))
  <1>1. Len(s) \in Nat /\ DOMAIN s = 1..Len(s)
    OBVIOUS
  <1>2. PICK u : Picks(u, s, keep, Len(s)) /\ Picked(s, keep) = u[Len(s)]
    <2> DEFINE u == CHOOSE u : Picks(u, s, keep, Len(s))
    <2>1. Picks(u, s, keep, Len(s))
      BY <1>1, PicksExist
    <2>2. Picked(s, keep) = u[Len(s)]
      BY DEF Picked, Picks, PickStep
    <2> QED
      BY <2>1, <2>2
  <1> DEFINE T == {n \in Nat : n <= Len(s) => PickedFrom(u[n], s, keep, n)}
  <1>3. 0 \in T
    <2>1. u[0] = <<>>
      BY <1>1, <1>2 DEF Picks, PickStep
    <2>2. <<>> \in Seq(Elements(s)) /\ Elements(<<>>) = {} /\ DOMAIN <<>> = {}
      BY DEF Elements
    <2> QED
      <3>1. {s[i] : i \in keep \cap (1..0)} = {}
        OBVIOUS
      <3>2. PickedFrom(<<>>, s, keep, 0)
        BY <2>2, <3>1 DEF PickedFrom
      <3> QED
        BY <2>1, <3>2
  <1>4. ASSUME NEW n \in Nat, n \in T PROVE n + 1 \in T
    <2> SUFFICES ASSUME n + 1 <= Len(s) PROVE PickedFrom(u[n + 1], s, keep, n + 1)
      OBVIOUS
    <2>1. u[n + 1] = IF n + 1 \in keep THEN Append(u[n], s[n + 1]) ELSE u[n]
      <3>1. n + 1 \in 0..Len(s) /\ n + 1 # 0 /\ (n + 1) - 1 = n
        BY <1>1
      <3>2. u[n + 1] = PickStep(u, s, keep, n + 1)
        BY <1>2, <3>1 DEF Picks
      <3> QED
        BY <3>1, <3>2 DEF PickStep
    <2>2. PickedFrom(u[n], s, keep, n) /\ n + 1 \in DOMAIN s
      BY <1>1, <1>4
    <2> QED
      BY <2>1, <2>2, PickedGrows
  <1>5. Nat \subseteq T
    <2> HIDE DEF T
    <2> QED
      BY <1>3, <1>4, Induction
  <1> QED
    BY <1>1, <1>2, <1>5


-----------------------------------------------------------------------------
(* ROUTING.  The edges of a valid node, and the ids of minted branches.     *)
ValidEdge(e, nodes) ==
  /\ e.to \in Targets(nodes)
  /\ e.kind = "REPAIR" => e.to \in DOMAIN nodes /\ nodes[e.to].type = "REPAIR"

LEMMA CompiledEdges ==
  ASSUME NEW nodes, NEW node, ValidNode(node, nodes)
  PROVE  /\ CompileEdges(node) \in Seq(Elements(CompileEdges(node)))
         /\ \A e \in Elements(CompileEdges(node)) : ValidEdge(e, nodes)
  <1>1. CASE DeclaresEdges(node)
    BY <1>1 DEF CompileEdges, ValidNode, ValidEdge
  <1>2. CASE ~DeclaresEdges(node)
    <2> DEFINE Pass == Legacy(node, node.on_pass, "PASS")
               Fail == Legacy(node, node.on_fail, "FAIL")
               V == {e \in Elements(Pass) \cup Elements(Fail) : ValidEdge(e, nodes)}
    <2>1. ASSUME NEW to \in Targets(nodes) \cup {NoNode}, NEW outcome
          PROVE  LET s == Legacy(node, to, outcome)
                 IN s \in Seq(Elements(s)) /\ \A e \in Elements(s) : ValidEdge(e, nodes)
      BY DEF Legacy, ValidEdge, Elements
    <2>2. /\ Pass \in Seq(Elements(Pass)) /\ \A e \in Elements(Pass) : ValidEdge(e, nodes)
          /\ Fail \in Seq(Elements(Fail)) /\ \A e \in Elements(Fail) : ValidEdge(e, nodes)
      BY <2>1 DEF ValidNode
    <2> HIDE DEF Pass, Fail
    <2>3. Pass \in Seq(V) /\ Fail \in Seq(V)
      BY <2>2 DEF Elements
    <2>4. CompileEdges(node) = Pass \o Fail
      BY <1>2 DEF CompileEdges, Pass, Fail
    <2>5. \A a, b \in Seq(V) : a \o b \in Seq(V)
      BY ConcatElements
    <2>6. CompileEdges(node) \in Seq(V)
      BY <2>3, <2>4, <2>5
    <2> QED
      BY <2>6 DEF Elements
  <1> QED
    BY <1>1, <1>2

LEMMA SelectedEdges ==
  ASSUME NEW nodes, NEW node, NEW r, ValidNode(node, nodes)
  PROVE  /\ Selected(node, r) \in Seq(Elements(Selected(node, r)))
         /\ Elements(Selected(node, r)) \subseteq Elements(CompileEdges(node))
         /\ \A e \in Elements(Selected(node, r)) : ValidEdge(e, nodes)
  <1> DEFINE edges == CompileEdges(node)
             keep == {i \in DOMAIN edges :
                        MatchCondition(edges[i].when, r) /\ Eligible(edges[i], r)}
             viable == Picked(edges, keep)
  <1>1. edges \in Seq(Elements(edges)) /\ \A e \in Elements(edges) : ValidEdge(e, nodes)
    BY CompiledEdges
  <1>2. PickedFrom(viable, edges, keep, Len(edges))
    <2> HIDE DEF edges, keep
    <2> QED
      BY <1>1, PickedIs
  <1>3. Selected(node, r) \in {viable, <<Head(viable)>>} /\ (viable = <<>> => Selected(node, r) = viable)
    BY DEF Selected
  <1> HIDE DEF edges, keep, viable
  <1>4. viable \in Seq(Elements(edges)) /\ Elements(viable) \subseteq Elements(edges)
    BY <1>1, <1>2 DEF PickedFrom, Elements
  <1>5. viable # <<>> => Head(viable) \in Elements(edges)
    BY <1>4
  <1>6. Selected(node, r) \in Seq(Elements(edges))
    <2>1. \A x \in Elements(edges) : <<x>> \in Seq(Elements(edges))
      OBVIOUS
    <2>2. CASE viable = <<>>
      BY <1>3, <1>4, <2>2
    <2>3. CASE viable # <<>>
      <3>1. <<Head(viable)>> \in Seq(Elements(edges))
        BY <1>5, <2>1, <2>3
      <3> QED
        BY <1>3, <1>4, <3>1
    <2> QED
      BY <2>2, <2>3
  <1> QED
    BY <1>1, <1>6 DEF Elements, edges

(* Where a node leads to depends on its edges and transitions only, so a    *)
(* branch leads where its template does.                                    *)
Ways(node) == {e.to : e \in Elements(CompileEdges(node))}

LEMMA LegacyWays ==
  ASSUME NEW node, ~DeclaresEdges(node)
  PROVE  Ways(node) = {node.on_pass, node.on_fail} \ {NoNode}
  <1>1. PICK pass, fail : pass = Legacy(node, node.on_pass, "PASS")
                          /\ fail = Legacy(node, node.on_fail, "FAIL")
    OBVIOUS
  <1>2. ASSUME NEW to, NEW outcome, NEW u, u = Legacy(node, to, outcome)
        PROVE  u \in Seq(Elements(u)) /\ {e.to : e \in Elements(u)} = {to} \ {NoNode}
    BY <1>2 DEF Legacy, Elements
  <1>3. /\ pass \in Seq(Elements(pass)) /\ {e.to : e \in Elements(pass)} = {node.on_pass} \ {NoNode}
        /\ fail \in Seq(Elements(fail)) /\ {e.to : e \in Elements(fail)} = {node.on_fail} \ {NoNode}
    BY <1>1, <1>2
  <1>4. PICK both : both = Elements(pass) \cup Elements(fail)
    OBVIOUS
  <1>5. pass \in Seq(both) /\ fail \in Seq(both)
    BY <1>3, <1>4 DEF Elements
  <1>6. Elements(CompileEdges(node)) = both
    BY <1>1, <1>4, <1>5, ConcatElements DEF CompileEdges
  <1>7. Ways(node) = {e.to : e \in Elements(pass)} \cup {e.to : e \in Elements(fail)}
    BY <1>4, <1>6 DEF Ways
  <1> QED
    BY <1>3, <1>7

LEMMA SameWays ==
  ASSUME NEW a, NEW b, a.edges = b.edges, a.on_pass = b.on_pass, a.on_fail = b.on_fail
  PROVE  Ways(a) = Ways(b)
  <1>1. DeclaresEdges(a) <=> DeclaresEdges(b)
    BY DEF DeclaresEdges
  <1>2. CASE DeclaresEdges(a)
    BY <1>1, <1>2 DEF Ways, CompileEdges
  <1>3. CASE ~DeclaresEdges(a)
    BY <1>1, <1>3, LegacyWays
  <1> QED
    BY <1>2, <1>3

LEMMA NextBranchFresh ==
  ASSUME NEW known, IsFiniteSet(known), NEW origin \in Ids
  PROVE  NextBranch(origin, known) \in Ids \ known
  <1> DEFINE c == Cardinality(known)
             free == {k \in 1..(c + 1) : Append(origin, k) \notin known}
  <1>1. c \in Nat /\ IsFiniteSet(1..(c + 1)) /\ Cardinality(1..(c + 1)) = c + 1
    <2>1. c \in Nat
      BY FS_CardinalityType
    <2> HIDE DEF c
    <2>2. 1 \in Int /\ c + 1 \in Int /\ ~(1 > c + 1) /\ (c + 1) - 1 + 1 = c + 1
      BY <2>1
    <2> QED
      BY <2>1, <2>2, FS_Interval
  <1>2. \A k \in Nat : /\ Append(origin, k) \in Ids
                       /\ Append(origin, k)[Len(origin) + 1] = k
    <2>1. origin \in Seq(STRING \cup Nat)
      BY DEF Ids
    <2>2. ASSUME NEW k \in Nat PROVE /\ Append(origin, k) \in Seq(STRING \cup Nat)
                                     /\ Len(Append(origin, k)) = Len(origin) + 1
                                     /\ Append(origin, k)[Len(origin) + 1] = k
      BY <2>1
    <2>3. Len(origin) \in Nat /\ Len(NoNode) = 0
      BY <2>1 DEF NoNode
    <2> QED
      BY <2>2, <2>3 DEF Ids
  <1>3. free # {}
    <2> SUFFICES ASSUME \A k \in 1..(c + 1) : Append(origin, k) \in known PROVE FALSE
      OBVIOUS
    <2> DEFINE f == [k \in 1..(c + 1) |-> Append(origin, k)]
    <2>1. f \in [1..(c + 1) -> known] /\ c < c + 1
      BY <1>1
    <2>2. PICK x, y \in 1..(c + 1) : x # y /\ f[x] = f[y]
      <3> HIDE DEF f, c
      <3> QED
        BY <1>1, <2>1, FS_PigeonHole DEF c
    <2> QED
      BY <1>1, <1>2, <2>2
  <1>4. PICK least \in free : \A k \in free : least <= k
    <2>1. free \in SUBSET Nat
      OBVIOUS
    <2> HIDE DEF free
    <2> QED
      BY <1>3, <2>1, Least
  <1>5. \A j \in 1..(least - 1) : Append(origin, j) \in known
    BY <1>1, <1>4
  <1>6. \E k \in 1..(c + 1) : /\ Append(origin, k) \notin known
                              /\ \A j \in 1..(k - 1) : Append(origin, j) \in known
    BY <1>4, <1>5
  <1> HIDE DEF c, free
  <1>7. PICK k \in 1..(c + 1) : /\ Append(origin, k) \notin known
                                /\ NextBranch(origin, known) = Append(origin, k)
    BY <1>6 DEF NextBranch, c
  <1> QED
    BY <1>1, <1>2, <1>7


LEMMA FlowValid ==
  ASSUME flow \in DOMAIN Workflows
  PROVE  /\ ValidWorkflow(Flow) /\ IsFiniteSet(Declared) /\ Declared \subseteq Ids
         /\ \A n \in Declared : Flow.nodes[n].id = n /\ ValidNode(Flow.nodes[n], Flow.nodes)
  <1>1. ValidWorkflow(Flow)
    BY WorkflowAssumption DEF Flow, Loaded
  <1>2. Seq(STRING) \subseteq Seq(STRING \cup Nat)
    OBVIOUS
  <1> QED
    BY <1>1, <1>2 DEF ValidWorkflow, Declared, Ids

\* A state of the routing, between the edges of a decision.
KnownIn(s) == Declared \cup DOMAIN s.minted
MintedIn(s) ==
  /\ IsFiniteSet(DOMAIN s.minted) /\ DOMAIN s.minted \subseteq Ids \ Declared
  /\ \A b \in DOMAIN s.minted : /\ s.minted[b].id = b /\ s.minted[b].type = "REPAIR"
                                /\ ValidNode(s.minted[b], Flow.nodes)
IsRoute(s) == DOMAIN s = {"frontier", "arrivals", "merges", "minted", "status"}
RouteOK(s) ==
  /\ IsRoute(s) /\ MintedIn(s) /\ s.status \in Statuses /\ RowsOK(s.arrivals)
  /\ s.frontier \in Seq(KnownIn(s)) /\ DOMAIN s.arrivals \subseteq KnownIn(s)
  /\ s.merges \in [Merges -> {"WAITING", "READY", "MERGED", "BLOCKED"}]

\* Routing only adds, and never goes on from a run that has stopped.
Extended(s, t) ==
  /\ DOMAIN s.minted \subseteq DOMAIN t.minted
  /\ \A b \in DOMAIN s.minted : t.minted[b] = s.minted[b]
  /\ Elements(s.frontier) \subseteq Elements(t.frontier)
  /\ \A m \in Merges : t.merges[m] = "MERGED" => s.merges[m] = "MERGED"
  /\ t.status = s.status \/ t.status \notin {"RUNNING", "COMPLETED"}

\* What edges of node n add at the merges: only rows of their own, and no
\* merge is queued before its policy is satisfied.
FedIn(s, m) == MergeReady(Flow.nodes[m], Rows(s.arrivals, m))
NotedBy(s, t, n, ids) ==
  \A m \in Merges :
    /\ Elements(Rows(s.arrivals, m)) \subseteq Elements(Rows(t.arrivals, m))
    /\ \A a \in Elements(Rows(t.arrivals, m)) \ Elements(Rows(s.arrivals, m)) :
         a.from = n /\ a.edge \in ids
    /\ m \in Elements(t.frontier) \ Elements(s.frontier) => FedIn(t, m)
Noted(s, t, n, e) == NotedBy(s, t, n, {e.id})

\* What node n adds, leading to the nodes in ways: branches of its own of a
\* template among them, and arrivals from it at such a branch or node.
TracedBy(s, t, n, ways) ==
  /\ \A b \in DOMAIN t.minted \ DOMAIN s.minted :
       /\ t.minted[b].origin = n
       /\ \E template \in Declared \cap ways : Ways(t.minted[b]) = Ways(Flow.nodes[template])
  /\ \A m : \A a \in Elements(Rows(t.arrivals, m)) \ Elements(Rows(s.arrivals, m)) :
       /\ a.from = n
       /\ \/ m \in Declared \cap ways
          \/ m \in DOMAIN t.minted /\ t.minted[m].origin = n

\* Where an edge of node n has led to.
Led(t, n, e, done) ==
  \/ e.to = Stop
  \/ IF e.kind = "REPAIR"
     THEN \E b \in DOMAIN t.minted : t.minted[b].origin = n /\ b \in Elements(t.frontier)
     ELSE e.to \in Merges \cup done \cup Elements(t.frontier)

LEMMA ExtendedTransitive ==
  ASSUME NEW s, NEW t, NEW u, Extended(s, t), Extended(t, u)
  PROVE  Extended(s, u)
  BY DEF Extended

LEMMA LedStays ==
  ASSUME NEW t, NEW u, Extended(t, u), NEW n, NEW e, NEW done, Led(t, n, e, done)
  PROVE  Led(u, n, e, done)
  <1>1. CASE e.kind = "REPAIR" /\ e.to # Stop
    <2>1. PICK b \in DOMAIN t.minted : t.minted[b].origin = n /\ b \in Elements(t.frontier)
      BY <1>1 DEF Led
    <2>2. b \in DOMAIN u.minted /\ u.minted[b].origin = n /\ b \in Elements(u.frontier)
      BY <2>1 DEF Extended
    <2> QED
      BY <1>1, <2>2 DEF Led
  <1>2. CASE e.kind # "REPAIR" \/ e.to = Stop
    BY <1>2 DEF Led, Extended
  <1> QED
    BY <1>1, <1>2

LEMMA WithArrivalIs ==
  ASSUME NEW s, IsRoute(s), RowsOK(s.arrivals), NEW n, NEW row,
         NEW t, t = WithArrival(s, n, row)
  PROVE  /\ IsRoute(t) /\ t.frontier = s.frontier /\ t.merges = s.merges
         /\ t.minted = s.minted /\ t.status = s.status
         /\ DOMAIN t.arrivals = DOMAIN s.arrivals \cup {n} /\ RowsOK(t.arrivals)
         /\ \A m : m # n => Rows(t.arrivals, m) = Rows(s.arrivals, m)
         /\ Elements(Rows(t.arrivals, n)) = Elements(Rows(s.arrivals, n)) \cup {row}
  <1>0. PICK rows : rows = Rows(s.arrivals, n)
    OBVIOUS
  <1>1. /\ IsRoute(t) /\ t.frontier = s.frontier /\ t.merges = s.merges
        /\ t.minted = s.minted /\ t.status = s.status
        /\ DOMAIN t.arrivals = DOMAIN s.arrivals \cup {n}
        /\ \A m \in DOMAIN s.arrivals \ {n} : t.arrivals[m] = s.arrivals[m]
        /\ t.arrivals[n] = Append(rows, row)
    BY <1>0 DEF WithArrival, IsRoute
  <1>2. rows \in Seq(Elements(rows))
    BY <1>0 DEF Rows, RowsOK, Elements
  <1>3. /\ Append(rows, row) \in Seq(Elements(rows) \cup {row})
        /\ Elements(Append(rows, row)) = Elements(rows) \cup {row}
    BY <1>2, AppendPositions, AppendElements
  <1>4. RowsOK(t.arrivals)
    BY <1>1, <1>3 DEF RowsOK
  <1>5. \A m : m # n => Rows(t.arrivals, m) = Rows(s.arrivals, m)
    BY <1>1 DEF Rows
  <1>6. Rows(t.arrivals, n) = Append(rows, row)
    BY <1>1 DEF Rows
  <1> QED
    BY <1>0, <1>1, <1>3, <1>4, <1>5, <1>6

LEMMA EnterStep ==
  ASSUME flow \in DOMAIN Workflows, NEW s, RouteOK(s), NEW node, NEW done,
         NEW e, e.to \in Declared \ Merges, e.kind # "REPAIR",
         NEW t, t = Enter(s, node, e, done)
  PROVE  /\ RouteOK(t) /\ Extended(s, t)
         /\ Led(t, node.id, e, done) /\ Noted(s, t, node.id, e)
         /\ TracedBy(s, t, node.id, {e.to})
  <1>1. PICK row : row = [edge |-> e.id, from |-> node.id,
                          status |-> ClassifyOrdinary(Rows(s.arrivals, e.to))]
    OBVIOUS
  <1>2. PICK w : w = WithArrival(s, e.to, row)
    OBVIOUS
  <1>3. /\ IsRoute(w) /\ w.frontier = s.frontier /\ w.merges = s.merges
        /\ w.minted = s.minted /\ w.status = s.status
        /\ DOMAIN w.arrivals = DOMAIN s.arrivals \cup {e.to} /\ RowsOK(w.arrivals)
        /\ \A m : m # e.to => Rows(w.arrivals, m) = Rows(s.arrivals, m)
        /\ Elements(Rows(w.arrivals, e.to)) = Elements(Rows(s.arrivals, e.to)) \cup {row}
    <2>1. IsRoute(s) /\ RowsOK(s.arrivals)
      BY DEF RouteOK
    <2> QED
      BY <1>2, <2>1, WithArrivalIs
  <1>4. t = IF e.to \in done \cup Elements(s.frontier) THEN w
            ELSE [w EXCEPT !.frontier = Append(s.frontier, e.to)]
    BY <1>1, <1>2 DEF Enter
  <1>5. /\ IsRoute(t) /\ t.arrivals = w.arrivals /\ t.merges = s.merges
        /\ t.minted = s.minted /\ t.status = s.status
        /\ t.frontier = IF e.to \in done \cup Elements(s.frontier) THEN s.frontier
                        ELSE Append(s.frontier, e.to)
    BY <1>3, <1>4 DEF IsRoute
  <1>6. /\ Append(s.frontier, e.to) \in Seq(KnownIn(s))
        /\ Elements(Append(s.frontier, e.to)) = Elements(s.frontier) \cup {e.to}
    <2>1. s.frontier \in Seq(KnownIn(s)) /\ KnownIn(s) \cup {e.to} = KnownIn(s)
      BY DEF RouteOK, KnownIn
    <2> QED
      BY <2>1, AppendPositions, AppendElements
  <1>7. KnownIn(t) = KnownIn(s) /\ DOMAIN w.arrivals \subseteq KnownIn(s)
    BY <1>3, <1>5 DEF KnownIn, RouteOK
  <1>8. RouteOK(t)
    BY <1>3, <1>5, <1>6, <1>7 DEF RouteOK, MintedIn
  <1>9. /\ Elements(s.frontier) \subseteq Elements(t.frontier)
        /\ Elements(t.frontier) \subseteq Elements(s.frontier) \cup {e.to}
        /\ e.to \in done \cup Elements(t.frontier)
    BY <1>5, <1>6
  <1>10. Extended(s, t)
    BY <1>5, <1>9 DEF Extended
  <1>11. Led(t, node.id, e, done)
    BY <1>9 DEF Led
  <1>12. \A m \in Merges : /\ Rows(t.arrivals, m) = Rows(s.arrivals, m)
                           /\ m \notin Elements(t.frontier) \ Elements(s.frontier)
    BY <1>3, <1>5, <1>9
  <1>13. Noted(s, t, node.id, e)
    BY <1>12 DEF Noted, NotedBy
  <1>14. \A m : \A a \in Elements(Rows(t.arrivals, m)) \ Elements(Rows(s.arrivals, m)) :
           m = e.to /\ a.from = node.id
    BY <1>1, <1>3, <1>5
  <1>15. TracedBy(s, t, node.id, {e.to})
    BY <1>5, <1>14 DEF TracedBy
  <1> QED
    BY <1>8, <1>10, <1>11, <1>13, <1>15

LEMMA FollowMergeStep ==
  ASSUME flow \in DOMAIN Workflows, NEW s, RouteOK(s), NEW node, NEW done,
         NEW e, e.to \in Merges, e.kind # "REPAIR",
         NEW t, t = FollowMerge(s, node, e)
  PROVE  /\ RouteOK(t) /\ Extended(s, t)
         /\ Led(t, node.id, e, done) /\ Noted(s, t, node.id, e)
         /\ TracedBy(s, t, node.id, {e.to})
  <1>1. PICK row : /\ row.edge = e.id /\ row.from = node.id
                   /\ LET w == WithArrival(s, e.to, row) IN
                      t = IF /\ s.merges[e.to] \notin {"READY", "MERGED"}
                             /\ MergeReady(Flow.nodes[e.to], w.arrivals[e.to])
                             /\ s.merges[e.to] = "WAITING"
                          THEN [w EXCEPT !.merges[e.to] = "READY",
                                         !.frontier = Append(s.frontier, e.to)]
                          ELSE w
    <2> DEFINE late == s.merges[e.to] \in {"READY", "MERGED"}
               slot == ClassifySlot(Rows(s.arrivals, e.to), e.id, node.id)
               row == [edge |-> e.id, from |-> node.id,
                       status |-> IF late /\ slot = "ACCEPTED" THEN "LATE" ELSE slot]
    <2>1. row.edge = e.id /\ row.from = node.id
      OBVIOUS
    <2>2. t = IF ~late /\ MergeReady(Flow.nodes[e.to], WithArrival(s, e.to, row).arrivals[e.to])
                 /\ s.merges[e.to] = "WAITING"
              THEN [WithArrival(s, e.to, row) EXCEPT !.merges[e.to] = "READY",
                                         !.frontier = Append(s.frontier, e.to)]
              ELSE WithArrival(s, e.to, row)
      BY DEF FollowMerge
    <2>3. late <=> ~(s.merges[e.to] \notin {"READY", "MERGED"})
      OBVIOUS
    <2> HIDE DEF late, slot, row
    <2> QED
      BY <2>1, <2>2, <2>3
  <1>2. PICK w : w = WithArrival(s, e.to, row)
    OBVIOUS
  <1>3. /\ IsRoute(w) /\ w.frontier = s.frontier /\ w.merges = s.merges
        /\ w.minted = s.minted /\ w.status = s.status
        /\ DOMAIN w.arrivals = DOMAIN s.arrivals \cup {e.to} /\ RowsOK(w.arrivals)
        /\ \A m : m # e.to => Rows(w.arrivals, m) = Rows(s.arrivals, m)
        /\ Elements(Rows(w.arrivals, e.to)) = Elements(Rows(s.arrivals, e.to)) \cup {row}
    <2>1. IsRoute(s) /\ RowsOK(s.arrivals)
      BY DEF RouteOK
    <2> QED
      BY <1>2, <2>1, WithArrivalIs
  <1>4. e.to \in KnownIn(s) /\ e.to \in Declared
    BY DEF KnownIn, Merges
  <1>5. KnownIn(w) = KnownIn(s) /\ DOMAIN w.arrivals \subseteq KnownIn(s)
    BY <1>3, <1>4 DEF KnownIn, RouteOK
  <1>6. RouteOK(w)
    BY <1>3, <1>5 DEF RouteOK, MintedIn
  <1>7. \A m \in Merges :
          /\ Elements(Rows(s.arrivals, m)) \subseteq Elements(Rows(w.arrivals, m))
          /\ \A a \in Elements(Rows(w.arrivals, m)) \ Elements(Rows(s.arrivals, m)) :
               a.from = node.id /\ a.edge = e.id
    BY <1>1, <1>3
  <1>8. Led(t, node.id, e, done)
    BY DEF Led
  <1>11. TracedBy(s, t, node.id, {e.to})
    <2>1. IsRoute(w) /\ t.arrivals = w.arrivals /\ t.minted = w.minted
      BY <1>1, <1>2, <1>3 DEF IsRoute
    <2>2. \A m : \A a \in Elements(Rows(t.arrivals, m)) \ Elements(Rows(s.arrivals, m)) :
            m = e.to /\ a.from = node.id
      BY <1>1, <1>3, <2>1
    <2> QED
      BY <1>3, <1>4, <2>1, <2>2 DEF TracedBy
  <1>9. CASE t = w
    <2>1. Extended(s, t)
      BY <1>3, <1>9 DEF Extended
    <2>2. Noted(s, t, node.id, e)
      BY <1>3, <1>7, <1>9 DEF Noted, NotedBy
    <2> QED
      BY <1>6, <1>8, <1>9, <1>11, <2>1, <2>2
  <1>10. CASE t # w
    <2>1. /\ t = [w EXCEPT !.merges[e.to] = "READY", !.frontier = Append(s.frontier, e.to)]
          /\ MergeReady(Flow.nodes[e.to], w.arrivals[e.to])
      BY <1>1, <1>2, <1>10
    <2>2. /\ IsRoute(t) /\ t.arrivals = w.arrivals /\ t.minted = s.minted /\ t.status = s.status
          /\ t.merges = [s.merges EXCEPT ![e.to] = "READY"]
          /\ t.frontier = Append(s.frontier, e.to)
      BY <1>3, <2>1 DEF IsRoute
    <2>3. /\ Append(s.frontier, e.to) \in Seq(KnownIn(s))
          /\ Elements(Append(s.frontier, e.to)) = Elements(s.frontier) \cup {e.to}
      <3>1. s.frontier \in Seq(KnownIn(s)) /\ KnownIn(s) \cup {e.to} = KnownIn(s)
        BY <1>4 DEF RouteOK
      <3> QED
        BY <3>1, AppendPositions, AppendElements
    <2>4. KnownIn(t) = KnownIn(s)
      BY <2>2 DEF KnownIn
    <2>5. RouteOK(t)
      BY <1>3, <1>5, <2>2, <2>3, <2>4 DEF RouteOK, MintedIn
    <2>6. Extended(s, t)
      BY <2>2, <2>3 DEF Extended, RouteOK
    <2>7. FedIn(t, e.to)
      BY <1>3, <2>1, <2>2 DEF FedIn, Rows
    <2>8. Noted(s, t, node.id, e)
      BY <1>7, <2>2, <2>3, <2>7 DEF Noted, NotedBy
    <2> QED
      BY <1>8, <1>11, <2>5, <2>6, <2>8
  <1> QED
    BY <1>9, <1>10

LEMMA FollowRepairStep ==
  ASSUME flow \in DOMAIN Workflows, NEW s, RouteOK(s), NEW node, node.id \in Ids, NEW done,
         NEW e, e.to \in Declared, Flow.nodes[e.to].type = "REPAIR", e.kind = "REPAIR",
         NEW t, t = FollowRepair(s, node, e)
  PROVE  /\ RouteOK(t) /\ Extended(s, t) /\ Noted(s, t, node.id, e)
         /\ TracedBy(s, t, node.id, {e.to})
         /\ t.status = "RUNNING" => Led(t, node.id, e, done)
  <1>1. PICK known : known = KnownIn(s)
    OBVIOUS
  <1>2. PICK branch : branch = MintBranch(Flow.nodes[e.to], node.id, known)
    OBVIOUS
  <1>3. IsFiniteSet(known) /\ known \subseteq Ids
    <2>1. IsFiniteSet(Declared) /\ Declared \subseteq Ids
      BY FlowValid
    <2>2. IsFiniteSet(DOMAIN s.minted) /\ DOMAIN s.minted \subseteq Ids
      BY DEF RouteOK, MintedIn
    <2>3. IsFiniteSet(Declared \cup DOMAIN s.minted)
      BY <2>1, <2>2, FS_Union
    <2> QED
      BY <1>1, <2>1, <2>2, <2>3 DEF KnownIn
  <1>4. branch.id \in Ids \ known /\ branch.type = "REPAIR" /\ branch.origin = node.id
        /\ ValidNode(branch, Flow.nodes) /\ Ways(branch) = Ways(Flow.nodes[e.to])
    <2>1. NextBranch(node.id, known) \in Ids \ known
      BY <1>3, NextBranchFresh
    <2>2. ValidNode(Flow.nodes[e.to], Flow.nodes)
      BY FlowValid
    <2>3. /\ DOMAIN branch = NodeFields /\ branch.id = NextBranch(node.id, known)
          /\ branch.origin = node.id /\ branch.type = "REPAIR"
          /\ branch.edges = Flow.nodes[e.to].edges
          /\ branch.on_pass = Flow.nodes[e.to].on_pass /\ branch.on_fail = Flow.nodes[e.to].on_fail
      BY <1>2, <2>2 DEF MintBranch, ValidNode, NodeFields
    <2>4. Ways(branch) = Ways(Flow.nodes[e.to])
      BY <2>3, SameWays
    <2> QED
      BY <2>1, <2>2, <2>3, <2>4 DEF ValidNode
  <1>5. CASE Cardinality(known) >= Flow.maxNodes
    <2>1. t = [s EXCEPT !.status = "WORKFLOW_LIMIT_REACHED"]
      BY <1>1, <1>5 DEF FollowRepair, KnownIn
    <2>2. /\ IsRoute(t) /\ t.arrivals = s.arrivals /\ t.minted = s.minted
          /\ t.merges = s.merges /\ t.frontier = s.frontier
          /\ t.status = "WORKFLOW_LIMIT_REACHED"
      BY <2>1 DEF RouteOK, IsRoute
    <2>3. RouteOK(t)
      BY <2>2 DEF RouteOK, MintedIn, KnownIn, Statuses, Settled
    <2> QED
      BY <2>2, <2>3 DEF Extended, Noted, NotedBy, TracedBy
  <1>6. CASE ~(Cardinality(known) >= Flow.maxNodes)
    <2>1. PICK row : row = [edge |-> e.id, from |-> node.id, status |-> "ACCEPTED"]
      OBVIOUS
    <2>2. PICK w : w = WithArrival(s, branch.id, row)
      OBVIOUS
    <2>3. /\ IsRoute(w) /\ w.frontier = s.frontier /\ w.merges = s.merges
          /\ w.minted = s.minted /\ w.status = s.status
          /\ DOMAIN w.arrivals = DOMAIN s.arrivals \cup {branch.id} /\ RowsOK(w.arrivals)
          /\ \A m : m # branch.id => Rows(w.arrivals, m) = Rows(s.arrivals, m)
          /\ Elements(Rows(w.arrivals, branch.id)) = Elements(Rows(s.arrivals, branch.id)) \cup {row}
      <3>1. IsRoute(s) /\ RowsOK(s.arrivals)
        BY DEF RouteOK
      <3> QED
        BY <2>2, <3>1, WithArrivalIs
    <2>4. t = [w EXCEPT !.minted = [m \in DOMAIN s.minted \cup {branch.id} |->
                                      IF m = branch.id THEN branch ELSE s.minted[m]],
                        !.frontier = Append(s.frontier, branch.id)]
      BY <1>1, <1>2, <1>6, <2>1, <2>2 DEF FollowRepair, KnownIn
    <2>5. /\ IsRoute(t) /\ t.arrivals = w.arrivals /\ t.merges = s.merges /\ t.status = s.status
          /\ t.frontier = Append(s.frontier, branch.id)
          /\ t.minted = [m \in DOMAIN s.minted \cup {branch.id} |->
                           IF m = branch.id THEN branch ELSE s.minted[m]]
      BY <2>3, <2>4 DEF IsRoute
    <2>6. /\ DOMAIN t.minted = DOMAIN s.minted \cup {branch.id} /\ t.minted[branch.id] = branch
          /\ \A b \in DOMAIN s.minted : b # branch.id /\ t.minted[b] = s.minted[b]
      BY <1>1, <1>4, <2>5 DEF KnownIn
    <2>7. MintedIn(t)
      <3>1. IsFiniteSet(DOMAIN t.minted)
        <4>1. IsFiniteSet(DOMAIN s.minted)
          BY DEF RouteOK, MintedIn
        <4> QED
          BY <2>6, <4>1, FS_AddElement
      <3>2. branch.id \notin Declared
        BY <1>1, <1>4 DEF KnownIn
      <3> QED
        BY <1>4, <2>6, <3>1, <3>2 DEF RouteOK, MintedIn
    <2>8. KnownIn(t) = KnownIn(s) \cup {branch.id}
      BY <2>6 DEF KnownIn
    <2>9. t.frontier \in Seq(KnownIn(t)) /\ Elements(t.frontier) = Elements(s.frontier) \cup {branch.id}
      <3>1. s.frontier \in Seq(KnownIn(s))
        BY DEF RouteOK
      <3> QED
        BY <2>5, <2>8, <3>1, AppendPositions, AppendElements
    <2>10. RouteOK(t)
      BY <2>3, <2>5, <2>7, <2>8, <2>9 DEF RouteOK
    <2>11. Extended(s, t)
      BY <2>5, <2>6, <2>9 DEF Extended
    <2>12. branch.id \notin Merges
      BY <1>1, <1>4 DEF KnownIn, Merges
    <2>13. \A m \in Merges : /\ Rows(t.arrivals, m) = Rows(s.arrivals, m)
                             /\ m \notin Elements(t.frontier) \ Elements(s.frontier)
      BY <2>3, <2>5, <2>9, <2>12
    <2>14. Noted(s, t, node.id, e)
      BY <2>13 DEF Noted, NotedBy
    <2>15. Led(t, node.id, e, done)
      BY <1>4, <2>6, <2>9 DEF Led
    <2>16. \A m : \A a \in Elements(Rows(t.arrivals, m)) \ Elements(Rows(s.arrivals, m)) :
             m = branch.id /\ a.from = node.id
      BY <2>1, <2>3, <2>5
    <2>17. TracedBy(s, t, node.id, {e.to})
      BY <1>4, <2>6, <2>16 DEF TracedBy
    <2> QED
      BY <2>10, <2>11, <2>14, <2>15, <2>17
  <1> QED
    BY <1>5, <1>6


LEMMA FollowEdgeStep ==
  ASSUME flow \in DOMAIN Workflows, NEW s, RouteOK(s), NEW node, node.id \in Ids, NEW done,
         NEW e, ValidEdge(e, Flow.nodes), NEW t, t = FollowEdge(s, node, e, done)
  PROVE  /\ RouteOK(t) /\ Extended(s, t) /\ Noted(s, t, node.id, e)
         /\ TracedBy(s, t, node.id, {e.to})
         /\ t.status = "RUNNING" => Led(t, node.id, e, done)
  <1>1. CASE s.status # "RUNNING" \/ e.to = Stop
    <2>1. t = s
      BY <1>1 DEF FollowEdge
    <2> QED
      BY <1>1, <2>1 DEF Extended, Noted, NotedBy, TracedBy, Led
  <1>2. CASE s.status = "RUNNING" /\ e.to # Stop /\ e.to = HumanRequired
    <2>1. t = [s EXCEPT !.status = "WORKFLOW_LIMIT_REACHED"]
      BY <1>2 DEF FollowEdge
    <2>2. /\ IsRoute(t) /\ t.arrivals = s.arrivals /\ t.minted = s.minted
          /\ t.merges = s.merges /\ t.frontier = s.frontier
          /\ t.status = "WORKFLOW_LIMIT_REACHED"
      BY <2>1 DEF RouteOK, IsRoute
    <2>3. RouteOK(t)
      BY <2>2 DEF RouteOK, MintedIn, KnownIn, Statuses, Settled
    <2> QED
      BY <2>2, <2>3 DEF Extended, Noted, NotedBy, TracedBy
  <1>3. ASSUME s.status = "RUNNING", e.to # Stop, e.to # HumanRequired
        PROVE  e.to \in Declared /\ (e.kind = "REPAIR" => Flow.nodes[e.to].type = "REPAIR")
    BY <1>3 DEF ValidEdge, Targets, Declared
  <1>4. CASE s.status = "RUNNING" /\ e.to # Stop /\ e.to # HumanRequired /\ e.kind = "REPAIR"
    <2>1. t = FollowRepair(s, node, e)
      BY <1>4 DEF FollowEdge
    <2> QED
      BY <1>3, <1>4, <2>1, FollowRepairStep
  <1>5. CASE /\ s.status = "RUNNING" /\ e.to # Stop /\ e.to # HumanRequired
             /\ e.kind # "REPAIR" /\ e.to \in Merges
    <2>1. t = FollowMerge(s, node, e)
      BY <1>5 DEF FollowEdge
    <2> QED
      BY <1>5, <2>1, FollowMergeStep
  <1>6. CASE /\ s.status = "RUNNING" /\ e.to # Stop /\ e.to # HumanRequired
             /\ e.kind # "REPAIR" /\ e.to \notin Merges
    <2>1. t = Enter(s, node, e, done)
      BY <1>6 DEF FollowEdge
    <2> QED
      BY <1>3, <1>6, <2>1, EnterStep
  <1> QED
    BY <1>1, <1>2, <1>4, <1>5, <1>6

LEMMA ReadyStays ==
  ASSUME NEW merge, NEW rows, NEW more, Elements(rows) \subseteq Elements(more),
         MergeReady(merge, rows)
  PROVE  MergeReady(merge, more)
  <1>1. Accepted(rows) \subseteq Accepted(more)
    BY DEF Accepted
  <1> QED
    BY <1>1 DEF MergeReady

LEMMA NotedTransitive ==
  ASSUME NEW s, NEW t, NEW u, NEW n, NEW ids, NEW some, some \subseteq ids,
         NotedBy(s, t, n, ids), NotedBy(t, u, n, some)
  PROVE  NotedBy(s, u, n, ids)
  <1> SUFFICES ASSUME NEW m \in Merges
               PROVE  /\ Elements(Rows(s.arrivals, m)) \subseteq Elements(Rows(u.arrivals, m))
                      /\ \A a \in Elements(Rows(u.arrivals, m)) \ Elements(Rows(s.arrivals, m)) :
                           a.from = n /\ a.edge \in ids
                      /\ m \in Elements(u.frontier) \ Elements(s.frontier) => FedIn(u, m)
    BY DEF NotedBy
  <1>1. FedIn(t, m) => FedIn(u, m)
    BY ReadyStays DEF FedIn, NotedBy
  <1> QED
    BY <1>1 DEF NotedBy

LEMMA TracedTransitive ==
  ASSUME NEW s, NEW t, NEW u, NEW n, NEW ways, NEW some, some \subseteq ways,
         TracedBy(s, t, n, ways), TracedBy(t, u, n, some), Extended(t, u)
  PROVE  TracedBy(s, u, n, ways)
  <1>1. ASSUME NEW b \in DOMAIN u.minted \ DOMAIN s.minted
        PROVE  /\ u.minted[b].origin = n
               /\ \E template \in Declared \cap ways : Ways(u.minted[b]) = Ways(Flow.nodes[template])
    <2>1. CASE b \in DOMAIN t.minted
      BY <2>1 DEF TracedBy, Extended
    <2>2. CASE b \notin DOMAIN t.minted
      BY <2>2 DEF TracedBy
    <2> QED
      BY <2>1, <2>2
  <1>2. ASSUME NEW m, NEW a \in Elements(Rows(u.arrivals, m)) \ Elements(Rows(s.arrivals, m))
        PROVE  /\ a.from = n
               /\ \/ m \in Declared \cap ways
                  \/ m \in DOMAIN u.minted /\ u.minted[m].origin = n
    <2>1. CASE a \in Elements(Rows(t.arrivals, m))
      BY <2>1 DEF TracedBy, Extended
    <2>2. CASE a \notin Elements(Rows(t.arrivals, m))
      BY <2>2 DEF TracedBy
    <2> QED
      BY <2>1, <2>2
  <1> QED
    BY <1>1, <1>2 DEF TracedBy

\* The states of a routing, edge by edge.
FollowStep(f, s, node, edges, done, k) ==
  IF k = 0 THEN s ELSE FollowEdge(f[k - 1], node, edges[k], done)
Follows(f, s, node, edges, done, n) ==
  f = [k \in 0..n |-> FollowStep(f, s, node, edges, done, k)]

LEMMA FollowsExist ==
  ASSUME NEW s, NEW node, NEW edges, NEW done, NEW m \in Nat
  PROVE  \E f : Follows(f, s, node, edges, done, m)
  <1> DEFINE S == {n \in Nat : \E f : Follows(f, s, node, edges, done, n)}
  <1>1. 0 \in S
    <2>1. Follows([k \in 0..0 |-> s], s, node, edges, done, 0)
      BY DEF Follows, FollowStep
    <2> QED
      BY <2>1
  <1>2. ASSUME NEW n \in S PROVE n + 1 \in S
    <2>1. PICK f : Follows(f, s, node, edges, done, n)
      OBVIOUS
    <2>2. n \in Nat
      OBVIOUS
    <2> DEFINE g == [k \in 0..n + 1 |->
                       IF k <= n THEN f[k] ELSE FollowStep(f, s, node, edges, done, k)]
    <2>3. ASSUME NEW k \in 0..n + 1 PROVE g[k] = FollowStep(g, s, node, edges, done, k)
      <3>1. CASE k <= n
        <4>1. g[k] = f[k] /\ (k # 0 => g[k - 1] = f[k - 1])
          BY <2>2, <3>1
        <4>2. f[k] = FollowStep(f, s, node, edges, done, k)
          BY <2>1, <2>2, <3>1 DEF Follows
        <4> QED
          BY <4>1, <4>2 DEF FollowStep
      <3>2. CASE k = n + 1
        BY <2>2, <3>2 DEF FollowStep
      <3> QED
        BY <2>2, <3>1, <3>2
    <2>4. Follows(g, s, node, edges, done, n + 1)
      BY <2>3 DEF Follows
    <2> HIDE DEF g
    <2> QED
      BY <2>2, <2>4
  <1>3. Nat \subseteq S
    <2> HIDE DEF S
    <2> QED
      BY <1>1, <1>2, Induction
  <1> QED
    BY <1>3

(* What apply_gate_decision does with the selected edges: a sound state,    *)
(* and, unless it stops the run, one in which every edge has led somewhere. *)
EdgeIds(node, r) == {e.id : e \in Elements(Selected(node, r))}
LEMMA AppliedStep ==
  ASSUME flow \in DOMAIN Workflows, NEW s, RouteOK(s), s.status = "RUNNING",
         NEW node, node.id \in Ids, ValidNode(node, Flow.nodes), NEW r, NEW done,
         NEW t, t = Applied(s, node, r, done)
  PROVE  /\ RouteOK(t) /\ Extended(s, t) /\ NotedBy(s, t, node.id, EdgeIds(node, r))
         /\ TracedBy(s, t, node.id, Ways(node))
         /\ t.status = "RUNNING" =>
              \A e \in Elements(Selected(node, r)) : Led(t, node.id, e, done)
  <1>1. CASE Starved(s, node, r) # {}
    <2>1. PICK m \in Merges : t = [s EXCEPT !.merges[m] = "BLOCKED", !.status = "BLOCKED"]
      <3>1. Starved(s, node, r) \subseteq Merges
        BY DEF Starved
      <3>2. (CHOOSE m \in Starved(s, node, r) : TRUE) \in Merges
        BY <1>1, <3>1
      <3> QED
        BY <1>1, <3>2 DEF Applied
    <2>2. /\ IsRoute(t) /\ t.arrivals = s.arrivals /\ t.minted = s.minted
          /\ t.merges = [s.merges EXCEPT ![m] = "BLOCKED"] /\ t.frontier = s.frontier
          /\ t.status = "BLOCKED"
      BY <2>1 DEF RouteOK, IsRoute
    <2>3. RouteOK(t)
      BY <2>2 DEF RouteOK, MintedIn, KnownIn, Statuses, Settled
    <2>4. Extended(s, t)
      BY <2>2 DEF Extended, RouteOK
    <2> QED
      BY <2>2, <2>3, <2>4 DEF NotedBy, TracedBy
  <1>2. CASE Starved(s, node, r) = {}
    <2>1. PICK edges : edges = Selected(node, r)
      OBVIOUS
    <2>2. /\ edges \in Seq(Elements(edges)) /\ Len(edges) \in Nat
          /\ \A e \in Elements(edges) : ValidEdge(e, Flow.nodes) /\ e.to \in Ways(node)
      BY <2>1, SelectedEdges DEF Ways
    <2>3. PICK f : Follows(f, s, node, edges, done, Len(edges)) /\ t = f[Len(edges)]
      <3> DEFINE f == CHOOSE f : Follows(f, s, node, edges, done, Len(edges))
      <3>1. Follows(f, s, node, edges, done, Len(edges))
        BY <2>2, FollowsExist
      <3>2. t = f[Len(edges)]
        BY <1>2, <2>1 DEF Applied, Follows, FollowStep
      <3> QED
        BY <3>1, <3>2
    <2> DEFINE After(k) ==
                 /\ RouteOK(f[k]) /\ Extended(s, f[k])
                 /\ NotedBy(s, f[k], node.id, EdgeIds(node, r))
                 /\ TracedBy(s, f[k], node.id, Ways(node))
                 /\ f[k].status = "RUNNING" =>
                      \A i \in 1..k : Led(f[k], node.id, edges[i], done)
               S == {k \in Nat : k <= Len(edges) => After(k)}
    <2>4. 0 \in S
      <3>1. f[0] = s
        BY <2>2, <2>3 DEF Follows, FollowStep
      <3>2. /\ Extended(s, s) /\ NotedBy(s, s, node.id, EdgeIds(node, r))
            /\ TracedBy(s, s, node.id, Ways(node))
        BY DEF Extended, NotedBy, TracedBy
      <3> QED
        BY <3>1, <3>2
    <2>5. ASSUME NEW k \in Nat, k \in S PROVE k + 1 \in S
      <3> SUFFICES ASSUME k + 1 <= Len(edges) PROVE After(k + 1)
        OBVIOUS
      <3>1. After(k)
        BY <2>2, <2>5
      <3>2. PICK u, v, e : u = f[k] /\ v = f[k + 1] /\ e = edges[k + 1]
        OBVIOUS
      <3>3. v = FollowEdge(u, node, e, done)
        <4>1. k + 1 \in 0..Len(edges) /\ k + 1 # 0 /\ (k + 1) - 1 = k
          BY <2>2
        <4>2. f[k + 1] = FollowStep(f, s, node, edges, done, k + 1)
          BY <2>3, <4>1 DEF Follows
        <4> QED
          BY <3>2, <4>1, <4>2 DEF FollowStep
      <3>4. /\ e \in Elements(edges) /\ ValidEdge(e, Flow.nodes) /\ {e.id} \subseteq EdgeIds(node, r)
            /\ {e.to} \subseteq Ways(node)
        BY <2>1, <2>2, <3>2 DEF Elements, EdgeIds
      <3>5. /\ RouteOK(u) /\ Extended(s, u) /\ NotedBy(s, u, node.id, EdgeIds(node, r))
            /\ TracedBy(s, u, node.id, Ways(node))
            /\ u.status = "RUNNING" => \A i \in 1..k : Led(u, node.id, edges[i], done)
        BY <3>1, <3>2
      <3>6. /\ RouteOK(v) /\ Extended(u, v) /\ NotedBy(u, v, node.id, {e.id})
            /\ TracedBy(u, v, node.id, {e.to})
            /\ v.status = "RUNNING" => Led(v, node.id, e, done)
        BY <3>3, <3>4, <3>5, FollowEdgeStep DEF Noted
      <3>7. Extended(s, v) /\ NotedBy(s, v, node.id, EdgeIds(node, r))
        BY <3>4, <3>5, <3>6, ExtendedTransitive, NotedTransitive
      <3>9. TracedBy(s, v, node.id, Ways(node))
        BY <3>4, <3>5, <3>6, TracedTransitive
      <3>8. ASSUME v.status = "RUNNING", NEW i \in 1..k + 1
            PROVE  Led(v, node.id, edges[i], done)
        <4>1. CASE i = k + 1
          BY <3>2, <3>6, <3>8, <4>1
        <4>2. CASE i \in 1..k
          <5>1. Led(u, node.id, edges[i], done)
            BY <3>5, <3>6, <3>8, <4>2 DEF Extended
          <5> QED
            BY <3>6, <5>1, LedStays
        <4> QED
          BY <4>1, <4>2
      <3> QED
        BY <3>2, <3>6, <3>7, <3>8, <3>9
    <2>6. Nat \subseteq S
      <3> HIDE DEF S
      <3> QED
        BY <2>4, <2>5, Induction
    <2>7. After(Len(edges))
      BY <2>2, <2>6
    <2>8. \A e \in Elements(edges) : \E i \in 1..Len(edges) : e = edges[i]
      BY <2>2 DEF Elements
    <2> QED
      BY <2>1, <2>3, <2>7, <2>8
  <1> QED
    BY <1>1, <1>2

-----------------------------------------------------------------------------
(* RECORDING.  What every step does to the graph of the run.                *)
Grown ==
  /\ flow' = flow /\ DOMAIN minted \subseteq DOMAIN minted'
  /\ \A b \in DOMAIN minted : minted'[b] = minted[b]

LEMMA NodesStay ==
  ASSUME Grown
  PROVE  /\ Flow' = Flow /\ Declared' = Declared /\ Merges' = Merges /\ Known \subseteq Known'
         /\ \A n \in Known : (Node(n))' = Node(n)
  <1>1. Flow' = Flow /\ Declared' = Declared /\ Merges' = Merges
    BY DEF Grown, Flow, Declared, Merges
  <1>2. Known \subseteq Known'
    BY <1>1 DEF Known, Grown
  <1>3. ASSUME NEW n \in Known PROVE (Node(n))' = Node(n)
    BY <1>1 DEF Node, Known, Grown
  <1> QED
    BY <1>1, <1>2, <1>3

LEMMA NodeOK ==
  ASSUME flow \in DOMAIN Workflows, Minting, NEW n \in Known
  PROVE  Node(n).id = n /\ n \in Ids /\ ValidNode(Node(n), Flow.nodes)
  BY FlowValid DEF Node, Known, Minting

LEMMA RouteStarts ==
  ASSUME RunInv, NEW s, IsRoute(s), s.frontier \in Seq(Known), s.arrivals = arrivals,
         s.minted = minted, s.status = "RUNNING",
         s.merges \in [Merges -> {"WAITING", "READY", "MERGED", "BLOCKED"}]
  PROVE  RouteOK(s)
  BY DEF RunInv, RouteOK, MintedIn, Minting, Arrived, KnownIn, Known, Statuses

(* What _record_node_completion leaves: a sound state of the routing that   *)
(* grew from the one it began with.                                         *)
RecordedAs(s, t, node, r) ==
  /\ RouteOK(t) /\ Extended(s, t) /\ NotedBy(s, t, node.id, EdgeIds(node, r))
  /\ TracedBy(s, t, node.id, Ways(node))
  /\ t.status = "RUNNING" =>
       /\ StatusOnRecord(node, r) = "RUNNING"
       /\ \A e \in Elements(Selected(node, r)) :
            Led(t, node.id, e, CompletedIds \cup {node.id})
  /\ StatusOnRecord(node, r) # "RUNNING" => t.status = StatusOnRecord(node, r)
  /\ frontier' = t.frontier /\ arrivals' = t.arrivals
  /\ merges' = t.merges /\ minted' = t.minted /\ status' = t.status

LEMMA RecordCompletionStep ==
  ASSUME flow \in DOMAIN Workflows, NEW s, RouteOK(s), s.status = "RUNNING",
         NEW node, node.id \in Ids, ValidNode(node, Flow.nodes), NEW r,
         RecordCompletion(s, node, r)
  PROVE  \E t : RecordedAs(s, t, node, r)
  <1>1. PICK t : /\ t = Routed(s, node, r)
                 /\ frontier' = t.frontier /\ arrivals' = t.arrivals
                 /\ merges' = t.merges /\ minted' = t.minted /\ status' = t.status
    BY DEF RecordCompletion
  <1>2. CASE StatusOnRecord(node, r) = "RUNNING"
    <2>1. t = Applied(s, node, r, CompletedIds \cup {node.id})
      BY <1>1, <1>2 DEF Routed
    <2>2. /\ RouteOK(t) /\ Extended(s, t) /\ NotedBy(s, t, node.id, EdgeIds(node, r))
          /\ TracedBy(s, t, node.id, Ways(node))
          /\ t.status = "RUNNING" =>
               \A e \in Elements(Selected(node, r)) :
                 Led(t, node.id, e, CompletedIds \cup {node.id})
      BY <2>1, AppliedStep
    <2> QED
      BY <1>1, <1>2, <2>2 DEF RecordedAs
  <1>3. CASE StatusOnRecord(node, r) # "RUNNING"
    <2>1. StatusOnRecord(node, r) \in Settled \ {"COMPLETED"}
      BY <1>3 DEF StatusOnRecord, StatusAfter, Settled
    <2>2. PICK verdict : verdict = StatusOnRecord(node, r)
      OBVIOUS
    <2>3. t = [s EXCEPT !.status = verdict]
      BY <1>1, <1>3, <2>2 DEF Routed
    <2>4. /\ IsRoute(t) /\ t.arrivals = s.arrivals /\ t.minted = s.minted
          /\ t.merges = s.merges /\ t.frontier = s.frontier /\ t.status = verdict
      BY <2>3 DEF RouteOK, IsRoute
    <2>5. verdict \in Settled /\ verdict \notin {"RUNNING", "COMPLETED"}
      BY <1>3, <2>1, <2>2
    <2>6. RouteOK(t)
      BY <2>4, <2>5 DEF RouteOK, MintedIn, KnownIn, Statuses
    <2>7. /\ Extended(s, t) /\ NotedBy(s, t, node.id, EdgeIds(node, r))
          /\ TracedBy(s, t, node.id, Ways(node))
      BY <2>4, <2>5 DEF Extended, NotedBy, TracedBy
    <2> QED
      BY <1>1, <1>3, <2>2, <2>4, <2>5, <2>6, <2>7 DEF RecordedAs
  <1> QED
    BY <1>2, <1>3

Record1(node, r) == [id |-> node.id, type |-> node.type, res |-> r,
                     cycle |-> cycle, here |-> TRUE]

(* A result that is recorded leaves the parts of the invariant that do not  *)
(* concern the queue of workers or where the run stands.                    *)
LEMMA RecordingKeeps ==
  ASSUME RunInv, status = "RUNNING", flow' = flow,
         NEW s, RouteOK(s), s.status = "RUNNING", s.minted = minted, NEW n \in Known, NEW r,
         RecordCompletion(s, Node(n), r)
  PROVE  /\ Grown /\ Minting' /\ status' \in Statuses /\ frontier' \in Seq(Known')
         /\ Arrived' /\ Merging' /\ Records' /\ SettledOnce' /\ SettledTwiceStops'
  <1>1. PICK node : node = Node(n)
    OBVIOUS
  <1>2. node.id = n /\ n \in Ids /\ ValidNode(node, Flow.nodes)
    BY <1>1, NodeOK DEF RunInv
  <1>3. PICK t : RecordedAs(s, t, node, r)
    BY <1>1, <1>2, RecordCompletionStep DEF RunInv
  <1>4. Grown
    BY <1>3 DEF RecordedAs, Extended, Grown
  <1>5. /\ Flow' = Flow /\ Declared' = Declared /\ Merges' = Merges /\ Known \subseteq Known'
        /\ \A m \in Known : (Node(m))' = Node(m)
    BY <1>4, NodesStay
  <1>6. Known' = KnownIn(t)
    BY <1>3, <1>5 DEF Known, KnownIn, RecordedAs
  <1>7. /\ Minting' /\ status' \in Statuses /\ frontier' \in Seq(Known') /\ Arrived' /\ Merging'
    BY <1>3, <1>5, <1>6 DEF RecordedAs, RouteOK, Minting, MintedIn, Arrived, Merging
  <1>8. PICK new : new = Record1(node, r)
    OBVIOUS
  <1>9. /\ completed' = Append(completed, new) /\ completed \in Seq(Elements(completed))
        /\ DOMAIN new = {"id", "type", "res", "cycle", "here"} /\ new.id = n
        /\ new.type = node.type /\ new.cycle = cycle /\ new.here = TRUE
    BY <1>1, <1>2, <1>8 DEF RecordCompletion, Record1, RunInv, Records
  <1>10. /\ completed' \in Seq(Elements(completed) \cup {new})
         /\ Elements(completed') = Elements(completed) \cup {new}
         /\ DOMAIN completed' = DOMAIN completed \cup {Len(completed) + 1}
         /\ completed'[Len(completed) + 1] = new
         /\ \A i \in DOMAIN completed : completed'[i] = completed[i]
    BY <1>9, AppendPositions, AppendElements
  <1>11. Records'
    <2>1. \A rec \in Elements(completed) :
            /\ DOMAIN rec = {"id", "type", "res", "cycle", "here"}
            /\ rec.id \in Known /\ rec.type = Node(rec.id).type /\ rec.cycle \in Nat
      BY DEF RunInv, Records
    <2> QED
      BY <1>1, <1>5, <1>9, <1>10, <2>1 DEF Records, RunInv, Budget
  <1>12. /\ ~Twice
         /\ \A rec \in Elements(completed) : rec.here => rec.type \notin GateTypes
    BY DEF RunInv, SettledOnce
  <1>13. CASE \E rec \in Elements(completed) : rec.id = n /\ rec.here
    <2>1. node.type \notin GateTypes
      BY <1>1, <1>12, <1>13 DEF RunInv, Records
    <2>2. StatusOnRecord(node, r) \in {"BLOCKED", "INVALID"}
      BY <1>2, <1>13, <2>1 DEF StatusOnRecord, StatusAfter
    <2>3. status' \in {"BLOCKED", "INVALID"}
      BY <1>3, <2>2 DEF RecordedAs
    <2> QED
      BY <1>4, <1>7, <1>11, <2>3 DEF SettledOnce, SettledTwiceStops
  <1>14. CASE ~\E rec \in Elements(completed) : rec.id = n /\ rec.here
    <2>1. \A i \in DOMAIN completed : completed[i] \in Elements(completed)
      BY DEF Elements
    <2>2. ~Twice'
      BY <1>9, <1>10, <1>12, <1>14, <2>1 DEF Twice
    <2>3. status' = "RUNNING" => node.type \notin GateTypes
      <3>1. status' = "RUNNING" => StatusOnRecord(node, r) = "RUNNING"
        BY <1>3 DEF RecordedAs
      <3> QED
        BY <3>1 DEF StatusOnRecord, StatusAfter
    <2>4. SettledOnce'
      BY <1>9, <1>10, <1>12, <2>2, <2>3 DEF SettledOnce
    <2> QED
      BY <1>4, <1>7, <1>11, <2>2, <2>4 DEF SettledTwiceStops
  <1> QED
    BY <1>13, <1>14

-----------------------------------------------------------------------------
(* THE QUEUES.                                                              *)
LEMMA WithoutIs ==
  ASSUME Workers, NEW id, NEW w, w = Without(id)
  PROVE  /\ w \in Seq(Elements(w)) /\ Elements(w) = {x \in Elements(active) : x.id # id}
         /\ \A i, j \in DOMAIN w : i # j => w[i].id # w[j].id
  <1>1. PICK keep : keep = {i \in DOMAIN active : active[i].id # id}
    OBVIOUS
  <1>2. active \in Seq(Elements(active)) /\ DOMAIN active = 1..Len(active)
    BY DEF Workers
  <1>3. PickedFrom(w, active, keep, Len(active))
    <2>1. w = Picked(active, keep)
      BY <1>1 DEF Without
    <2> QED
      BY <1>2, <2>1, PickedIs
  <1>4. Elements(w) = {active[i] : i \in keep}
    BY <1>1, <1>2, <1>3 DEF PickedFrom
  <1>5. Elements(w) = {x \in Elements(active) : x.id # id}
    BY <1>1, <1>4 DEF Elements
  <1>6. \A i, j \in DOMAIN w : i # j => w[i].id # w[j].id
    BY <1>1, <1>3 DEF PickedFrom, Workers
  <1>7. w \in Seq(Elements(w))
    <2>1. w \in Seq(Elements(active))
      BY <1>3 DEF PickedFrom
    <2> QED
      BY <2>1 DEF Elements
  <1> QED
    BY <1>5, <1>6, <1>7

\* Taking one worker out of the dictionary.
LEMMA CollectedStep ==
  ASSUME Workers, Known \subseteq Known', NEW id, active' = Without(id)
  PROVE  Workers' /\ ActiveIds' = ActiveIds \ {id}
  <1>1. /\ active' \in Seq(Elements(active')) /\ Elements(active') = {x \in Elements(active) : x.id # id}
        /\ \A i, j \in DOMAIN active' : i # j => active'[i].id # active'[j].id
    BY WithoutIs
  <1>2. ActiveIds' = ActiveIds \ {id}
    BY <1>1 DEF ActiveIds
  <1> QED
    BY <1>1, <1>2 DEF Workers

\* Results arrive, workers stay.
LEMMA SameWorkersStep ==
  ASSUME Workers, Known \subseteq Known', DOMAIN active' = DOMAIN active,
         active' \in Seq(Elements(active')),
         \A i \in DOMAIN active : /\ DOMAIN active'[i] = {"id", "res"}
                                  /\ active'[i].id = active[i].id
  PROVE  Workers' /\ ActiveIds' = ActiveIds
  <1>1. ActiveIds' = {active[i].id : i \in DOMAIN active} /\ ActiveIds = {active[i].id : i \in DOMAIN active}
    BY DEF ActiveIds, Elements
  <1>2. \A w \in Elements(active') : DOMAIN w = {"id", "res"} /\ w.id \in Known'
    BY DEF Workers, Elements
  <1> QED
    BY <1>1, <1>2 DEF Workers

LEMMA EnrolledStep ==
  ASSUME Workers, Known \subseteq Known', NEW worker, DOMAIN worker = {"id", "res"},
         worker.id \in Known, active' = Enrolled(worker)
  PROVE  Workers' /\ ActiveIds' = ActiveIds \cup {worker.id}
  <1>1. CASE worker.id \in ActiveIds
    <2>1. active' = [i \in DOMAIN active |-> IF active[i].id = worker.id THEN worker ELSE active[i]]
      BY <1>1 DEF Enrolled
    <2>2. DOMAIN active' = DOMAIN active /\ active' \in Seq(Elements(active'))
      BY <2>1 DEF Workers, Elements
    <2>3. \A i \in DOMAIN active : active[i] \in Elements(active)
      BY DEF Elements
    <2>4. \A i \in DOMAIN active : DOMAIN active'[i] = {"id", "res"} /\ active'[i].id = active[i].id
      BY <2>1, <2>3 DEF Workers
    <2> QED
      BY <1>1, <2>2, <2>4, SameWorkersStep
  <1>2. CASE worker.id \notin ActiveIds
    <2>1. active' = Append(active, worker)
      BY <1>2 DEF Enrolled
    <2>2. /\ active' \in Seq(Elements(active) \cup {worker})
          /\ Elements(active') = Elements(active) \cup {worker}
          /\ DOMAIN active' = DOMAIN active \cup {Len(active) + 1}
          /\ active'[Len(active) + 1] = worker
          /\ \A i \in DOMAIN active : active'[i] = active[i]
      BY <2>1, AppendPositions, AppendElements DEF Workers
    <2>3. ActiveIds' = ActiveIds \cup {worker.id}
      BY <2>2 DEF ActiveIds
    <2>4. \A i \in DOMAIN active : active[i].id # worker.id
      BY <1>2 DEF ActiveIds, Elements
    <2> QED
      BY <2>2, <2>3, <2>4 DEF Workers
  <1> QED
    BY <1>1, <1>2

LEMMA WorkersStay ==
  ASSUME Workers, Finish \/ Cancel
  PROVE  /\ DOMAIN active' = DOMAIN active /\ ActiveIds' = ActiveIds
         /\ \A i \in DOMAIN active : /\ DOMAIN active'[i] = {"id", "res"}
                                     /\ active'[i].id = active[i].id
  <1>1. \A i \in DOMAIN active : DOMAIN active[i] = {"id", "res"}
    BY DEF Workers, Elements
  <1>2. /\ DOMAIN active' = DOMAIN active
        /\ \A i \in DOMAIN active : /\ DOMAIN active'[i] = {"id", "res"}
                                    /\ active'[i].id = active[i].id
    <2>1. CASE Finish
      <3>1. PICK i \in DOMAIN active : \E r : active' = [active EXCEPT ![i].res = r]
        BY <2>1 DEF Finish
      <3>2. PICK r : active' = [active EXCEPT ![i].res = r]
        BY <3>1
      <3> QED
        BY <1>1, <3>2
    <2>2. CASE Cancel
      <3>1. DOMAIN active' = DOMAIN active
        BY <2>2 DEF Cancel
      <3>2. \A i \in DOMAIN active : active'[i] \in {active[i], [active[i] EXCEPT !.res = Failed]}
        BY <2>2 DEF Cancel
      <3> QED
        BY <1>1, <3>1, <3>2
    <2> QED
      BY <2>1, <2>2
  <1> QED
    BY <1>2 DEF ActiveIds, Elements

\* Whom Record collects.
LEMMA Collected ==
  ASSUME Workers, Snapshot, due # <<>>
  PROVE  LET worker == CHOOSE w \in Elements(active) : w.id = Head(due)
         IN worker \in Elements(active) /\ worker.id = Head(due)
  <1>1. Head(due) \in ActiveIds
    BY DEF Snapshot
  <1>2. \E w \in Elements(active) : w.id = Head(due)
    BY <1>1 DEF ActiveIds
  <1> QED
    BY <1>2

\* The snapshot that the top of the loop takes.
LEMMA HarvestedStep ==
  ASSUME Workers, active' = active, NEW keep, keep \subseteq DOMAIN active,
         due' = LET done == Picked(active, keep) IN [i \in DOMAIN done |-> done[i].id]
  PROVE  Snapshot'
  <1>1. PICK done : done = Picked(active, keep)
    OBVIOUS
  <1>2. active \in Seq(Elements(active)) /\ DOMAIN active = 1..Len(active)
    BY DEF Workers
  <1>3. PickedFrom(done, active, keep, Len(active))
    BY <1>1, <1>2, PickedIs
  <1>4. due' = [i \in DOMAIN done |-> done[i].id] /\ done \in Seq(Elements(active))
    BY <1>1, <1>3 DEF PickedFrom
  <1>5. \A i, j \in DOMAIN done : i # j => done[i].id # done[j].id
    BY <1>3 DEF PickedFrom, Workers
  <1>6. due' \in Seq(ActiveIds)
    BY <1>4 DEF ActiveIds
  <1>7. ActiveIds' = ActiveIds
    BY DEF ActiveIds
  <1> QED
    BY <1>4, <1>5, <1>6, <1>7 DEF Snapshot

LEMMA TailStep ==
  ASSUME Snapshot, due # <<>>, due' = Tail(due), ActiveIds' = ActiveIds \ {Head(due)}
  PROVE  Snapshot'
  <1>1. /\ Tail(due) \in Seq(ActiveIds) /\ DOMAIN Tail(due) = 1..(Len(due) - 1)
        /\ \A i \in 1..(Len(due) - 1) : Tail(due)[i] = due[i + 1]
        /\ Head(due) = due[1] /\ Len(due) \in Nat \ {0} /\ DOMAIN due = 1..Len(due)
    BY DEF Snapshot
  <1>2. \A i \in DOMAIN Tail(due) : Tail(due)[i] \in ActiveIds \ {Head(due)}
    BY <1>1 DEF Snapshot
  <1>3. Tail(due) \in Seq(ActiveIds')
    <2>1. PICK rest : rest = Tail(due)
      OBVIOUS
    <2>2. /\ rest \in Seq(ActiveIds) /\ \A i \in DOMAIN rest : rest[i] \in ActiveIds \ {Head(due)}
      BY <1>1, <1>2, <2>1
    <2>3. rest \in Seq(ActiveIds \ {Head(due)})
      BY <2>2
    <2> QED
      BY <2>1, <2>3
  <1>4. \A i, j \in DOMAIN Tail(due) : i # j => Tail(due)[i] # Tail(due)[j]
    BY <1>1 DEF Snapshot
  <1> QED
    BY <1>3, <1>4 DEF Snapshot

-----------------------------------------------------------------------------
(* THE RUN.                                                                 *)
LEMMA RunInvInit == Init => RunInv
  <1> SUFFICES ASSUME Init PROVE RunInv
    OBVIOUS
  <1>1. ValidWorkflow(Flow) /\ flow \in DOMAIN Workflows
    BY FlowValid DEF Init
  <1>2. Minting
    <2>1. DOMAIN minted = {}
      BY DEF Init
    <2> QED
      BY <2>1, FS_EmptySet DEF Minting
  <1>3. Control /\ Budget
    BY DEF Init, Control, Budget, Statuses, Phases
  <1>4. Queues
    <2>1. Flow.start \in Known
      BY <1>1 DEF Known, Declared, ValidWorkflow
    <2>2. frontier \in Seq(Known)
      BY <2>1 DEF Init
    <2>3. active = <<>> /\ due = <<>> /\ DOMAIN active = {} /\ DOMAIN due = {}
      BY DEF Init
    <2>4. active \in Seq(Elements(active)) /\ due \in Seq(ActiveIds) /\ Elements(active) = {}
      BY <2>3 DEF Elements
    <2> QED
      BY <2>2, <2>3, <2>4 DEF Queues, Workers, Snapshot
  <1>5. Records /\ Arrived /\ Merging /\ ~Twice /\ Elements(completed) = {}
    BY DEF Init, Records, Elements, Arrived, RowsOK, Merging, Twice
  <1> QED
    BY <1>1, <1>2, <1>3, <1>4, <1>5 DEF RunInv, SettledOnce, SettledTwiceStops

LEMMA QuietStep ==
  ASSUME RunInv, UNCHANGED <<graphVars, completed>>, status' \in Statuses,
         status' = "RUNNING" => status = "RUNNING",
         status' = status \/ status \notin {"BLOCKED", "INVALID"}
  PROVE  /\ Grown /\ flow' \in DOMAIN Workflows /\ Known' = Known /\ Merges' = Merges
         /\ Minting' /\ Records' /\ SettledOnce' /\ SettledTwiceStops'
         /\ (frontier' = frontier => frontier' \in Seq(Known'))
         /\ (active' = active => Workers')
         /\ (UNCHANGED <<active, due>> => Snapshot')
         /\ (arrivals' = arrivals => Arrived') /\ (merges' = merges => Merging')
  <1>1. flow' = flow /\ minted' = minted /\ completed' = completed
    BY DEF graphVars
  <1>2. Grown
    BY <1>1 DEF Grown
  <1>3. /\ Flow' = Flow /\ Declared' = Declared /\ Merges' = Merges
        /\ \A n \in Known : (Node(n))' = Node(n)
    BY <1>2, NodesStay
  <1>4. Known' = Known
    BY <1>1, <1>3 DEF Known
  <1>5. Minting' /\ Records'
    BY <1>1, <1>3, <1>4 DEF RunInv, Minting, Records
  <1>6. SettledOnce' /\ SettledTwiceStops'
    BY <1>1 DEF RunInv, SettledOnce, SettledTwiceStops, Twice
  <1>7. /\ (frontier' = frontier => frontier' \in Seq(Known'))
        /\ (active' = active => Workers')
        /\ (UNCHANGED <<active, due>> => Snapshot')
    BY <1>4 DEF RunInv, Queues, Workers, Snapshot, ActiveIds
  <1>8. (arrivals' = arrivals => Arrived') /\ (merges' = merges => Merging')
    BY <1>3, <1>4 DEF RunInv, Arrived, RowsOK, Merging
  <1> QED
    BY <1>1, <1>2, <1>3, <1>4, <1>5, <1>6, <1>7, <1>8 DEF RunInv

LEMMA HarvestKeeps == ASSUME RunInv, Harvest PROVE RunInv'
  <1>1. /\ UNCHANGED <<graphVars, frontier, active, completed, arrivals, cycle, calls, merging>>
        /\ pc = "head" /\ status = "RUNNING" /\ merging = NoNode
    BY DEF Harvest, RunInv, Control, budgetVars, mergeVars
  <1>2. CASE frontier = <<>> /\ active = <<>>
    <2>1. /\ due' = due /\ pc' = "off"
          /\ \/ status' = "COMPLETED" /\ merges' = merges
             \/ status' = "BLOCKED" /\ \E m \in Merges : merges' = [merges EXCEPT ![m] = "BLOCKED"]
      BY <1>2 DEF Harvest, StopWith, Unmerged
    <2>2. status' \in Statuses
      BY <2>1 DEF Statuses, Settled
    <2>3. /\ Grown /\ flow' \in DOMAIN Workflows /\ Merges' = Merges
          /\ Minting' /\ Records' /\ SettledOnce' /\ SettledTwiceStops'
          /\ frontier' \in Seq(Known') /\ Workers' /\ Snapshot' /\ Arrived'
      BY <1>1, <2>1, <2>2, QuietStep
    <2>4. Merging'
      BY <2>1, <2>3 DEF RunInv, Merging
    <2>5. Control' /\ Budget'
      BY <1>1, <2>1, <2>2 DEF RunInv, Control, Budget, Phases
    <2> QED
      BY <2>3, <2>4, <2>5 DEF RunInv, Queues
  <1>3. CASE ~(frontier = <<>> /\ active = <<>>)
    <2>1. /\ pc' = "record" /\ UNCHANGED <<merges, status>>
          /\ due' = LET done == Picked(active, {i \in DOMAIN active : active[i].res # Busy})
                    IN [i \in DOMAIN done |-> done[i].id]
      BY <1>3 DEF Harvest
    <2>2. /\ Grown /\ flow' \in DOMAIN Workflows /\ Merges' = Merges
          /\ Minting' /\ Records' /\ SettledOnce' /\ SettledTwiceStops'
          /\ frontier' \in Seq(Known') /\ Workers' /\ Arrived' /\ Merging'
      BY <1>1, <2>1, QuietStep DEF RunInv, Control
    <2>3. Snapshot'
      <3>1. PICK keep : keep = {i \in DOMAIN active : active[i].res # Busy}
        OBVIOUS
      <3> QED
        BY <1>1, <2>1, <3>1, HarvestedStep DEF RunInv, Queues
    <2>4. Control' /\ Budget'
      BY <1>1, <2>1 DEF RunInv, Control, Budget, Phases, Statuses
    <2> QED
      BY <2>2, <2>3, <2>4 DEF RunInv, Queues
  <1> QED
    BY <1>2, <1>3

LEMMA RecordKeeps == ASSUME RunInv, Record PROVE RunInv'
  <1>1. /\ flow' = flow /\ cycle' = cycle /\ calls' = calls /\ merging' = merging
        /\ pc = "record" /\ status = "RUNNING" /\ merging = NoNode /\ due # <<>>
        /\ active' = Without(Head(due)) /\ due' = Tail(due)
    BY DEF Record, RunInv, Control, budgetVars, mergeVars
  <1>2. PICK worker \in Elements(active) :
          /\ worker.id = Head(due)
          /\ IF worker.res = Raised
             THEN /\ frontier' = <<>> /\ StopWith("CANCELLED")
                  /\ UNCHANGED <<completed, arrivals, merges, minted, inMemory>>
             ELSE /\ RecordCompletion(RoutedSoFar, Node(worker.id), worker.res)
                  /\ Goto("record")
    BY <1>1, Collected DEF Record, RunInv, Queues
  <1>3. worker.id \in Known
    BY DEF RunInv, Queues, Workers
  <1>4. CASE worker.res = Raised
    <2>1. /\ frontier' = <<>> /\ status' = "CANCELLED" /\ pc' = "off"
          /\ UNCHANGED <<graphVars, completed, arrivals, merges>>
      BY <1>1, <1>2, <1>4 DEF StopWith, graphVars
    <2>2. status' \in Statuses
      BY <2>1 DEF Statuses, Settled
    <2>3. /\ Grown /\ flow' \in DOMAIN Workflows /\ Known' = Known
          /\ Minting' /\ Records' /\ SettledOnce' /\ SettledTwiceStops' /\ Arrived' /\ Merging'
      BY <1>1, <2>1, <2>2, QuietStep
    <2>4. Workers' /\ ActiveIds' = ActiveIds \ {Head(due)}
      BY <1>1, <2>3, CollectedStep DEF RunInv, Queues
    <2>5. Snapshot' /\ frontier' \in Seq(Known')
      BY <1>1, <2>1, <2>4, TailStep DEF RunInv, Queues
    <2>6. Control' /\ Budget'
      BY <1>1, <2>1, <2>2 DEF RunInv, Control, Budget, Phases
    <2> QED
      BY <2>3, <2>4, <2>5, <2>6 DEF RunInv, Queues
  <1>5. CASE worker.res # Raised
    <2>1. PICK s : s = RoutedSoFar
      OBVIOUS
    <2>2. RouteOK(s) /\ s.status = "RUNNING" /\ s.minted = minted
      <3>1. /\ IsRoute(s) /\ s.frontier = frontier /\ s.arrivals = arrivals
            /\ s.minted = minted /\ s.status = "RUNNING" /\ s.merges = merges
        BY <2>1 DEF RoutedSoFar, IsRoute
      <3> QED
        BY <3>1, RouteStarts DEF RunInv, Queues, Merging
    <2>3. /\ Grown /\ Minting' /\ status' \in Statuses /\ frontier' \in Seq(Known')
          /\ Arrived' /\ Merging' /\ Records' /\ SettledOnce' /\ SettledTwiceStops'
      BY <1>1, <1>2, <1>3, <1>5, <2>1, <2>2, RecordingKeeps
    <2>4. Known \subseteq Known' /\ Merges' = Merges
      BY <2>3, NodesStay
    <2>5. Workers' /\ ActiveIds' = ActiveIds \ {Head(due)}
      BY <1>1, <2>4, CollectedStep DEF RunInv, Queues
    <2>6. Snapshot'
      BY <1>1, <2>5, TailStep DEF RunInv, Queues
    <2>7. Control' /\ Budget'
      BY <1>1, <1>2, <1>5, <2>3 DEF RunInv, Control, Budget, Phases, Goto
    <2> QED
      BY <1>1, <2>3, <2>5, <2>6, <2>7 DEF RunInv, Queues
  <1> QED
    BY <1>4, <1>5

\* The steps of the runner that record nothing and keep the queues, or empty
\* the frontier, or end a pass of the loop.
LEMMA LoopKeeps ==
  ASSUME RunInv, LookAround \/ DispatchEnds \/ MainMoved \/ Crash \/ Decide \/ Recover
  PROVE  RunInv'
  <1>1. /\ UNCHANGED <<graphVars, completed, arrivals, merges, cycle, calls>>
        /\ frontier' \in {frontier, <<>>}
    BY DEF LookAround, DispatchEnds, MainMoved, Crash, Decide, Recover, budgetVars,
           routeVars, queueVars
  <1>2. /\ status' \in Statuses /\ (status' = "RUNNING" => status = "RUNNING")
        /\ status' = status \/ status \notin {"BLOCKED", "INVALID"}
    BY DEF LookAround, DispatchEnds, MainMoved, Crash, Decide, Recover, StopWith, Statuses,
           Settled, RunInv, Control
  <1>3. /\ Grown /\ flow' \in DOMAIN Workflows /\ Known' = Known /\ Merges' = Merges
        /\ Minting' /\ Records' /\ SettledOnce' /\ SettledTwiceStops'
        /\ Arrived' /\ Merging' /\ (active' = active => Workers')
        /\ (UNCHANGED <<active, due>> => Snapshot')
    BY <1>1, <1>2, QuietStep
  <1>4. frontier' \in Seq(Known') /\ Budget'
    <2>1. frontier \in Seq(Known) /\ <<>> \in Seq(Known)
      BY DEF RunInv, Queues
    <2> QED
      BY <1>1, <1>3, <2>1 DEF RunInv, Budget
  <1>5. <<>> \in Seq(ActiveIds') /\ DOMAIN <<>> = {}
    OBVIOUS
  <1>6. Workers' /\ Snapshot'
    <2>1. CASE LookAround \/ DispatchEnds \/ Decide \/ Recover
      BY <1>3, <2>1 DEF LookAround, DispatchEnds, Decide, Recover, queueVars
    <2>2. CASE MainMoved
      <3>1. due' = <<>> /\ (active' = active \/ active' = Without(Head(due)))
        BY <2>2 DEF MainMoved
      <3>2. Workers'
        BY <1>3, <3>1, CollectedStep DEF RunInv, Queues
      <3> QED
        BY <1>5, <3>1, <3>2 DEF Snapshot
    <2>3. CASE Crash
      <3>1. due' = <<>> /\ active' = <<>> /\ DOMAIN active' = {}
        BY <2>3 DEF Crash
      <3>2. active' \in Seq(Elements(active')) /\ Elements(active') = {}
        BY <3>1 DEF Elements
      <3> QED
        BY <1>5, <3>1, <3>2 DEF Workers, Snapshot
    <2> QED
      BY <2>1, <2>2, <2>3
  <1>7. Control'
    BY <1>2, <1>3 DEF LookAround, DispatchEnds, MainMoved, Crash, Decide, Recover, StopWith,
                      RunInv, Control, Phases, mergeVars
  <1> QED
    BY <1>3, <1>4, <1>6, <1>7 DEF RunInv, Queues

LEMMA DispatchKeeps ==
  ASSUME RunInv, pc = "dispatch", NEW i \in Turn,
         DispatchUnmet(i) \/ (\E inTime \in BOOLEAN : DispatchWorker(i, inTime))
           \/ DispatchMerge(i)
  PROVE  RunInv'
  <1>1. /\ UNCHANGED <<graphVars, completed, arrivals, merges, due>>
        /\ status = "RUNNING" /\ merging = NoNode
    BY DEF DispatchUnmet, DispatchWorker, DispatchMerge, routeVars, queueVars, RunInv, Control
  <1>2. status' \in {"RUNNING", "INVALID", "WORKFLOW_LIMIT_REACHED"} /\ status' \in Statuses
    BY <1>1 DEF DispatchUnmet, DispatchWorker, DispatchMerge, StopWith, Statuses, Settled
  <1>3. /\ Grown /\ flow' \in DOMAIN Workflows /\ Known' = Known /\ Merges' = Merges
        /\ Minting' /\ Records' /\ SettledOnce' /\ SettledTwiceStops'
        /\ Arrived' /\ Merging' /\ (active' = active => Workers')
        /\ (UNCHANGED <<active, due>> => Snapshot')
        /\ (frontier' = frontier => frontier' \in Seq(Known'))
    BY <1>1, <1>2, QuietStep
  <1>4. i \in DOMAIN frontier /\ frontier \in Seq(Known) /\ frontier[i] \in Known
    BY DEF Turn, RunInv, Queues
  <1>5. RemoveAt(frontier, i) \in Seq(Known)
    BY <1>4, RemoveElements
  <1>6. CASE DispatchUnmet(i)
    <2>1. UNCHANGED <<queueVars, budgetVars, merging>> /\ pc' = "off"
      BY <1>6 DEF DispatchUnmet, StopWith, mergeVars
    <2> QED
      BY <1>1, <1>2, <1>3, <2>1 DEF RunInv, Queues, Control, Budget, Phases, queueVars, budgetVars
  <1>7. CASE \E inTime \in BOOLEAN : DispatchWorker(i, inTime)
    <2>1. /\ frontier' = RemoveAt(frontier, i) /\ merging' = merging
          /\ \/ /\ \E res : active' = Enrolled([id |-> frontier[i], res |-> res])
                /\ cycle' \in {cycle, cycle + 1} /\ calls' \in {calls, calls + 1}
                /\ status' = status /\ pc' = pc
             \/ pc' = "off" /\ status' # "RUNNING" /\ UNCHANGED <<active, cycle, calls>>
      BY <1>7 DEF DispatchWorker, StopWith, mergeVars, budgetVars
    <2>2. Workers' /\ Snapshot'
      <3>1. CASE active' = active
        BY <1>1, <1>3, <3>1
      <3>2. CASE active' # active
        <4>1. PICK worker : active' = Enrolled(worker) /\ DOMAIN worker = {"id", "res"}
                            /\ worker.id = frontier[i]
          <5>1. PICK res : active' = Enrolled([id |-> frontier[i], res |-> res])
            BY <2>1, <3>2
          <5>2. PICK worker : worker = [id |-> frontier[i], res |-> res]
            OBVIOUS
          <5> QED
            BY <5>1, <5>2
        <4>2. Workers' /\ ActiveIds' = ActiveIds \cup {worker.id}
          BY <1>3, <1>4, <4>1, EnrolledStep DEF RunInv, Queues
        <4> QED
          BY <1>1, <4>2 DEF RunInv, Queues, Snapshot
      <3> QED
        BY <3>1, <3>2
    <2>3. frontier' \in Seq(Known')
      BY <1>3, <1>5, <2>1
    <2>4. Budget' /\ Control'
      BY <1>1, <1>2, <1>3, <2>1 DEF RunInv, Control, Budget, Phases
    <2> QED
      BY <1>3, <2>2, <2>3, <2>4 DEF RunInv, Queues
  <1>8. CASE DispatchMerge(i)
    <2>1. /\ frontier' = RemoveAt(frontier, i) /\ merging' = frontier[i] /\ pc' = "merge"
          /\ UNCHANGED <<active, due, budgetVars, status>>
      BY <1>8 DEF DispatchMerge
    <2>2. merging' \in Merges
      <3>1. Node(frontier[i]).type = "MERGE"
        BY <1>8 DEF DispatchMerge
      <3> QED
        BY <1>4, <2>1, <3>1 DEF Merges, Node, Known, RunInv, Minting
    <2>3. Budget' /\ Control'
      BY <1>1, <1>2, <1>3, <2>1, <2>2 DEF RunInv, Control, Budget, Phases, budgetVars
    <2> QED
      BY <1>3, <1>5, <2>1, <2>3 DEF RunInv, Queues
  <1> QED
    BY <1>6, <1>7, <1>8

LEMMA DispatchGateKeeps ==
  ASSUME RunInv, pc = "dispatch", NEW i \in Turn, DispatchGate(i)
  PROVE  RunInv'
  <1>1. /\ flow' = flow /\ cycle' = cycle /\ calls' = calls /\ merging' = merging /\ pc' = "off"
        /\ status = "RUNNING" /\ merging = NoNode /\ active' = active /\ due' = due
    BY DEF DispatchGate, RunInv, Control, budgetVars, mergeVars
  <1>2. i \in DOMAIN frontier /\ frontier \in Seq(Known) /\ frontier[i] \in Known
    BY DEF Turn, RunInv, Queues
  <1>3. RemoveAt(frontier, i) \in Seq(Known)
    BY <1>2, RemoveElements
  <1>4. PICK s : s = [RoutedSoFar EXCEPT !.frontier = RemoveAt(frontier, i)]
    OBVIOUS
  <1>5. RouteOK(s) /\ s.status = "RUNNING" /\ s.minted = minted
    <2>1. /\ IsRoute(s) /\ s.frontier \in Seq(Known) /\ s.arrivals = arrivals
          /\ s.minted = minted /\ s.status = "RUNNING" /\ s.merges = merges
      BY <1>3, <1>4 DEF RoutedSoFar, IsRoute
    <2> QED
      BY <2>1, RouteStarts DEF RunInv, Merging
  <1>6. RecordCompletion(s, Node(frontier[i]), Passed)
    BY <1>4 DEF DispatchGate
  <1>7. /\ Grown /\ Minting' /\ status' \in Statuses /\ frontier' \in Seq(Known')
        /\ Arrived' /\ Merging' /\ Records' /\ SettledOnce' /\ SettledTwiceStops'
    BY <1>1, <1>2, <1>5, <1>6, RecordingKeeps
  <1>8. Known \subseteq Known'
    BY <1>7, NodesStay
  <1>9. Workers' /\ Snapshot'
    BY <1>1, <1>8 DEF RunInv, Queues, Workers, Snapshot, ActiveIds
  <1>10. Control' /\ Budget'
    BY <1>1, <1>7 DEF RunInv, Control, Budget, Phases
  <1> QED
    BY <1>1, <1>7, <1>9, <1>10 DEF RunInv, Queues

\* A merge that stops, and one that touches files.
LEMMA MergeKeeps ==
  ASSUME RunInv, MergeRefused \/ MergePrepares \/ MergeWrites \/ MergeCommits \/ MergeFails
  PROVE  RunInv'
  <1>1. /\ UNCHANGED <<graphVars, queueVars, completed, arrivals, cycle, calls>>
        /\ pc \in {"merge", "merged", "committed"} /\ status = "RUNNING" /\ merging \in Merges
    BY DEF MergeRefused, MergePrepares, MergeWrites, MergeCommits, MergeFails, MergeStops,
           budgetVars, routeVars, RunInv, Control
  <1>2. \/ /\ UNCHANGED <<status, merges, merging>> /\ pc' \in {"merge", "merged", "committed"}
        \/ /\ status' \in {"INVALID", "BLOCKED"} /\ pc' = "off" /\ merging' = NoNode
           /\ merges' = [merges EXCEPT ![merging] = "MERGED"]
    <2>1. ASSUME NEW verdict \in {"INVALID", "BLOCKED"}, MergeStops(verdict)
          PROVE  /\ status' \in {"INVALID", "BLOCKED"} /\ pc' = "off" /\ merging' = NoNode
                 /\ merges' = [merges EXCEPT ![merging] = "MERGED"]
      BY <2>1 DEF MergeStops, StopWith
    <2>2. MergeRefused \/ MergeFails => \E verdict \in {"INVALID", "BLOCKED"} : MergeStops(verdict)
      BY DEF MergeRefused, MergeFails
    <2>3. MergePrepares \/ MergeWrites \/ MergeCommits =>
            UNCHANGED <<status, merges, merging>> /\ pc' \in {"merge", "merged", "committed"}
      BY DEF MergePrepares, MergeWrites, MergeCommits, routeVars
    <2> QED
      BY <2>1, <2>2, <2>3
  <1>3. status' \in Statuses
    BY <1>1, <1>2 DEF Statuses, Settled
  <1>4. /\ Grown /\ flow' \in DOMAIN Workflows /\ Merges' = Merges
        /\ Minting' /\ Records' /\ SettledOnce' /\ SettledTwiceStops'
        /\ frontier' \in Seq(Known') /\ Workers' /\ Snapshot' /\ Arrived'
    BY <1>1, <1>2, <1>3, QuietStep DEF queueVars
  <1>5. Merging'
    BY <1>1, <1>2, <1>4 DEF RunInv, Merging
  <1>6. Control' /\ Budget'
    BY <1>1, <1>2, <1>3, <1>4 DEF RunInv, Control, Budget, Phases
  <1> QED
    BY <1>4, <1>5, <1>6 DEF RunInv, Queues

LEMMA MergeCompletesKeeps ==
  ASSUME RunInv, MergeCompletes
  PROVE  RunInv'
  <1>1. /\ flow' = flow /\ cycle' = cycle /\ calls' = calls /\ merging' = NoNode
        /\ pc' = IF status' = "RUNNING" THEN "head" ELSE "off"
        /\ status = "RUNNING" /\ merging \in Merges /\ active' = active /\ due' = due
    BY DEF MergeCompletes, RunInv, Control, budgetVars, Goto
  <1>2. PICK s : s = [RoutedSoFar EXCEPT !.merges[merging] = "MERGED"]
    OBVIOUS
  <1>3. RouteOK(s) /\ s.status = "RUNNING" /\ s.minted = minted
    <2>1. /\ IsRoute(s) /\ s.frontier = frontier /\ s.arrivals = arrivals /\ s.minted = minted
          /\ s.status = "RUNNING" /\ s.merges = [merges EXCEPT ![merging] = "MERGED"]
      BY <1>2 DEF RoutedSoFar, IsRoute
    <2>2. s.merges \in [Merges -> {"WAITING", "READY", "MERGED", "BLOCKED"}]
      BY <2>1 DEF RunInv, Merging
    <2> QED
      BY <2>1, <2>2, RouteStarts DEF RunInv, Queues
  <1>4. RecordCompletion(s, Node(merging), Passed)
    BY <1>2 DEF MergeCompletes
  <1>5. merging \in Known
    BY <1>1 DEF Merges, Known
  <1>6. /\ Grown /\ Minting' /\ status' \in Statuses /\ frontier' \in Seq(Known')
        /\ Arrived' /\ Merging' /\ Records' /\ SettledOnce' /\ SettledTwiceStops'
    BY <1>1, <1>3, <1>4, <1>5, RecordingKeeps
  <1>7. Known \subseteq Known'
    BY <1>6, NodesStay
  <1>8. Workers' /\ Snapshot'
    BY <1>1, <1>7 DEF RunInv, Queues, Workers, Snapshot, ActiveIds
  <1>9. Control' /\ Budget'
    BY <1>1, <1>6 DEF RunInv, Control, Budget, Phases
  <1> QED
    BY <1>1, <1>6, <1>8, <1>9 DEF RunInv, Queues

LEMMA WorkersKeep ==
  ASSUME RunInv, Finish \/ Cancel
  PROVE  RunInv'
  <1>1. /\ UNCHANGED <<graphVars, frontier, due, completed, arrivals, merges, cycle, calls,
                      merging, status, pc>>
    BY DEF Finish, Cancel, routeVars, budgetVars, mergeVars
  <1>2. /\ Grown /\ flow' \in DOMAIN Workflows /\ Known' = Known /\ Merges' = Merges
        /\ Minting' /\ Records' /\ SettledOnce' /\ SettledTwiceStops'
        /\ frontier' \in Seq(Known') /\ Arrived' /\ Merging'
    BY <1>1, QuietStep DEF RunInv, Control
  <1>4. /\ DOMAIN active' = DOMAIN active /\ active \in Seq(Elements(active))
        /\ \A i \in DOMAIN active : /\ DOMAIN active'[i] = {"id", "res"}
                                    /\ active'[i].id = active[i].id
    BY WorkersStay DEF RunInv, Queues, Workers
  <1>5. active' \in Seq(Elements(active'))
    <2>1. active' = [i \in 1..Len(active) |-> active'[i]]
      <3>1. DOMAIN active = 1..Len(active)
        BY <1>4
      <3>2. Finish \/ Cancel => active' = [i \in DOMAIN active |-> active'[i]]
        BY <1>4 DEF Finish, Cancel
      <3> QED
        BY <3>1, <3>2
    <2>2. Len(active) \in Nat
      BY <1>4
    <2>3. \A i \in 1..Len(active) : active'[i] \in Elements(active')
      BY <1>4 DEF Elements
    <2> QED
      BY <2>1, <2>2, <2>3
  <1>6. Workers' /\ ActiveIds' = ActiveIds
    BY <1>2, <1>4, <1>5, SameWorkersStep DEF RunInv, Queues
  <1>7. Snapshot'
    BY <1>1, <1>6 DEF RunInv, Queues, Snapshot
  <1>8. Control' /\ Budget'
    BY <1>1, <1>2 DEF RunInv, Control, Budget
  <1> QED
    BY <1>2, <1>6, <1>7, <1>8 DEF RunInv, Queues

LEMMA HighestIs ==
  ASSUME NEW S, NEW s \in Seq(S), \A i \in DOMAIN s : s[i].cycle \in Nat
  PROVE  Highest({rec.cycle : rec \in Elements(s)}) \in Nat
  <1> DEFINE numbers == {rec.cycle : rec \in Elements(s)}
             Top(k, n) == /\ k \in numbers \cup {0}
                          /\ \A i \in 1..n : s[i].cycle <= k
             T == {n \in Nat : n <= Len(s) => \E k : Top(k, n)}
  <1>1. Len(s) \in Nat /\ DOMAIN s = 1..Len(s)
    OBVIOUS
  <1>2. numbers \subseteq Nat /\ \A i \in DOMAIN s : s[i].cycle \in numbers
    BY DEF Elements
  <1>3. 0 \in T
    <2>1. Top(0, 0)
      OBVIOUS
    <2> QED
      BY <2>1
  <1>4. ASSUME NEW n \in Nat, n \in T PROVE n + 1 \in T
    <2> SUFFICES ASSUME n + 1 <= Len(s) PROVE \E k : Top(k, n + 1)
      OBVIOUS
    <2>1. PICK k : Top(k, n)
      BY <1>1, <1>4
    <2>2. k \in Nat /\ s[n + 1].cycle \in numbers
      BY <1>1, <1>2, <2>1
    <2> HIDE DEF numbers
    <2>3. CASE s[n + 1].cycle <= k
      <3>1. Top(k, n + 1)
        BY <1>1, <2>1, <2>3
      <3> QED
        BY <3>1
    <2>4. CASE ~(s[n + 1].cycle <= k)
      <3>1. \A i \in 1..n : s[i].cycle \in Nat
        BY <1>1
      <3>2. Top(s[n + 1].cycle, n + 1)
        BY <1>1, <1>2, <2>1, <2>2, <2>4, <3>1
      <3> QED
        BY <3>2
    <2> QED
      BY <2>3, <2>4
  <1>5. Nat \subseteq T
    <2> HIDE DEF T
    <2> QED
      BY <1>3, <1>4, Induction
  <1>6. PICK k : Top(k, Len(s))
    <2>1. Len(s) \in T
      BY <1>1, <1>5
    <2> HIDE DEF Top
    <2> QED
      BY <1>1, <2>1
  <1>7. \A j \in numbers : j <= k
    BY <1>1, <1>6 DEF Elements
  <1> HIDE DEF numbers
  <1>8. \E j \in numbers \cup {0} : \A i \in numbers : i <= j
    BY <1>6, <1>7
  <1>9. Highest(numbers) \in numbers \cup {0}
    BY <1>8 DEF Highest
  <1> QED
    BY <1>2, <1>9 DEF numbers

LEMMA ResumeKeeps ==
  ASSUME RunInv, NEW t \in Declared, Resume(t)
  PROVE  RunInv'
  <1>0. PICK inherited : /\ \E reset : inherited = Inherited(reset)
                         /\ SeedFromResume(t, inherited)
    BY DEF Resume
  <1>1. PICK ids :
          /\ ids = {rec.id : rec \in Elements(inherited)}
          /\ completed' = [i \in DOMAIN inherited |-> [inherited[i] EXCEPT !.here = FALSE]]
          /\ calls' = Cardinality({i \in DOMAIN inherited : inherited[i].type \in LlmTypes})
          /\ cycle' = Highest({rec.cycle : rec \in Elements(inherited)})
          /\ minted' = [m \in DOMAIN minted \cap ids |-> minted[m]]
          /\ arrivals' = [n \in {t} |-> [i \in DOMAIN inherited |->
               [edge |-> Seed, from |-> inherited[i].id, status |-> "ACCEPTED"]]]
    BY <1>0 DEF SeedFromResume
  <1>2. /\ frontier' = <<t>> /\ active' = <<>> /\ due' = <<>> /\ flow' = flow
        /\ merges' = [m \in Merges |-> "WAITING"] /\ status' = "RUNNING" /\ pc' = "head"
        /\ merging' = NoNode
    BY <1>0 DEF Resume, SeedFromResume, RunInv, Control, mergeVars
  <1>3. /\ inherited \in Seq(Elements(completed))
        /\ Elements(inherited) \subseteq Elements(completed)
    <2>1. PICK reset : inherited = Inherited(reset)
      BY <1>0
    <2>2. PICK keep : inherited = Picked(completed, keep)
      BY <2>1 DEF Inherited
    <2>3. completed \in Seq(Elements(completed))
      BY DEF RunInv, Records
    <2>4. PickedFrom(inherited, completed, keep, Len(completed))
      BY <2>2, <2>3, PickedIs
    <2> QED
      BY <2>4 DEF PickedFrom, Elements
  <1>4. \A i \in DOMAIN inherited :
          /\ DOMAIN inherited[i] = {"id", "type", "res", "cycle", "here"}
          /\ inherited[i].id \in Known \cap ids /\ inherited[i].cycle \in Nat
          /\ inherited[i].type = Node(inherited[i].id).type
    BY <1>1, <1>3 DEF Elements, RunInv, Records
  <1>5. /\ Flow' = Flow /\ Declared' = Declared /\ Merges' = Merges
        /\ DOMAIN minted' = DOMAIN minted \cap ids
        /\ \A b \in DOMAIN minted' : minted'[b] = minted[b]
    BY <1>1, <1>2 DEF Flow, Declared, Merges
  <1>6. Known \cap ids \subseteq Known' /\ t \in Known'
    BY <1>5 DEF Known
  <1>7. \A n \in Known \cap ids : (Node(n))' = Node(n)
    BY <1>5 DEF Node, Known
  <1>8. Minting'
    <2>1. IsFiniteSet(DOMAIN minted')
      BY <1>5, FS_Subset DEF RunInv, Minting
    <2> QED
      BY <1>5, <2>1 DEF RunInv, Minting
  <1>9. /\ DOMAIN completed' = DOMAIN inherited
        /\ \A i \in DOMAIN inherited :
             /\ DOMAIN completed'[i] = {"id", "type", "res", "cycle", "here"}
             /\ completed'[i].id = inherited[i].id /\ completed'[i].cycle = inherited[i].cycle
             /\ completed'[i].type = inherited[i].type /\ completed'[i].here = FALSE
    BY <1>1, <1>4
  <1>10. Records'
    <2>1. completed' \in Seq(Elements(completed'))
      <3>1. Len(inherited) \in Nat /\ DOMAIN inherited = 1..Len(inherited)
        BY <1>3
      <3>2. completed' = [i \in 1..Len(inherited) |-> completed'[i]]
        BY <1>1, <1>9, <3>1
      <3>3. \A i \in 1..Len(inherited) : completed'[i] \in Elements(completed')
        BY <1>9, <3>1 DEF Elements
      <3> QED
        BY <3>1, <3>2, <3>3
    <2>2. \A rec \in Elements(completed') : \E i \in DOMAIN inherited : rec = completed'[i]
      BY <1>9 DEF Elements
    <2>3. ASSUME NEW rec \in Elements(completed')
          PROVE  /\ DOMAIN rec = {"id", "type", "res", "cycle", "here"} /\ rec.cycle \in Nat
                 /\ rec.id \in Known \cap ids /\ rec.type = Node(rec.id).type
      <3>1. PICK i \in DOMAIN inherited : rec = completed'[i]
        BY <2>2
      <3>2. /\ DOMAIN rec = {"id", "type", "res", "cycle", "here"}
            /\ rec.id = inherited[i].id /\ rec.cycle = inherited[i].cycle
            /\ rec.type = inherited[i].type
        BY <1>9, <3>1
      <3> QED
        BY <1>4, <3>2
    <2>4. ASSUME NEW rec \in Elements(completed')
          PROVE  rec.id \in Known' /\ rec.type = (Node(rec.id).type)'
      BY <1>6, <1>7, <2>3
    <2> QED
      BY <2>1, <2>3, <2>4 DEF Records
  <1>11. Arrived'
    <2>1. PICK rows : rows = [i \in DOMAIN inherited |->
                         [edge |-> Seed, from |-> inherited[i].id, status |-> "ACCEPTED"]]
      OBVIOUS
    <2>2. rows \in Seq(Elements(rows))
      BY <1>3, <2>1 DEF Elements
    <2>3. DOMAIN arrivals' = {t} /\ arrivals'[t] = rows
      BY <1>1, <2>1
    <2> QED
      BY <1>6, <2>2, <2>3 DEF Arrived, RowsOK
  <1>12. Budget'
    <2>1. calls' \in Nat
      <3>1. IsFiniteSet(1..Len(inherited)) /\ DOMAIN inherited = 1..Len(inherited)
        BY <1>3, FS_Interval
      <3>2. IsFiniteSet({i \in DOMAIN inherited : inherited[i].type \in LlmTypes})
        BY <3>1, FS_Subset
      <3> QED
        BY <1>1, <3>2, FS_CardinalityType
    <2>2. cycle' \in Nat
      BY <1>1, <1>3, <1>4, HighestIs
    <2> QED
      BY <2>1, <2>2 DEF Budget
  <1>13. Queues'
    <2>1. DOMAIN active' = {} /\ DOMAIN due' = {} /\ frontier' \in Seq(Known')
      BY <1>2, <1>6
    <2>2. active' \in Seq(Elements(active')) /\ due' \in Seq(ActiveIds') /\ Elements(active') = {}
      BY <1>2, <2>1 DEF Elements
    <2> QED
      BY <2>1, <2>2 DEF Queues, Workers, Snapshot
  <1>14. Merging' /\ Control'
    BY <1>2, <1>5 DEF Merging, Control, Statuses, Phases
  <1>15. SettledOnce' /\ SettledTwiceStops'
    <2>1. ~Twice' /\ \A rec \in Elements(completed') : rec.here = FALSE
      BY <1>9 DEF Twice, Elements
    <2> QED
      BY <2>1 DEF SettledOnce, SettledTwiceStops
  <1> QED
    BY <1>2, <1>8, <1>10, <1>11, <1>12, <1>13, <1>14, <1>15 DEF RunInv

LEMMA RunInvNext == RunInv /\ [Next]_vars => RunInv'
  <1> SUFFICES ASSUME RunInv, [Next]_vars PROVE RunInv'
    OBVIOUS
  <1>1. CASE Harvest
    BY <1>1, HarvestKeeps
  <1>2. CASE Record
    BY <1>2, RecordKeeps
  <1>3. CASE LookAround \/ DispatchEnds \/ MainMoved \/ Crash \/ Decide \/ Recover
    BY <1>3, LoopKeeps
  <1>4. CASE Dispatch
    <2>1. PICK i \in Turn : \/ DispatchUnmet(i)
                            \/ \E inTime \in BOOLEAN : DispatchWorker(i, inTime)
                            \/ DispatchGate(i)
                            \/ DispatchMerge(i)
      BY <1>4 DEF Dispatch
    <2>2. pc = "dispatch"
      BY <1>4 DEF Dispatch
    <2> QED
      BY <2>1, <2>2, DispatchKeeps, DispatchGateKeeps
  <1>5. CASE Merge \/ MergeFails
    BY <1>5, MergeKeeps, MergeCompletesKeeps DEF Merge
  <1>6. CASE Finish \/ Cancel
    BY <1>6, WorkersKeep
  <1>7. CASE \E t \in Declared : Resume(t)
    BY <1>7, ResumeKeeps
  <1>8. CASE UNCHANGED vars
    <2>1. /\ UNCHANGED <<graphVars, frontier, active, due, completed, arrivals, merges, cycle,
                        calls, status, pc, merging>>
      BY <1>8 DEF vars, queueVars, routeVars, budgetVars, mergeVars
    <2>2. /\ flow' \in DOMAIN Workflows /\ Merges' = Merges
          /\ Minting' /\ Records' /\ SettledOnce' /\ SettledTwiceStops'
          /\ frontier' \in Seq(Known') /\ Workers' /\ Snapshot' /\ Arrived' /\ Merging'
      BY <2>1, QuietStep DEF RunInv, Control
    <2>3. Control' /\ Budget'
      BY <2>1, <2>2 DEF RunInv, Control, Budget
    <2> QED
      BY <2>2, <2>3 DEF RunInv, Queues
  <1> QED
    BY <1>1, <1>2, <1>3, <1>4, <1>5, <1>6, <1>7, <1>8 DEF Next, Loop

(* A node that settles twice in one run stops the run, in every valid       *)
(* workflow and whatever the workers bring: no second decision of a node    *)
(* reaches the frontier (_record_node_completion).                          *)
THEOREM SettledTwiceStopsHolds == Spec => []SettledTwiceStops
  <1>1. RunInv => SettledTwiceStops
    BY DEF RunInv
  <1> QED
    BY <1>1, RunInvInit, RunInvNext, PTL DEF Spec

-----------------------------------------------------------------------------
(* NOTHING IS FORGOTTEN.                                                    *)
LEMMA OnItsWayStays ==
  ASSUME Grown, CompletedIds \cup Pending \subseteq CompletedIds' \cup Pending',
         NEW n, NEW e, OnItsWay(n, e)
  PROVE  OnItsWay(n, e)'
  <1>1. Merges' = Merges
    BY NodesStay
  <1>2. CASE e.to # Stop /\ e.kind = "REPAIR"
    <2>1. PICK b \in DOMAIN minted : minted[b].origin = n /\ b \in CompletedIds \cup Pending
      BY <1>2 DEF OnItsWay
    <2>2. b \in DOMAIN minted' /\ minted'[b].origin = n /\ b \in CompletedIds' \cup Pending'
      BY <2>1 DEF Grown
    <2> QED
      BY <1>2, <2>2 DEF OnItsWay
  <1>3. CASE e.to = Stop \/ e.kind # "REPAIR"
    BY <1>1, <1>3 DEF OnItsWay
  <1> QED
    BY <1>2, <1>3

\* A step that records nothing and takes nothing out of the queues.
LEMMA KeptOnItsWay ==
  ASSUME RunInv, NothingForgotten, pc # "off", UNCHANGED <<graphVars, completed, merges>>,
         Pending \subseteq Pending'
  PROVE  NothingForgotten'
  <1>1. Grown /\ completed' = completed
    BY DEF graphVars, Grown
  <1>2. /\ Merges' = Merges /\ CompletedIds' = CompletedIds
        /\ \A n \in Known : (Node(n))' = Node(n)
    BY <1>1, NodesStay DEF CompletedIds
  <1>3. ASSUME NEW rec \in Elements(completed), rec.here,
               NEW e \in Elements(Selected(Node(rec.id), rec.res))
        PROVE  OnItsWay(rec.id, e)'
    <2>1. OnItsWay(rec.id, e)
      BY <1>3 DEF NothingForgotten
    <2> QED
      BY <1>1, <1>2, <2>1, OnItsWayStays
  <1>4. \A rec \in Elements(completed) : (Node(rec.id))' = Node(rec.id)
    BY <1>2 DEF RunInv, Records
  <1> QED
    BY <1>1, <1>2, <1>3, <1>4 DEF NothingForgotten

(* A result that is recorded: what it selects is on its way, and so is what *)
(* was on its way before.                                                   *)
LEMMA RecordingForgetsNothing ==
  ASSUME RunInv, NothingForgotten, pc # "off", flow' = flow,
         NEW s, RouteOK(s), s.status = "RUNNING", s.minted = minted,
         NEW n \in Known, NEW r, RecordCompletion(s, Node(n), r),
         CompletedIds \cup Pending \subseteq CompletedIds \cup {n} \cup Elements(s.frontier)
                                               \cup ActiveIds' \cup ({merging'} \ {NoNode}),
         \A m \in Merges : s.merges[m] = "MERGED" => merges[m] = "MERGED" \/ m = n
  PROVE  status' # "COMPLETED" /\ (status' = "RUNNING" => NothingForgotten')
  <1>1. PICK node : node = Node(n)
    OBVIOUS
  <1>2. node.id = n /\ n \in Ids /\ ValidNode(node, Flow.nodes)
    BY <1>1, NodeOK DEF RunInv
  <1>3. PICK t : RecordedAs(s, t, node, r)
    BY <1>1, <1>2, RecordCompletionStep DEF RunInv
  <1>4. status' # "COMPLETED" /\ Grown
    BY <1>3 DEF RecordedAs, Extended, Grown
  <1> SUFFICES ASSUME status' = "RUNNING" PROVE NothingForgotten'
    BY <1>4
  <1>5. /\ Merges' = Merges /\ Declared' = Declared /\ \A m \in Known : (Node(m))' = Node(m)
    BY <1>4, NodesStay
  <1>6. PICK new : new = Record1(node, r)
    OBVIOUS
  <1>7. /\ completed' = Append(completed, new) /\ completed \in Seq(Elements(completed))
        /\ new.id = n /\ new.res = r
    BY <1>1, <1>2, <1>6 DEF RecordCompletion, Record1, RunInv, Records
  <1>8. Elements(completed') = Elements(completed) \cup {new}
    BY <1>7, AppendElements
  <1>9. CompletedIds' = CompletedIds \cup {n}
    BY <1>7, <1>8 DEF CompletedIds
  <1>10. Elements(s.frontier) \subseteq Elements(frontier')
    BY <1>3 DEF RecordedAs, Extended
  <1>11. CompletedIds \cup Pending \subseteq CompletedIds' \cup Pending'
    BY <1>9, <1>10 DEF Pending
  <1>12. ASSUME NEW rec \in Elements(completed), rec.here,
                NEW e \in Elements(Selected(Node(rec.id), rec.res))
         PROVE  OnItsWay(rec.id, e)'
    <2>1. OnItsWay(rec.id, e)
      BY <1>12 DEF NothingForgotten
    <2> QED
      BY <1>4, <1>11, <2>1, OnItsWayStays
  <1>13. ASSUME NEW e \in Elements(Selected(node, r))
         PROVE  OnItsWay(n, e)'
    <2>1. Led(t, n, e, CompletedIds \cup {n})
      BY <1>2, <1>3 DEF RecordedAs
    <2>2. minted' = t.minted /\ Elements(frontier') = Elements(t.frontier)
      BY <1>3 DEF RecordedAs
    <2> QED
      BY <1>5, <1>9, <2>1, <2>2 DEF Led, OnItsWay, Pending
  <1>14. \A m \in Merges : merges'[m] = "MERGED" => m \in CompletedIds'
    BY <1>3, <1>9 DEF RecordedAs, Extended, NothingForgotten
  <1>15. \A rec \in Elements(completed) : (Node(rec.id))' = Node(rec.id)
    BY <1>5 DEF RunInv, Records
  <1>16. (Node(n))' = node
    BY <1>1, <1>5
  <1> QED
    BY <1>5, <1>7, <1>8, <1>12, <1>13, <1>14, <1>15, <1>16 DEF NothingForgotten

WholeInv == RunInv /\ NothingForgotten /\ CompletedIsWhole

LEMMA HarvestForgetsNothing ==
  ASSUME RunInv, NothingForgotten, Harvest
  PROVE  NothingForgotten' /\ CompletedIsWhole'
  <1>1. pc # "off" /\ status = "RUNNING" /\ merging = NoNode
        /\ UNCHANGED <<graphVars, completed, frontier, active, merging>>
    BY DEF Harvest, RunInv, Control, mergeVars
  <1>2. CASE frontier = <<>> /\ active = <<>>
    <2>1. pc' = "off" /\ (status' = "COMPLETED" => Unmerged = {})
      BY <1>2 DEF Harvest, StopWith
    <2> SUFFICES ASSUME Unmerged = {} PROVE CompletedIsWhole'
      BY <2>1 DEF NothingForgotten, CompletedIsWhole
    <2>2. Pending = {}
      BY <1>1, <1>2 DEF Pending, ActiveIds, Elements
    <2>3. Merges \subseteq CompletedIds
      BY <1>1 DEF Unmerged, NothingForgotten
    <2>4. ASSUME NEW rec \in Elements(completed), rec.here,
                 NEW e \in Elements(Selected(Node(rec.id), rec.res))
          PROVE  Followed(rec, e)
      <3>1. OnItsWay(rec.id, e)
        BY <1>1, <2>4 DEF NothingForgotten
      <3> QED
        BY <2>2, <2>3, <3>1 DEF OnItsWay, Followed
    <2>5. Grown /\ completed' = completed /\ minted' = minted
      BY <1>1 DEF Grown, graphVars
    <2>6. CompletedIds' = CompletedIds /\ \A n \in Known : (Node(n))' = Node(n)
      BY <2>5, NodesStay DEF CompletedIds
    <2>7. \A rec \in Elements(completed) : (Node(rec.id))' = Node(rec.id)
      BY <2>6 DEF RunInv, Records
    <2> QED
      BY <2>4, <2>5, <2>6, <2>7 DEF CompletedIsWhole, Followed
  <1>3. CASE ~(frontier = <<>> /\ active = <<>>)
    <2>1. merges' = merges /\ status' = status
      BY <1>3 DEF Harvest
    <2>2. Pending' = Pending
      BY <1>1 DEF Pending, ActiveIds
    <2> QED
      BY <1>1, <2>1, <2>2, KeptOnItsWay DEF CompletedIsWhole
  <1> QED
    BY <1>2, <1>3

LEMMA RecordForgetsNothing ==
  ASSUME RunInv, NothingForgotten, Record
  PROVE  NothingForgotten' /\ CompletedIsWhole'
  <1>1. /\ pc # "off" /\ merging' = merging /\ flow' = flow /\ due # <<>>
        /\ active' = Without(Head(due))
    BY DEF Record, mergeVars
  <1>2. PICK worker \in Elements(active) :
          /\ worker.id = Head(due)
          /\ \/ StopWith("CANCELLED")
             \/ /\ RecordCompletion(RoutedSoFar, Node(worker.id), worker.res)
                /\ Goto("record")
    BY <1>1, Collected DEF Record, RunInv, Queues
  <1>3. CASE StopWith("CANCELLED")
    BY <1>3 DEF StopWith, NothingForgotten, CompletedIsWhole
  <1>4. CASE RecordCompletion(RoutedSoFar, Node(worker.id), worker.res) /\ Goto("record")
    <2>1. PICK s : s = RoutedSoFar
      OBVIOUS
    <2>2. /\ IsRoute(s) /\ s.frontier = frontier /\ s.arrivals = arrivals
          /\ s.minted = minted /\ s.status = "RUNNING" /\ s.merges = merges
      BY <2>1 DEF RoutedSoFar, IsRoute
    <2>3. RouteOK(s)
      BY <2>2, RouteStarts DEF RunInv, Queues, Merging
    <2>4. worker.id \in Known
      BY DEF RunInv, Queues, Workers
    <2>5. ActiveIds' = ActiveIds \ {worker.id}
      <3>1. PICK w : w = Without(Head(due))
        OBVIOUS
      <3>2. Elements(w) = {x \in Elements(active) : x.id # Head(due)}
        BY <3>1, WithoutIs DEF RunInv, Queues
      <3> QED
        BY <1>1, <1>2, <3>1, <3>2 DEF ActiveIds
    <2>6. CompletedIds \cup Pending \subseteq
            CompletedIds \cup {worker.id} \cup Elements(s.frontier)
              \cup ActiveIds' \cup ({merging'} \ {NoNode})
      BY <1>1, <2>2, <2>5 DEF Pending
    <2>7. status' # "COMPLETED" /\ (status' = "RUNNING" => NothingForgotten')
      BY <1>1, <1>4, <2>1, <2>2, <2>3, <2>4, <2>6, RecordingForgetsNothing
    <2>8. status' # "RUNNING" => pc' = "off"
      BY <1>4 DEF Goto
    <2> QED
      BY <2>7, <2>8 DEF NothingForgotten, CompletedIsWhole
  <1> QED
    BY <1>2, <1>3, <1>4

LEMMA DispatchForgetsNothing ==
  ASSUME RunInv, NothingForgotten, Dispatch
  PROVE  NothingForgotten' /\ CompletedIsWhole'
  <1>1. PICK i \in Turn : \/ DispatchUnmet(i)
                          \/ \E inTime \in BOOLEAN : DispatchWorker(i, inTime)
                          \/ DispatchGate(i)
                          \/ DispatchMerge(i)
    BY DEF Dispatch
  <1>2. pc # "off" /\ status = "RUNNING" /\ merging = NoNode
    BY DEF Dispatch, RunInv, Control
  <1>3. i \in DOMAIN frontier /\ frontier \in Seq(Known) /\ frontier[i] \in Known
    BY DEF Turn, RunInv, Queues
  <1>4. /\ RemoveAt(frontier, i) \in Seq(Known)
        /\ Elements(frontier) \ {frontier[i]} \subseteq Elements(RemoveAt(frontier, i))
    BY <1>3, RemoveElements
  <1>5. CASE pc' = "off" /\ status' # "COMPLETED"
    BY <1>5 DEF NothingForgotten, CompletedIsWhole
  <1>6. CASE DispatchUnmet(i)
    BY <1>5, <1>6 DEF DispatchUnmet, StopWith
  <1>7. CASE \E inTime \in BOOLEAN : DispatchWorker(i, inTime)
    <2>1. \/ pc' = "off" /\ status' # "COMPLETED"
          \/ /\ frontier' = RemoveAt(frontier, i) /\ status' = status
             /\ \E worker : /\ DOMAIN worker = {"id", "res"} /\ worker.id = frontier[i]
                            /\ active' = Enrolled(worker)
      <3>1. \/ pc' = "off" /\ status' # "COMPLETED"
            \/ /\ frontier' = RemoveAt(frontier, i) /\ status' = status
               /\ active' = Enrolled([id |-> frontier[i], res |-> Started(frontier[i])])
        BY <1>7 DEF DispatchWorker, StopWith
      <3>2. PICK worker : worker = [id |-> frontier[i], res |-> Started(frontier[i])]
        OBVIOUS
      <3> QED
        BY <3>1, <3>2
    <2>2. UNCHANGED <<graphVars, completed, merges, merging>>
      BY <1>7 DEF DispatchWorker, routeVars, mergeVars
    <2>3. CASE ~(pc' = "off" /\ status' # "COMPLETED")
      <3>1. PICK worker : /\ DOMAIN worker = {"id", "res"} /\ worker.id = frontier[i]
                          /\ active' = Enrolled(worker)
        BY <2>1, <2>3
      <3>2. Known \subseteq Known'
        BY <2>2, NodesStay DEF Grown, graphVars
      <3>3. ActiveIds' = ActiveIds \cup {frontier[i]}
        BY <1>3, <3>1, <3>2, EnrolledStep DEF RunInv, Queues
      <3>4. Pending \subseteq Pending'
        BY <1>4, <2>1, <2>2, <2>3, <3>3 DEF Pending
      <3>5. NothingForgotten'
        BY <1>2, <2>2, <3>4, KeptOnItsWay
      <3> QED
        BY <1>2, <2>1, <2>3, <3>5 DEF CompletedIsWhole
    <2> QED
      BY <1>5, <2>3
  <1>8. CASE DispatchGate(i)
    <2>1. PICK s : s = [RoutedSoFar EXCEPT !.frontier = RemoveAt(frontier, i)]
      OBVIOUS
    <2>2. /\ IsRoute(s) /\ s.frontier = RemoveAt(frontier, i) /\ s.arrivals = arrivals
          /\ s.minted = minted /\ s.status = "RUNNING" /\ s.merges = merges
      BY <2>1 DEF RoutedSoFar, IsRoute
    <2>3. RouteOK(s)
      BY <1>4, <2>2, RouteStarts DEF RunInv, Merging
    <2>4. /\ RecordCompletion(s, Node(frontier[i]), Passed) /\ pc' = "off" /\ flow' = flow
          /\ active' = active /\ merging' = merging
      BY <1>8, <2>1 DEF DispatchGate, mergeVars
    <2>5. CompletedIds \cup Pending \subseteq
            CompletedIds \cup {frontier[i]} \cup Elements(s.frontier)
              \cup ActiveIds' \cup ({merging'} \ {NoNode})
      BY <1>4, <2>2, <2>4 DEF Pending, ActiveIds
    <2>6. status' # "COMPLETED"
      BY <1>2, <1>3, <2>2, <2>3, <2>4, <2>5, RecordingForgetsNothing
    <2> QED
      BY <1>5, <2>4, <2>6
  <1>9. CASE DispatchMerge(i)
    <2>1. /\ frontier' = RemoveAt(frontier, i) /\ merging' = frontier[i]
          /\ UNCHANGED <<graphVars, active, completed, merges, status>>
      BY <1>9 DEF DispatchMerge, routeVars
    <2>2. frontier[i] # NoNode
      BY <1>3, NodeOK DEF RunInv, Ids
    <2>3. Pending \subseteq Pending'
      BY <1>2, <1>4, <2>1, <2>2 DEF Pending, ActiveIds
    <2> QED
      BY <1>2, <2>1, <2>3, KeptOnItsWay DEF CompletedIsWhole
  <1> QED
    BY <1>1, <1>6, <1>7, <1>8, <1>9

LEMMA MergeForgetsNothing ==
  ASSUME RunInv, NothingForgotten, Merge \/ MergeFails
  PROVE  NothingForgotten' /\ CompletedIsWhole'
  <1>1. pc # "off" /\ status = "RUNNING" /\ merging \in Merges
    BY DEF Merge, MergeRefused, MergePrepares, MergeWrites, MergeCommits, MergeCompletes, MergeFails, RunInv,
           Control
  <1>2. CASE MergeRefused \/ MergeFails
    <2>1. pc' = "off" /\ status' # "COMPLETED"
      BY <1>2 DEF MergeRefused, MergeFails, MergeStops, StopWith
    <2> QED
      BY <2>1 DEF NothingForgotten, CompletedIsWhole
  <1>3. CASE MergePrepares \/ MergeWrites \/ MergeCommits
    <2>1. UNCHANGED <<graphVars, frontier, active, completed, merges, merging, status>>
      BY <1>3 DEF MergePrepares, MergeWrites, MergeCommits, queueVars, routeVars
    <2>2. Pending' = Pending
      BY <2>1 DEF Pending, ActiveIds
    <2> QED
      BY <1>1, <2>1, <2>2, KeptOnItsWay DEF CompletedIsWhole
  <1>4. CASE MergeCompletes
    <2>1. PICK s : s = [RoutedSoFar EXCEPT !.merges[merging] = "MERGED"]
      OBVIOUS
    <2>2. /\ IsRoute(s) /\ s.frontier = frontier /\ s.arrivals = arrivals /\ s.minted = minted
          /\ s.status = "RUNNING" /\ s.merges = [merges EXCEPT ![merging] = "MERGED"]
      BY <2>1 DEF RoutedSoFar, IsRoute
    <2>3. s.merges \in [Merges -> {"WAITING", "READY", "MERGED", "BLOCKED"}]
      BY <2>2 DEF RunInv, Merging
    <2>4. RouteOK(s)
      BY <2>2, <2>3, RouteStarts DEF RunInv, Queues
    <2>5. /\ RecordCompletion(s, Node(merging), Passed) /\ Goto("head")
          /\ UNCHANGED <<flow, active>> /\ merging' = NoNode
      BY <1>4, <2>1 DEF MergeCompletes
    <2>6. merging \in Known
      BY <1>1 DEF Merges, Known
    <2>7. CompletedIds \cup Pending \subseteq
            CompletedIds \cup {merging} \cup Elements(s.frontier)
              \cup ActiveIds' \cup ({merging'} \ {NoNode})
      BY <2>2, <2>5 DEF Pending, ActiveIds
    <2>8. \A m \in Merges : s.merges[m] = "MERGED" => merges[m] = "MERGED" \/ m = merging
      BY <2>2 DEF RunInv, Merging
    <2>9. status' # "COMPLETED" /\ (status' = "RUNNING" => NothingForgotten')
      BY <1>1, <2>2, <2>4, <2>5, <2>6, <2>7, <2>8, RecordingForgetsNothing
    <2>10. status' # "RUNNING" => pc' = "off"
      BY <2>5 DEF Goto
    <2> QED
      BY <2>9, <2>10 DEF NothingForgotten, CompletedIsWhole
  <1> QED
    BY <1>2, <1>3, <1>4 DEF Merge

LEMMA OthersForgetNothing ==
  ASSUME RunInv, NothingForgotten, CompletedIsWhole,
         \/ LookAround \/ DispatchEnds \/ MainMoved \/ Crash \/ Decide \/ Recover
         \/ Finish \/ Cancel \/ UNCHANGED vars
  PROVE  NothingForgotten' /\ CompletedIsWhole'
  <1>1. UNCHANGED <<graphVars, completed, merges, merging>> \/ Crash
    BY DEF LookAround, DispatchEnds, MainMoved, Decide, Recover, Finish, Cancel, vars,
           routeVars, mergeVars
  <1>2. UNCHANGED <<graphVars, completed>> /\ Grown /\ completed' = completed /\ minted' = minted
    BY <1>1 DEF Crash, Grown, graphVars
  <1>3. CompletedIds' = CompletedIds /\ \A n \in Known : (Node(n))' = Node(n)
    BY <1>2, NodesStay DEF CompletedIds
  <1>4. \A rec \in Elements(completed) : (Node(rec.id))' = Node(rec.id)
    BY <1>3 DEF RunInv, Records
  <1>5. status' = "COMPLETED" => status = "COMPLETED"
    BY DEF LookAround, DispatchEnds, MainMoved, Crash, Decide, Recover, Finish, Cancel, vars,
           StopWith
  <1>6. CompletedIsWhole'
    BY <1>2, <1>3, <1>4, <1>5 DEF CompletedIsWhole, Followed
  <1>7. CASE pc' = "off"
    BY <1>6, <1>7 DEF NothingForgotten
  <1>8. CASE pc' # "off"
    <2>1. pc # "off" /\ ~Crash
      BY <1>8 DEF LookAround, DispatchEnds, MainMoved, Crash, Decide, Recover, Finish, Cancel,
                  vars, StopWith
    <2>2. frontier' = frontier
      BY <1>8 DEF LookAround, DispatchEnds, MainMoved, Crash, Decide, Recover, Finish, Cancel,
                  vars, StopWith, queueVars
    <2>3. ActiveIds' = ActiveIds
      <3>1. active' = active \/ Finish \/ Cancel
        BY <1>8 DEF LookAround, DispatchEnds, MainMoved, Crash, Decide, Recover, vars,
                    StopWith, queueVars
      <3>2. Finish \/ Cancel => ActiveIds' = ActiveIds
        BY WorkersStay DEF RunInv, Queues
      <3> QED
        BY <3>1, <3>2 DEF ActiveIds
    <2>4. Pending' = Pending
      BY <1>1, <2>1, <2>2, <2>3 DEF Pending
    <2> QED
      BY <1>1, <1>6, <2>1, <2>4, KeptOnItsWay
  <1> QED
    BY <1>7, <1>8

\* What a resumed run starts with is not its own.
LEMMA ResumedRecords ==
  ASSUME RunInv, NEW t \in Declared, Resume(t)
  PROVE  \A rec \in Elements(completed') : rec.here = FALSE
  <1>1. PICK inherited : /\ \E reset : inherited = Inherited(reset)
                         /\ SeedFromResume(t, inherited)
    BY DEF Resume
  <1>2. inherited \in Seq(Elements(completed))
    <2>1. PICK keep : inherited = Picked(completed, keep)
      BY <1>1 DEF Inherited
    <2>2. completed \in Seq(Elements(completed))
      BY DEF RunInv, Records
    <2> QED
      BY <2>1, <2>2, PickedIs DEF PickedFrom
  <1>3. completed' = [i \in DOMAIN inherited |-> [inherited[i] EXCEPT !.here = FALSE]]
    BY <1>1 DEF SeedFromResume
  <1>4. \A i \in DOMAIN completed' : completed'[i].here = FALSE
    BY <1>2, <1>3 DEF RunInv, Records
  <1> QED
    BY <1>4 DEF Elements

LEMMA ResumeForgetsNothing ==
  ASSUME RunInv, NEW t \in Declared, Resume(t)
  PROVE  NothingForgotten' /\ CompletedIsWhole'
  <1>1. /\ status' = "RUNNING" /\ merges' = [m \in Merges |-> "WAITING"] /\ flow' = flow
    BY DEF Resume, SeedFromResume
  <1>2. Merges' = Merges
    BY <1>1 DEF Merges, Declared, Flow
  <1>3. \A rec \in Elements(completed') : rec.here = FALSE
    BY ResumedRecords
  <1> QED
    BY <1>1, <1>2, <1>3 DEF NothingForgotten, CompletedIsWhole

(* When a run is COMPLETED, every edge that a decision of it selected has   *)
(* led to a completed node: nothing is lost between the frontier, the       *)
(* workers, the minted branches and the merges, in any valid workflow       *)
(* (execute, apply_gate_decision).                                          *)
THEOREM CompletedIsWholeHolds == Spec => []CompletedIsWhole
  <1>1. Init => WholeInv
    <2> SUFFICES ASSUME Init PROVE NothingForgotten /\ CompletedIsWhole
      BY RunInvInit DEF WholeInv
    <2>1. Elements(completed) = {} /\ status = "RUNNING" /\ \A m \in Merges : merges[m] = "WAITING"
      BY DEF Init, Elements
    <2> QED
      BY <2>1 DEF NothingForgotten, CompletedIsWhole
  <1>2. WholeInv /\ [Next]_vars => WholeInv'
    <2> SUFFICES ASSUME WholeInv, [Next]_vars PROVE NothingForgotten' /\ CompletedIsWhole'
      BY RunInvNext DEF WholeInv
    <2>1. RunInv /\ NothingForgotten /\ CompletedIsWhole
      BY DEF WholeInv
    <2>2. CASE Harvest \/ Record \/ Dispatch \/ Merge \/ MergeFails
      BY <2>1, <2>2, HarvestForgetsNothing, RecordForgetsNothing, DispatchForgetsNothing,
         MergeForgetsNothing
    <2>3. CASE \E t \in Declared : Resume(t)
      BY <2>1, <2>3, ResumeForgetsNothing
    <2>4. CASE \/ LookAround \/ DispatchEnds \/ MainMoved \/ Crash \/ Decide \/ Recover
               \/ Finish \/ Cancel \/ UNCHANGED vars
      BY <2>1, <2>4, OthersForgetNothing
    <2> QED
      BY <2>2, <2>3, <2>4 DEF Next, Loop
  <1>3. WholeInv => CompletedIsWhole
    BY DEF WholeInv
  <1> QED
    BY <1>1, <1>2, <1>3, PTL DEF Spec

-----------------------------------------------------------------------------
(* WHAT MERGES READ.                                                        *)
FedInv == RunInv /\ MergesFed

LEMMA FedInvInit == ASSUME StartsElsewhere, Init PROVE MergesFed
  <1>1. /\ Elements(completed) = {} /\ \A m \in Merges : Elements(Rows(arrivals, m)) = {}
        /\ Pending = {Flow.start} /\ flow \in DOMAIN Workflows
    BY DEF Init, Elements, Rows, Pending, ActiveIds
  <1>2. Flow.start \notin Merges
    BY <1>1 DEF StartsElsewhere, Merges, Flow, Loaded
  <1> QED
    BY <1>1, <1>2 DEF MergesFed

\* A step that records nothing and takes up nothing new.
LEMMA NothingNewFed ==
  ASSUME RunInv, MergesFed, UNCHANGED <<graphVars, completed, arrivals>>, Pending' \subseteq Pending
  PROVE  MergesFed'
  <1>1. Grown
    BY DEF Grown, graphVars
  <1>2. /\ Flow' = Flow /\ Merges' = Merges /\ \A n \in Known : (Node(n))' = Node(n)
    BY <1>1, NodesStay
  <1>3. \A rec \in Elements(completed) : (Node(rec.id))' = Node(rec.id)
    BY <1>2 DEF RunInv, Records
  <1> QED
    BY <1>2, <1>3 DEF MergesFed, RoutedBy, Fed

LEMMA RecordingFeeds ==
  ASSUME RunInv, MergesFed, flow' = flow,
         NEW s, RouteOK(s), s.status = "RUNNING", s.minted = minted, s.arrivals = arrivals,
         Elements(s.frontier) \subseteq Elements(frontier),
         NEW n \in Known \cap Pending, NEW r, RecordCompletion(s, Node(n), r),
         ActiveIds' \subseteq ActiveIds, merging' \in {merging, NoNode}
  PROVE  MergesFed'
  <1>1. PICK node : node = Node(n)
    OBVIOUS
  <1>2. node.id = n /\ n \in Ids /\ ValidNode(node, Flow.nodes)
    BY <1>1, NodeOK DEF RunInv
  <1>3. PICK t : RecordedAs(s, t, node, r)
    BY <1>1, <1>2, RecordCompletionStep DEF RunInv
  <1>4. Grown
    BY <1>3 DEF RecordedAs, Extended, Grown
  <1>5. /\ Flow' = Flow /\ Merges' = Merges /\ Declared' = Declared
        /\ \A m \in Known : (Node(m))' = Node(m)
    BY <1>4, NodesStay
  <1>6. PICK new : new = Record1(node, r)
    OBVIOUS
  <1>7. /\ completed' = Append(completed, new) /\ completed \in Seq(Elements(completed))
        /\ new.id = n /\ new.res = r /\ new.type = node.type
    BY <1>1, <1>2, <1>6 DEF RecordCompletion, Record1, RunInv, Records
  <1>8. Elements(completed') = Elements(completed) \cup {new}
    BY <1>7, AppendElements
  <1>9. ASSUME NEW m \in Merges
        PROVE  /\ Elements(Rows(arrivals, m)) \subseteq Elements(Rows(arrivals', m))
               /\ \A a \in Elements(Rows(arrivals', m)) \ Elements(Rows(arrivals, m)) :
                    a.from = n /\ a.edge \in EdgeIds(node, r)
               /\ m \in Elements(frontier') \ Elements(s.frontier) => Fed(m)'
    BY <1>2, <1>3, <1>5 DEF RecordedAs, NotedBy, FedIn, Fed
  <1>10. ASSUME NEW m \in Merges, Fed(m) PROVE Fed(m)'
    BY <1>5, <1>9, <1>10, ReadyStays DEF Fed
  <1>11. ASSUME NEW m \in Merges, NEW a \in Elements(Rows(arrivals', m))
         PROVE  \E rec \in Elements(completed') : RoutedBy(rec, a)'
    <2>1. CASE a \in Elements(Rows(arrivals, m))
      <3>1. PICK rec \in Elements(completed) : RoutedBy(rec, a)
        BY <2>1 DEF MergesFed
      <3>2. (Node(rec.id))' = Node(rec.id)
        BY <1>5 DEF RunInv, Records
      <3> QED
        BY <1>8, <3>1, <3>2 DEF RoutedBy
    <2>2. CASE a \notin Elements(Rows(arrivals, m))
      <3>1. a.from = n /\ a.edge \in EdgeIds(node, r)
        BY <1>9, <2>2
      <3>2. (Node(n))' = node
        BY <1>1, <1>5
      <3>3. RoutedBy(new, a)'
        BY <1>7, <3>1, <3>2 DEF RoutedBy, EdgeIds
      <3> QED
        BY <1>8, <3>3
    <2> QED
      BY <2>1, <2>2
  <1>12. ASSUME NEW m \in Merges, m \in Pending' PROVE Fed(m)'
    <2>1. CASE m \in Elements(frontier') \ Elements(s.frontier)
      BY <1>9, <2>1
    <2>2. CASE m \notin Elements(frontier') \ Elements(s.frontier)
      <3>1. m \in Pending
        BY <1>12, <2>2 DEF Pending
      <3> QED
        BY <1>10, <3>1 DEF MergesFed
    <2> QED
      BY <2>1, <2>2
  <1>13. ASSUME NEW rec \in Elements(completed'), rec.type = "MERGE", rec.here
         PROVE  Fed(rec.id)'
    <2>1. CASE rec \in Elements(completed)
      <3>1. Fed(rec.id) /\ rec.id \in Merges
        BY <1>13, <2>1 DEF MergesFed, RunInv, Records, Merges, Node, Known, Minting
      <3> QED
        BY <1>10, <3>1
    <2>2. CASE rec = new
      <3>1. n \in Merges
        BY <1>1, <1>7, <1>13, <2>2 DEF RunInv, Merges, Node, Known, Minting
      <3> QED
        BY <1>7, <1>10, <2>2, <3>1 DEF MergesFed
    <2> QED
      BY <1>8, <2>1, <2>2
  <1> QED
    BY <1>5, <1>11, <1>12, <1>13 DEF MergesFed

LEMMA MergesFedNext ==
  ASSUME RunInv, MergesFed, ResumeAtMerge = FALSE, [Next]_vars
  PROVE  MergesFed'
  <1>1. CASE Record
    <2>1. /\ due # <<>> /\ flow' = flow /\ active' = Without(Head(due)) /\ merging' = merging
      BY <1>1 DEF Record, mergeVars
    <2>2. PICK worker \in Elements(active) :
            /\ worker.id = Head(due)
            /\ \/ UNCHANGED <<graphVars, completed, arrivals>> /\ frontier' = <<>>
               \/ RecordCompletion(RoutedSoFar, Node(worker.id), worker.res)
      BY <1>1, <2>1, Collected DEF Record, RunInv, Queues, graphVars
    <2>3. ActiveIds' \subseteq ActiveIds
      <3>1. PICK w : w = Without(Head(due))
        OBVIOUS
      <3>2. Elements(w) \subseteq Elements(active)
        BY <3>1, WithoutIs DEF RunInv, Queues
      <3> QED
        BY <2>1, <3>1, <3>2 DEF ActiveIds
    <2>4. CASE UNCHANGED <<graphVars, completed, arrivals>> /\ frontier' = <<>>
      <3>1. Pending' \subseteq Pending
        BY <2>1, <2>3, <2>4 DEF Pending, Elements
      <3> QED
        BY <2>4, <3>1, NothingNewFed
    <2>5. CASE RecordCompletion(RoutedSoFar, Node(worker.id), worker.res)
      <3>1. PICK s : s = RoutedSoFar
        OBVIOUS
      <3>2. /\ IsRoute(s) /\ s.frontier = frontier /\ s.arrivals = arrivals
            /\ s.minted = minted /\ s.status = "RUNNING" /\ s.merges = merges
        BY <3>1 DEF RoutedSoFar, IsRoute
      <3>3. RouteOK(s)
        BY <3>2, RouteStarts DEF RunInv, Queues, Merging
      <3>4. worker.id \in Known \cap Pending
        BY DEF RunInv, Queues, Workers, Pending, ActiveIds
      <3> QED
        BY <2>1, <2>3, <2>5, <3>1, <3>2, <3>3, <3>4, RecordingFeeds
    <2> QED
      BY <2>2, <2>4, <2>5
  <1>2. CASE Dispatch
    <2>1. PICK i \in Turn : \/ DispatchUnmet(i)
                            \/ \E inTime \in BOOLEAN : DispatchWorker(i, inTime)
                            \/ DispatchGate(i)
                            \/ DispatchMerge(i)
      BY <1>2 DEF Dispatch
    <2>2. i \in DOMAIN frontier /\ frontier \in Seq(Known) /\ frontier[i] \in Known \cap Pending
      BY DEF Turn, RunInv, Queues, Pending, Elements
    <2>3. /\ RemoveAt(frontier, i) \in Seq(Known)
          /\ Elements(RemoveAt(frontier, i)) \subseteq Elements(frontier)
      BY <2>2, RemoveElements
    <2>4. CASE DispatchUnmet(i) \/ DispatchMerge(i)
      <3>1. /\ UNCHANGED <<graphVars, completed, arrivals, active>>
            /\ frontier' \in {frontier, RemoveAt(frontier, i)} /\ merging' \in {merging, frontier[i]}
        BY <2>4 DEF DispatchUnmet, DispatchMerge, queueVars, routeVars, mergeVars
      <3>2. Pending' \subseteq Pending
        BY <2>2, <2>3, <3>1 DEF Pending, ActiveIds
      <3> QED
        BY <3>1, <3>2, NothingNewFed
    <2>5. CASE \E inTime \in BOOLEAN : DispatchWorker(i, inTime)
      <3>1. /\ UNCHANGED <<graphVars, completed, arrivals, merging>>
            /\ frontier' = RemoveAt(frontier, i)
            /\ \/ active' = active
               \/ active' = Enrolled([id |-> frontier[i], res |-> Started(frontier[i])])
        BY <2>5 DEF DispatchWorker, routeVars, mergeVars
      <3>2. ActiveIds' \subseteq ActiveIds \cup {frontier[i]}
        <4>1. PICK worker : worker = [id |-> frontier[i], res |-> Started(frontier[i])]
          OBVIOUS
        <4>2. Known \subseteq Known'
          BY <3>1, NodesStay DEF Grown, graphVars
        <4>3. active' = Enrolled(worker) => ActiveIds' = ActiveIds \cup {frontier[i]}
          BY <2>2, <4>1, <4>2, EnrolledStep DEF RunInv, Queues
        <4> QED
          BY <3>1, <4>1, <4>3 DEF ActiveIds
      <3>3. Pending' \subseteq Pending
        BY <2>2, <2>3, <3>1, <3>2 DEF Pending
      <3> QED
        BY <3>1, <3>3, NothingNewFed
    <2>6. CASE DispatchGate(i)
      <3>1. PICK s : s = [RoutedSoFar EXCEPT !.frontier = RemoveAt(frontier, i)]
        OBVIOUS
      <3>2. /\ IsRoute(s) /\ s.frontier = RemoveAt(frontier, i) /\ s.arrivals = arrivals
            /\ s.minted = minted /\ s.status = "RUNNING" /\ s.merges = merges
        BY <3>1 DEF RoutedSoFar, IsRoute
      <3>3. RouteOK(s)
        BY <2>3, <3>2, RouteStarts DEF RunInv, Merging
      <3>4. /\ RecordCompletion(s, Node(frontier[i]), Passed) /\ flow' = flow
            /\ active' = active /\ merging' = merging
        BY <2>6, <3>1 DEF DispatchGate, mergeVars
      <3>5. ActiveIds' = ActiveIds
        BY <3>4 DEF ActiveIds
      <3> QED
        BY <2>2, <2>3, <3>2, <3>3, <3>4, <3>5, RecordingFeeds
    <2> QED
      BY <2>1, <2>4, <2>5, <2>6
  <1>3. CASE MergeCompletes
    <2>1. PICK s : s = [RoutedSoFar EXCEPT !.merges[merging] = "MERGED"]
      OBVIOUS
    <2>2. /\ IsRoute(s) /\ s.frontier = frontier /\ s.arrivals = arrivals /\ s.minted = minted
          /\ s.status = "RUNNING" /\ s.merges = [merges EXCEPT ![merging] = "MERGED"]
      BY <2>1 DEF RoutedSoFar, IsRoute
    <2>3. s.merges \in [Merges -> {"WAITING", "READY", "MERGED", "BLOCKED"}]
      BY <2>2 DEF RunInv, Merging
    <2>4. RouteOK(s)
      BY <2>2, <2>3, RouteStarts DEF RunInv, Queues
    <2>5. /\ RecordCompletion(s, Node(merging), Passed)
          /\ UNCHANGED <<flow, active>> /\ merging' = NoNode
      BY <1>3, <2>1 DEF MergeCompletes
    <2>6. merging \in Known \cap Pending
      <3>1. merging \in Merges
        BY <1>3 DEF MergeCompletes, RunInv, Control
      <3>2. merging \in Known /\ merging # NoNode
        BY <3>1, NodeOK DEF Merges, Known, RunInv, Ids
      <3> QED
        BY <3>2 DEF Pending
    <2>7. ActiveIds' = ActiveIds
      BY <2>5 DEF ActiveIds
    <2> QED
      BY <2>2, <2>4, <2>5, <2>6, <2>7, RecordingFeeds
  <1>4. CASE \E t \in Declared : Resume(t)
    <2>1. PICK t \in Declared : Resume(t)
      BY <1>4
    <2>2. PICK inherited : SeedFromResume(t, inherited)
      BY <2>1 DEF Resume
    <2>3. /\ flow' = flow /\ frontier' = <<t>> /\ active' = <<>> /\ DOMAIN arrivals' = {t}
          /\ merging' = NoNode /\ t \notin Merges
      BY <2>1, <2>2 DEF Resume, SeedFromResume, RunInv, Control, mergeVars
    <2>4. Merges' = Merges
      BY <2>3 DEF Merges, Declared, Flow
    <2>5. Pending' = {t} /\ \A m \in Merges : Elements(Rows(arrivals', m)) = {}
      BY <2>3 DEF Pending, ActiveIds, Elements, Rows
    <2>6. \A rec \in Elements(completed') : rec.here = FALSE
      BY <2>1, ResumedRecords
    <2> QED
      BY <2>3, <2>4, <2>5, <2>6 DEF MergesFed
  <1>5. CASE Finish \/ Cancel
    <2>1. ActiveIds' = ActiveIds /\ UNCHANGED <<graphVars, completed, arrivals, frontier, merging>>
      BY <1>5, WorkersStay DEF Finish, Cancel, routeVars, mergeVars, RunInv, Queues
    <2>2. Pending' = Pending
      BY <2>1 DEF Pending
    <2> QED
      BY <2>1, <2>2, NothingNewFed
  <1>6. CASE MainMoved
    <2>1. /\ UNCHANGED <<graphVars, completed, arrivals, frontier, merging>>
          /\ active' = active \/ active' = Without(Head(due))
      BY <1>6 DEF MainMoved, routeVars, mergeVars
    <2>2. PICK w : w = Without(Head(due))
      OBVIOUS
    <2>3. Elements(w) \subseteq Elements(active)
      BY <2>2, WithoutIs DEF RunInv, Queues
    <2>4. Pending' \subseteq Pending
      BY <2>1, <2>2, <2>3 DEF Pending, ActiveIds
    <2> QED
      BY <2>1, <2>4, NothingNewFed
  <1>7. CASE \/ Harvest \/ LookAround \/ DispatchEnds \/ MergeRefused \/ MergePrepares
             \/ MergeWrites \/ MergeCommits \/ MergeFails \/ Crash \/ Recover \/ Decide
             \/ UNCHANGED vars
    <2>1. /\ UNCHANGED <<graphVars, completed, arrivals>> /\ active' \in {active, <<>>}
          /\ frontier' \in {frontier, <<>>} /\ merging' \in {merging, NoNode}
      BY <1>7 DEF Harvest, LookAround, DispatchEnds, MergeRefused, MergePrepares, MergeWrites,
                  MergeCommits, MergeFails, MergeStops, Crash, Recover, Decide, vars, queueVars, routeVars,
                  mergeVars
    <2>2. Pending' \subseteq Pending
      BY <2>1 DEF Pending, ActiveIds, Elements
    <2> QED
      BY <2>1, <2>2, NothingNewFed
  <1> QED
    BY <1>1, <1>2, <1>3, <1>4, <1>5, <1>6, <1>7 DEF Next, Loop, Merge

(* Every input of a merge that is done was routed to it by a result on      *)
(* record, and ALL_REQUIRED has one for each of its slots, in every valid   *)
(* workflow: provided that no run starts at a merge, by its workflow or     *)
(* where it is resumed (merge arrivals, execute_merge).                     *)
THEOREM MergedFromResultsHolds ==
  ASSUME StartsElsewhere, ResumeAtMerge = FALSE
  PROVE  Spec => []MergedFromResults
  <1>1. Init => FedInv
    BY RunInvInit, FedInvInit DEF FedInv
  <1>2. FedInv /\ [Next]_vars => FedInv'
    BY RunInvNext, MergesFedNext DEF FedInv
  <1>3. FedInv => MergedFromResults
    <2> SUFFICES ASSUME FedInv, NEW rec \in Elements(completed), rec.type = "MERGE", rec.here,
                        NEW merge, merge = Flow.nodes[rec.id],
                        NEW rows, rows = Rows(arrivals, rec.id)
                 PROVE  /\ \A a \in MergeInputs(merge, rows) : \E source \in Elements(completed) :
                             /\ source.id = a.from
                             /\ a.edge \in {e.id : e \in Elements(Selected(Node(source.id), source.res))}
                        /\ merge.policy = "ALL_REQUIRED" =>
                             {a.edge : a \in MergeInputs(merge, rows)} = merge.expected
      BY DEF MergedFromResults
    <2>1. rec.id \in Merges
      BY DEF FedInv, RunInv, Records, Merges, Node, Known, Minting
    <2>2. MergeReady(merge, rows)
      BY DEF FedInv, MergesFed, Fed
    <2>3. MergeInputs(merge, rows) \subseteq Elements(rows)
      BY DEF MergeInputs, Accepted, Elements
    <2>4. ASSUME NEW a \in MergeInputs(merge, rows)
          PROVE  \E source \in Elements(completed) : RoutedBy(source, a)
      BY <2>1, <2>3 DEF FedInv, MergesFed
    <2>5. ASSUME merge.policy = "ALL_REQUIRED"
          PROVE  {a.edge : a \in MergeInputs(merge, rows)} = merge.expected
      BY <2>2, <2>5 DEF MergeReady, MergeInputs
    <2> QED
      BY <2>4, <2>5 DEF RoutedBy
  <1> QED
    BY <1>1, <1>2, <1>3, PTL DEF Spec

-----------------------------------------------------------------------------
(* WHAT A RESUMED RUN INHERITS.                                             *)
ReachStep(f, start, next, within, k) ==
  IF k = 0 THEN start \cap within
  ELSE f[k - 1] \cup (within \cap UNION {next[m] : m \in f[k - 1]})
Reaches(f, start, next, within, n) ==
  f = [k \in 0..n |-> ReachStep(f, start, next, within, k)]

LEMMA ReachesExist ==
  ASSUME NEW start, NEW next, NEW within, NEW m \in Nat
  PROVE  \E f : Reaches(f, start, next, within, m)
  <1> DEFINE S == {n \in Nat : \E f : Reaches(f, start, next, within, n)}
  <1>1. 0 \in S
    <2>1. Reaches([k \in 0..0 |-> start \cap within], start, next, within, 0)
      BY DEF Reaches, ReachStep
    <2> QED
      BY <2>1
  <1>2. ASSUME NEW n \in S PROVE n + 1 \in S
    <2>1. PICK f : Reaches(f, start, next, within, n)
      OBVIOUS
    <2>2. n \in Nat
      OBVIOUS
    <2> DEFINE g == [k \in 0..n + 1 |->
                       IF k <= n THEN f[k] ELSE ReachStep(f, start, next, within, k)]
    <2>3. ASSUME NEW k \in 0..n + 1 PROVE g[k] = ReachStep(g, start, next, within, k)
      <3>1. CASE k <= n
        <4>1. g[k] = f[k] /\ (k # 0 => g[k - 1] = f[k - 1])
          BY <2>2, <3>1
        <4>2. f[k] = ReachStep(f, start, next, within, k)
          BY <2>1, <2>2, <3>1 DEF Reaches
        <4> QED
          BY <4>1, <4>2 DEF ReachStep
      <3>2. CASE k = n + 1
        <4>1. g[k] = ReachStep(f, start, next, within, k) /\ g[k - 1] = f[k - 1] /\ k # 0
          BY <2>2, <3>2
        <4> HIDE DEF g
        <4> QED
          BY <4>1 DEF ReachStep
      <3> QED
        BY <2>2, <3>1, <3>2
    <2>4. Reaches(g, start, next, within, n + 1)
      BY <2>3 DEF Reaches
    <2> HIDE DEF g
    <2> QED
      BY <2>2, <2>4
  <1>3. Nat \subseteq S
    <2> HIDE DEF S
    <2> QED
      BY <1>1, <1>2, Induction
  <1> QED
    BY <1>3

\* A set that a step along next does not leave.
Closed(S, next, within) == \A m \in S : next[m] \cap within \subseteq S

(* What RoutingContract!Closure returns: the least set inside a finite one  *)
(* that holds the start and is closed.                                      *)
LEMMA ClosureIs ==
  ASSUME NEW start, NEW next, NEW within, IsFiniteSet(within),
         NEW c, c = Closure(start, next, within)
  PROVE  /\ start \cap within \subseteq c /\ c \subseteq within /\ Closed(c, next, within)
         /\ \A S : start \cap within \subseteq S /\ Closed(S, next, within) => c \subseteq S
  <1>1. PICK n \in Nat : n = Cardinality(within)
    BY FS_CardinalityType
  <1>2. PICK f : Reaches(f, start, next, within, n) /\ c = f[n]
    <2> DEFINE f == CHOOSE f : Reaches(f, start, next, within, n)
    <2>1. Reaches(f, start, next, within, n)
      BY ReachesExist
    <2>2. c = f[n]
      BY <1>1 DEF Closure, Reaches, ReachStep
    <2> QED
      BY <2>1, <2>2
  <1>3. /\ f[0] = start \cap within
        /\ \A k \in 0..n - 1 :
             f[k + 1] = f[k] \cup (within \cap UNION {next[m] : m \in f[k]})
    <2>1. \A k \in 0..n : f[k] = ReachStep(f, start, next, within, k)
      BY <1>2 DEF Reaches
    <2>2. 0 \in 0..n /\ \A k \in 0..n - 1 : k + 1 \in 0..n /\ k + 1 # 0 /\ (k + 1) - 1 = k
      OBVIOUS
    <2>3. f[0] = ReachStep(f, start, next, within, 0)
      BY <2>1, <2>2
    <2>4. ASSUME NEW k \in 0..n - 1
          PROVE  f[k + 1] = f[k] \cup (within \cap UNION {next[m] : m \in f[k]})
      <3>1. f[k + 1] = ReachStep(f, start, next, within, k + 1)
        BY <2>1, <2>2
      <3> QED
        BY <2>2, <3>1 DEF ReachStep
    <2> QED
      BY <2>3, <2>4 DEF ReachStep
  <1> DEFINE Sound(k) == /\ start \cap within \subseteq f[k] /\ f[k] \subseteq within
                         /\ Closed(f[k], next, within) \/ Cardinality(f[k]) >= k
                         /\ \A S : start \cap within \subseteq S /\ Closed(S, next, within)
                                     => f[k] \subseteq S
             T == {k \in Nat : k <= n => Sound(k)}
  <1>4. 0 \in T
    <2>1. f[0] \subseteq within /\ IsFiniteSet(f[0])
      BY <1>3, FS_Subset
    <2>2. Cardinality(f[0]) \in Nat
      BY <2>1, FS_CardinalityType
    <2> QED
      BY <1>3, <2>2
  <1>5. ASSUME NEW k \in Nat, k \in T PROVE k + 1 \in T
    <2> SUFFICES ASSUME k + 1 <= n PROVE Sound(k + 1)
      OBVIOUS
    <2>1. Sound(k) /\ k \in 0..n - 1
      BY <1>5
    <2>2. PICK now, more : /\ now = f[k] /\ more = f[k + 1]
                           /\ more = now \cup (within \cap UNION {next[m] : m \in now})
      BY <1>3, <2>1
    <2>3. /\ start \cap within \subseteq now /\ now \subseteq within
          /\ Closed(now, next, within) \/ Cardinality(now) >= k
          /\ \A S : start \cap within \subseteq S /\ Closed(S, next, within) => now \subseteq S
      BY <2>1, <2>2
    <2>4. start \cap within \subseteq more /\ more \subseteq within
      BY <2>2, <2>3
    <2>5. ASSUME NEW S, start \cap within \subseteq S, Closed(S, next, within)
          PROVE  more \subseteq S
      <3>1. now \subseteq S
        BY <2>3, <2>5
      <3>2. within \cap UNION {next[m] : m \in now} \subseteq S
        BY <2>5, <3>1 DEF Closed
      <3> QED
        BY <2>2, <3>1, <3>2
    <2>6. Closed(more, next, within) \/ Cardinality(more) >= k + 1
      <3>1. CASE more = now /\ Closed(now, next, within)
        BY <3>1
      <3>2. CASE more # now
        <4>1. IsFiniteSet(more) /\ now \subseteq more
          BY <2>2, <2>4, FS_Subset
        <4>2. /\ IsFiniteSet(now) /\ Cardinality(now) <= Cardinality(more)
              /\ Cardinality(now) # Cardinality(more)
          BY <3>2, <4>1, FS_Subset
        <4>3. Cardinality(now) \in Nat /\ Cardinality(more) \in Nat
          BY <4>1, <4>2, FS_CardinalityType
        <4>4. Cardinality(now) >= k
          <5>1. ~Closed(now, next, within)
            BY <2>2, <3>2 DEF Closed
          <5> QED
            BY <2>3, <5>1
        <4> QED
          BY <4>2, <4>3, <4>4
      <3>3. CASE more = now /\ ~Closed(now, next, within)
        BY <2>2, <3>3 DEF Closed
      <3> QED
        BY <3>1, <3>2, <3>3
    <2> QED
      BY <2>2, <2>4, <2>5, <2>6
  <1>6. Nat \subseteq T
    <2> HIDE DEF T
    <2> QED
      BY <1>4, <1>5, Induction
  <1>7. Sound(n)
    BY <1>6
  <1>8. Closed(c, next, within)
    <2>1. CASE Cardinality(c) >= n
      <3>1. IsFiniteSet(c) /\ Cardinality(c) \in Nat /\ c \subseteq within
        BY <1>2, <1>7, FS_Subset, FS_CardinalityType
      <3>2. c = within
        BY <1>1, <2>1, <3>1, FS_Subset
      <3> QED
        BY <3>2 DEF Closed
    <2> QED
      BY <1>2, <1>7, <2>1
  <1> QED
    BY <1>2, <1>7, <1>8

\* Node x has been followed to node n.
Leads(x, n) ==
  \/ n \in Declared \cap Ways(Node(x))
  \/ n \in DOMAIN minted /\ minted[n].origin = x

\* Branches stem from completed nodes that may lead to their template, and
\* arrivals of the run itself come from completed nodes that lead there.
BranchesTraced ==
  \A b \in DOMAIN minted :
    /\ minted[b].origin \in CompletedIds
    /\ \E template \in Declared \cap Ways(Node(minted[b].origin)) :
         Ways(minted[b]) = Ways(Flow.nodes[template])
ArrivalsTraced ==
  \A n \in DOMAIN arrivals : \A a \in Elements(arrivals[n]) :
    a.edge # Seed => a.from \in CompletedIds /\ Leads(a.from, n)
Traced == BranchesTraced /\ ArrivalsTraced
TraceInv == RunInv /\ Traced

LEMMA CompletedKnown == ASSUME RunInv PROVE CompletedIds \subseteq Known
  BY DEF RunInv, Records, CompletedIds

(* The cone of a declared node holds all that any of it may have led to: a  *)
(* branch in it leads where its template does, and that is in it as well.   *)
LEMMA ConeClosed ==
  ASSUME RunInv, BranchesTraced, NEW t \in Declared, NEW cone, cone = ResetBy(t)
  PROVE  \A x \in cone \cap Known : \A n \in Known : Leads(x, n) => n \in cone
  <1>1. PICK reached, within, targets, branches :
          /\ targets = TargetsOf(Flow.nodes) /\ reached = Closure({t}, targets, Declared)
          /\ within = reached \cup DOMAIN minted
          /\ branches = [b \in within |-> {m \in DOMAIN minted : minted[m].origin = b}]
    OBVIOUS
  <1>2. cone = Closure(reached, branches, within)
    BY <1>1 DEF ResetBy, Cone, Declared
  <1>3. /\ IsFiniteSet(Declared) /\ IsFiniteSet(DOMAIN minted)
        /\ DOMAIN minted \cap Declared = {}
    BY FlowValid DEF RunInv, Minting
  <1>4. reached \subseteq Declared /\ Closed(reached, targets, Declared)
    BY <1>1, <1>3, ClosureIs
  <1>5. IsFiniteSet(within)
    <2>1. IsFiniteSet(reached)
      BY <1>3, <1>4, FS_Subset
    <2> QED
      BY <1>1, <1>3, <2>1, FS_Union
  <1>6. /\ reached \subseteq cone /\ cone \subseteq within /\ Closed(cone, branches, within)
        /\ \A S : reached \subseteq S /\ Closed(S, branches, within) => cone \subseteq S
    <2>1. reached \cap within = reached
      BY <1>1
    <2> QED
      BY <1>2, <1>5, <2>1, ClosureIs
  <1>7. ASSUME NEW x \in reached, NEW n \in Declared \cap Ways(Flow.nodes[x]) PROVE n \in reached
    <2>1. targets[x] = Ways(Flow.nodes[x])
      BY <1>1, <1>4 DEF TargetsOf, Ways, Declared
    <2> QED
      BY <1>4, <1>7, <2>1 DEF Closed
  <1> DEFINE S == {x \in within : Declared \cap Ways(Node(x)) \subseteq reached}
  <1>8. reached \subseteq S
    BY <1>1, <1>4, <1>7 DEF Node
  <1>9. Closed(S, branches, within)
    <2> SUFFICES ASSUME NEW x \in S, NEW b \in DOMAIN minted, minted[b].origin = x PROVE b \in S
      BY <1>1 DEF Closed
    <2>1. PICK template \in Declared \cap Ways(Node(x)) :
            Ways(minted[b]) = Ways(Flow.nodes[template])
      BY DEF BranchesTraced
    <2>2. template \in reached
      BY <2>1
    <2>3. Node(b) = minted[b] /\ b \in within
      BY <1>1, <1>3 DEF Node
    <2> QED
      BY <1>7, <2>1, <2>2, <2>3
  <1>10. cone \subseteq S
    <2> HIDE DEF S
    <2> QED
      BY <1>6, <1>8, <1>9
  <1> SUFFICES ASSUME NEW x \in cone \cap Known, NEW n \in Known, Leads(x, n) PROVE n \in cone
    OBVIOUS
  <1>11. CASE n \in Declared \cap Ways(Node(x))
    BY <1>6, <1>10, <1>11
  <1>12. CASE n \in DOMAIN minted /\ minted[n].origin = x
    <2>1. x \in within /\ n \in branches[x] \cap within
      BY <1>1, <1>6, <1>12
    <2> QED
      BY <1>6, <2>1 DEF Closed
  <1> QED
    BY <1>11, <1>12 DEF Leads

\* What is inherited: the records of the nodes that are not repeated.
LEMMA InheritedRecords ==
  ASSUME RunInv, NEW t \in Declared, Resume(t)
  PROVE  /\ {rec.id : rec \in Elements(completed')} = CompletedIds \ ResetBy(t)
         /\ minted' = [m \in DOMAIN minted \cap (CompletedIds \ ResetBy(t)) |-> minted[m]]
         /\ flow' = flow /\ \A n \in DOMAIN arrivals' : \A a \in Elements(arrivals'[n]) : a.edge = Seed
  <1>1. PICK reset, inherited : /\ reset = ResetBy(t) /\ inherited = Inherited(reset)
                                /\ SeedFromResume(t, inherited)
    BY DEF Resume
  <1>2. PICK keep : /\ keep = {i \in DOMAIN completed : completed[i].id \notin reset}
                    /\ inherited = Picked(completed, keep)
    BY <1>1 DEF Inherited
  <1>3. completed \in Seq(Elements(completed)) /\ DOMAIN completed = 1..Len(completed)
    BY DEF RunInv, Records
  <1>4. Elements(inherited) = {completed[i] : i \in keep \cap (1..Len(completed))}
        /\ inherited \in Seq(Elements(completed))
    BY <1>2, <1>3, PickedIs DEF PickedFrom
  <1>5. {rec.id : rec \in Elements(inherited)} = CompletedIds \ reset
    <2>1. CompletedIds = {completed[i].id : i \in DOMAIN completed}
      BY DEF Elements, CompletedIds
    <2>2. {rec.id : rec \in Elements(inherited)} = {completed[i].id : i \in keep \cap (1..Len(completed))}
      BY <1>4
    <2>3. keep \cap (1..Len(completed)) = {i \in DOMAIN completed : completed[i].id \notin reset}
      BY <1>2, <1>3
    <2> QED
      BY <2>1, <2>2, <2>3
  <1>6. /\ completed' = [i \in DOMAIN inherited |-> [inherited[i] EXCEPT !.here = FALSE]]
        /\ minted' = [m \in DOMAIN minted \cap {rec.id : rec \in Elements(inherited)} |-> minted[m]]
        /\ arrivals' = [n \in {t} |-> [i \in DOMAIN inherited |->
             [edge |-> Seed, from |-> inherited[i].id, status |-> "ACCEPTED"]]]
        /\ flow' = flow
    BY <1>1 DEF SeedFromResume
  <1>7. \A i \in DOMAIN inherited : completed'[i].id = inherited[i].id
    <2>1. \A i \in DOMAIN inherited : inherited[i] \in Elements(completed)
      BY <1>4
    <2> QED
      BY <1>6, <2>1 DEF RunInv, Records
  <1>8. {rec.id : rec \in Elements(completed')} = {rec.id : rec \in Elements(inherited)}
    BY <1>6, <1>7 DEF Elements
  <1>9. \A n \in DOMAIN arrivals' : \A a \in Elements(arrivals'[n]) : a.edge = Seed
    BY <1>6 DEF Elements
  <1> QED
    BY <1>1, <1>5, <1>6, <1>8, <1>9

LEMMA ResumeTraces ==
  ASSUME RunInv, Traced, NEW t \in Declared, Resume(t)
  PROVE  Traced'
  <1>1. PICK ids, cone : cone = ResetBy(t) /\ ids = CompletedIds \ cone
    OBVIOUS
  <1>2. /\ CompletedIds' = ids /\ flow' = flow
        /\ minted' = [m \in DOMAIN minted \cap ids |-> minted[m]]
        /\ \A n \in DOMAIN arrivals' : \A a \in Elements(arrivals'[n]) : a.edge = Seed
    BY <1>1, InheritedRecords DEF CompletedIds
  <1>3. Flow' = Flow /\ Declared' = Declared
    BY <1>2 DEF Flow, Declared
  <1>4. ASSUME NEW b \in DOMAIN minted', NEW x, x = minted[b].origin
        PROVE  /\ minted'[b] = minted[b] /\ x \in ids
               /\ \E template \in Declared \cap Ways(Node(x)') :
                    Ways(minted[b]) = Ways(Flow.nodes[template])
    <2>1. b \in DOMAIN minted /\ b \in ids /\ minted'[b] = minted[b]
      BY <1>2
    <2>3. /\ x \in CompletedIds /\ x \in Known
          /\ \E template \in Declared \cap Ways(Node(x)) : Ways(minted[b]) = Ways(Flow.nodes[template])
      BY <1>4, <2>1, CompletedKnown DEF Traced, BranchesTraced
    <2>4. x \notin cone
      <3>1. Leads(x, b) /\ b \in Known /\ b \notin cone
        BY <1>1, <1>4, <2>1 DEF Leads, Known
      <3> QED
        BY <1>1, <2>3, <3>1, ConeClosed DEF Traced
    <2>5. Node(x)' = Node(x)
      BY <1>1, <1>2, <1>3, <2>3, <2>4 DEF Node, Known
    <2> QED
      BY <1>1, <2>1, <2>3, <2>4, <2>5
  <1>6. BranchesTraced'
    BY <1>2, <1>3, <1>4 DEF BranchesTraced
  <1>7. ArrivalsTraced'
    BY <1>2 DEF ArrivalsTraced
  <1> QED
    BY <1>6, <1>7 DEF Traced

LEMMA RecordingTraces ==
  ASSUME RunInv, Traced, flow' = flow,
         NEW s, RouteOK(s), s.status = "RUNNING", s.minted = minted, s.arrivals = arrivals,
         NEW n \in Known, NEW r, RecordCompletion(s, Node(n), r)
  PROVE  Traced'
  <1>1. PICK node : node = Node(n)
    OBVIOUS
  <1>2. node.id = n /\ n \in Ids /\ ValidNode(node, Flow.nodes)
    BY <1>1, NodeOK DEF RunInv
  <1>3. PICK t : RecordedAs(s, t, node, r)
    BY <1>1, <1>2, RecordCompletionStep DEF RunInv
  <1>4. Grown
    BY <1>3 DEF RecordedAs, Extended, Grown
  <1>5. /\ Flow' = Flow /\ Declared' = Declared /\ Known \subseteq Known'
        /\ \A m \in Known : (Node(m))' = Node(m)
    BY <1>4, NodesStay
  <1>6. CompletedIds' = CompletedIds \cup {n} /\ CompletedIds \subseteq Known
    <2>1. PICK new : new = Record1(node, r)
      OBVIOUS
    <2>2. completed' = Append(completed, new) /\ new.id = n /\ completed \in Seq(Elements(completed))
      BY <1>1, <1>2, <2>1 DEF RecordCompletion, Record1, RunInv, Records
    <2>3. Elements(completed') = Elements(completed) \cup {new}
      BY <2>2, AppendElements
    <2> QED
      BY <2>2, <2>3, CompletedKnown DEF CompletedIds
  <1>7. TracedBy(s, t, n, Ways(node)) /\ arrivals' = t.arrivals /\ minted' = t.minted
    BY <1>2, <1>3 DEF RecordedAs
  <1>8. Ways(Node(n)') = Ways(node)
    BY <1>1, <1>5
  <1>9. BranchesTraced'
    <2> SUFFICES ASSUME NEW b \in DOMAIN minted', NEW x, x = minted'[b].origin
                 PROVE  /\ x \in CompletedIds'
                        /\ \E template \in Declared \cap Ways(Node(x)') :
                             Ways(minted'[b]) = Ways(Flow.nodes[template])
      BY <1>5 DEF BranchesTraced
    <2>1. CASE b \in DOMAIN minted
      <3>1. minted'[b] = minted[b]
        BY <1>4, <2>1 DEF Grown
      <3>2. /\ x \in CompletedIds
            /\ \E template \in Declared \cap Ways(Node(x)) : Ways(minted[b]) = Ways(Flow.nodes[template])
        BY <2>1, <3>1 DEF Traced, BranchesTraced
      <3>3. Node(x)' = Node(x)
        BY <1>5, <1>6, <3>2
      <3> QED
        BY <1>6, <3>1, <3>2, <3>3
    <2>2. CASE b \notin DOMAIN minted
      BY <1>6, <1>7, <1>8, <2>2 DEF TracedBy
    <2> QED
      BY <2>1, <2>2
  <1>10. ASSUME NEW x \in Known, NEW m, Leads(x, m) PROVE Leads(x, m)'
    BY <1>4, <1>5, <1>10 DEF Leads, Grown
  <1>11. ArrivalsTraced'
    <2> SUFFICES ASSUME NEW m \in DOMAIN arrivals', NEW a \in Elements(arrivals'[m]), a.edge # Seed
                 PROVE  a.from \in CompletedIds' /\ Leads(a.from, m)'
      BY DEF ArrivalsTraced
    <2>1. a \in Elements(Rows(t.arrivals, m))
      BY <1>7 DEF Rows
    <2>2. CASE a \in Elements(Rows(s.arrivals, m))
      <3>1. m \in DOMAIN arrivals /\ a \in Elements(arrivals[m])
        BY <2>2 DEF Rows, Elements
      <3> QED
        BY <1>6, <1>10, <3>1 DEF Traced, ArrivalsTraced
    <2>3. CASE a \notin Elements(Rows(s.arrivals, m))
      <3>1. a.from = n /\ (m \in Declared \cap Ways(node) \/ (m \in DOMAIN minted' /\ minted'[m].origin = n))
        BY <1>7, <2>1, <2>3 DEF TracedBy
      <3> QED
        BY <1>5, <1>6, <1>8, <3>1 DEF Leads
    <2> QED
      BY <2>2, <2>3
  <1> QED
    BY <1>9, <1>11 DEF Traced

LEMMA NothingTraced ==
  ASSUME Traced, UNCHANGED <<graphVars, completed, arrivals>>
  PROVE  Traced'
  <1>1. Flow' = Flow /\ Declared' = Declared /\ CompletedIds' = CompletedIds
    BY DEF graphVars, Flow, Declared, CompletedIds
  <1>2. \A n : (Node(n))' = Node(n)
    BY <1>1 DEF graphVars, Node
  <1> QED
    BY <1>1, <1>2 DEF graphVars, Traced, BranchesTraced, ArrivalsTraced, Leads

LEMMA TracedNext == ASSUME RunInv, Traced, [Next]_vars PROVE Traced'
  <1>1. CASE Record
    <2>1. /\ due # <<>> /\ flow' = flow
      BY <1>1 DEF Record
    <2>2. PICK worker \in Elements(active) :
            \/ UNCHANGED <<graphVars, completed, arrivals>>
            \/ RecordCompletion(RoutedSoFar, Node(worker.id), worker.res)
      BY <1>1, <2>1, Collected DEF Record, RunInv, Queues, graphVars
    <2>3. PICK s : s = RoutedSoFar
      OBVIOUS
    <2>4. /\ IsRoute(s) /\ s.frontier = frontier /\ s.arrivals = arrivals
          /\ s.minted = minted /\ s.status = "RUNNING" /\ s.merges = merges
      BY <2>3 DEF RoutedSoFar, IsRoute
    <2>5. RouteOK(s)
      BY <2>4, RouteStarts DEF RunInv, Queues, Merging
    <2>6. worker.id \in Known
      BY DEF RunInv, Queues, Workers
    <2> QED
      BY <2>1, <2>2, <2>3, <2>4, <2>5, <2>6, RecordingTraces, NothingTraced
  <1>2. CASE Dispatch
    <2>1. PICK i \in Turn : \/ DispatchUnmet(i)
                            \/ \E inTime \in BOOLEAN : DispatchWorker(i, inTime)
                            \/ DispatchGate(i)
                            \/ DispatchMerge(i)
      BY <1>2 DEF Dispatch
    <2>2. i \in DOMAIN frontier /\ frontier \in Seq(Known) /\ frontier[i] \in Known
      BY DEF Turn, RunInv, Queues
    <2>3. RemoveAt(frontier, i) \in Seq(Known)
      BY <2>2, RemoveElements
    <2>4. CASE DispatchUnmet(i) \/ DispatchMerge(i) \/ \E inTime \in BOOLEAN : DispatchWorker(i, inTime)
      <3>1. UNCHANGED <<graphVars, completed, arrivals>>
        BY <2>4 DEF DispatchUnmet, DispatchMerge, DispatchWorker, routeVars
      <3> QED
        BY <3>1, NothingTraced
    <2>5. CASE DispatchGate(i)
      <3>1. PICK s : s = [RoutedSoFar EXCEPT !.frontier = RemoveAt(frontier, i)]
        OBVIOUS
      <3>2. /\ IsRoute(s) /\ s.frontier = RemoveAt(frontier, i) /\ s.arrivals = arrivals
            /\ s.minted = minted /\ s.status = "RUNNING" /\ s.merges = merges
        BY <3>1 DEF RoutedSoFar, IsRoute
      <3>3. RouteOK(s)
        BY <2>3, <3>2, RouteStarts DEF RunInv, Merging
      <3>4. RecordCompletion(s, Node(frontier[i]), Passed) /\ flow' = flow
        BY <2>5, <3>1 DEF DispatchGate
      <3> QED
        BY <2>2, <3>2, <3>3, <3>4, RecordingTraces
    <2> QED
      BY <2>1, <2>4, <2>5
  <1>3. CASE MergeCompletes
    <2>1. PICK s : s = [RoutedSoFar EXCEPT !.merges[merging] = "MERGED"]
      OBVIOUS
    <2>2. /\ IsRoute(s) /\ s.frontier = frontier /\ s.arrivals = arrivals /\ s.minted = minted
          /\ s.status = "RUNNING" /\ s.merges = [merges EXCEPT ![merging] = "MERGED"]
      BY <2>1 DEF RoutedSoFar, IsRoute
    <2>3. s.merges \in [Merges -> {"WAITING", "READY", "MERGED", "BLOCKED"}]
      BY <2>2 DEF RunInv, Merging
    <2>4. RouteOK(s)
      BY <2>2, <2>3, RouteStarts DEF RunInv, Queues
    <2>5. RecordCompletion(s, Node(merging), Passed) /\ flow' = flow
      BY <1>3, <2>1 DEF MergeCompletes
    <2>6. merging \in Known
      BY <1>3 DEF MergeCompletes, RunInv, Control, Merges, Known
    <2> QED
      BY <2>2, <2>4, <2>5, <2>6, RecordingTraces
  <1>4. CASE \E t \in Declared : Resume(t)
    BY <1>4, ResumeTraces
  <1>5. CASE \/ Harvest \/ LookAround \/ DispatchEnds \/ MergeRefused \/ MergePrepares
             \/ MergeWrites \/ MergeCommits \/ MergeFails \/ Crash \/ Recover \/ Decide
             \/ Finish \/ Cancel \/ MainMoved \/ UNCHANGED vars
    <2>1. UNCHANGED <<graphVars, completed, arrivals>>
      BY <1>5 DEF Harvest, LookAround, DispatchEnds, MergeRefused, MergePrepares, MergeWrites,
                  MergeCommits, MergeFails, MergeStops, Crash, Recover, Decide, Finish, Cancel, MainMoved,
                  vars, routeVars
    <2> QED
      BY <2>1, NothingTraced
  <1> QED
    BY <1>1, <1>2, <1>3, <1>4, <1>5 DEF Next, Loop, Merge

\* The ancestry of a completed node outside a cone does not enter the cone.
LEMMA CausesOutside ==
  ASSUME RunInv, Traced, NEW t \in Declared, NEW n \in CompletedIds \ ResetBy(t)
  PROVE  CausesOf(n) \subseteq CompletedIds \ ResetBy(t)
  <1>1. PICK cone, own : /\ cone = ResetBy(t)
                         /\ own = [m \in DOMAIN arrivals |-> Picked(arrivals[m],
                              {i \in DOMAIN arrivals[m] : arrivals[m][i].edge # Seed})]
    OBVIOUS
  <1>2. ASSUME NEW m \in DOMAIN arrivals, NEW x \in Sources(own[m])
        PROVE  x \in CompletedIds /\ Leads(x, m)
    <2>1. PICK rows, keep : /\ rows = arrivals[m] /\ own[m] = Picked(rows, keep)
                            /\ keep = {i \in DOMAIN rows : rows[i].edge # Seed}
      BY <1>1
    <2>2. rows \in Seq(Elements(rows))
      BY <2>1 DEF RunInv, Arrived, RowsOK
    <2>3. Elements(own[m]) = {rows[i] : i \in keep \cap (1..Len(rows))}
      BY <2>1, <2>2, PickedIs DEF PickedFrom
    <2>4. PICK a \in Elements(own[m]) : a.from = x
      BY <1>2 DEF Sources, Accepted
    <2>5. a \in Elements(arrivals[m]) /\ a.edge # Seed
      BY <2>1, <2>3, <2>4 DEF Elements
    <2> QED
      BY <2>4, <2>5 DEF Traced, ArrivalsTraced
  <1>3. PICK within, parents :
          /\ within = DOMAIN own \cup {n} \cup UNION {Sources(own[m]) : m \in DOMAIN own}
          /\ parents = [m \in within |-> IF m \in DOMAIN own THEN Sources(own[m]) ELSE {}]
    OBVIOUS
  <1>4. DOMAIN own = DOMAIN arrivals /\ within \subseteq Known
    <2>1. DOMAIN own = DOMAIN arrivals /\ DOMAIN arrivals \subseteq Known
      BY <1>1 DEF RunInv, Arrived
    <2>2. CompletedIds \subseteq Known
      BY CompletedKnown
    <2>3. \A m \in DOMAIN own : Sources(own[m]) \subseteq CompletedIds
      BY <1>2, <2>1
    <2>4. UNION {Sources(own[m]) : m \in DOMAIN own} \subseteq CompletedIds
      BY <2>3
    <2> QED
      BY <1>3, <2>1, <2>2, <2>4
  <1>5. IsFiniteSet(within)
    <2>1. IsFiniteSet(Known)
      BY FlowValid, FS_Union DEF RunInv, Minting, Known
    <2> QED
      BY <1>4, <2>1, FS_Subset
  <1> DEFINE S == within \cap (CompletedIds \ cone)
  <1>6. {n} \cap within \subseteq S
    BY <1>1
  <1>7. Closed(S, parents, within)
    <2> SUFFICES ASSUME NEW m \in S, m \in DOMAIN arrivals, NEW x \in Sources(own[m]) PROVE x \notin cone
      BY <1>2, <1>3, <1>4 DEF Closed
    <2>1. x \in CompletedIds /\ Leads(x, m)
      BY <1>2
    <2>2. x \in Known /\ m \in Known /\ m \notin cone
      BY <2>1, CompletedKnown
    <2> QED
      BY <1>1, <2>1, <2>2, ConeClosed DEF Traced
  <1>8. Closure({n}, parents, within) \subseteq S
    <2> HIDE DEF S
    <2> QED
      BY <1>5, <1>6, <1>7, ClosureIs
  <1>9. CausesOf(n) \subseteq Closure({n}, parents, within)
    BY <1>1, <1>3 DEF CausesOf, Ancestry
  <1> QED
    BY <1>1, <1>8, <1>9

(* A run that is resumed inherits no record that stands, however far back,  *)
(* on a node the run repeats, nor on one the run has no record of: in every *)
(* valid workflow and at every node, repairs of repairs included            *)
(* (plan_resume, downstream_cone).                                          *)
THEOREM InheritsNoStaleHolds == Spec => InheritsNoStale
  <1>1. Init => TraceInv
    <2> SUFFICES ASSUME Init PROVE Traced
      BY RunInvInit DEF TraceInv
    <2> QED
      BY DEF Init, Traced, BranchesTraced, ArrivalsTraced
  <1>2. TraceInv /\ [Next]_vars => TraceInv'
    BY RunInvNext, TracedNext DEF TraceInv
  <1>3. TraceInv /\ [Next]_vars =>
          [runs' # runs => \A rec \in Elements(completed') :
             CausesOf(rec.id) \cap (Known \ {r.id : r \in Elements(completed')}) = {}]_vars
    <2> SUFFICES ASSUME TraceInv, Next, runs' # runs, NEW rec \in Elements(completed')
                 PROVE  CausesOf(rec.id) \subseteq {r.id : r \in Elements(completed')}
      OBVIOUS
    <2>1. PICK t \in Declared : Resume(t)
      BY DEF Next, Loop, Harvest, Record, LookAround, Dispatch, DispatchEnds, Merge, MergeRefused,
             MergePrepares, MergeWrites, MergeCommits, MergeCompletes, MergeFails, MergeStops, Finish,
             MainMoved, Cancel, Crash, Recover, Decide
    <2>2. {r.id : r \in Elements(completed')} = CompletedIds \ ResetBy(t)
      BY <2>1, InheritedRecords DEF TraceInv
    <2>3. rec.id \in CompletedIds \ ResetBy(t)
      BY <2>2
    <2> QED
      BY <2>2, <2>3, CausesOutside DEF TraceInv
  <1> QED
    BY <1>1, <1>2, <1>3, PTL DEF Spec, InheritsNoStale

-----------------------------------------------------------------------------
(* TYPES.                                                                   *)
Versions == [BranchFiles -> 0..MaxRuns]

DataInv ==
  /\ flow \in DOMAIN Workflows
  /\ inMemory \in BOOLEAN /\ cancel \in BOOLEAN
  /\ candidate \in {"none", "verified", "unverified"}
  /\ runs \in 1..MaxRuns /\ faults \in 0..MaxFaults
  /\ tree \in Versions /\ sealed \in Versions
  /\ journal # NoJournal => journal.before \in Versions
  /\ todo \subseteq journal.files
  /\ todo # {} => pc = "merge"

LEMMA RestoredVersions ==
  ASSUME DataInv, NEW files \in SUBSET journal.files
  PROVE  Restored(files) \in Versions
  <1>1. CASE journal = NoJournal
    BY <1>1 DEF DataInv, Restored, NoJournal, Versions
  <1>2. CASE journal # NoJournal
    BY <1>2 DEF DataInv, Restored, Versions
  <1> QED
    BY <1>1, <1>2

LEMMA DataInvNext ==
  ASSUME DataInv, [Next]_vars
  PROVE  DataInv'
  <1>1. flow' = flow /\ inMemory' = inMemory
    BY DEF Next, Loop, Harvest, Record, RecordCompletion, LookAround, Dispatch, DispatchUnmet,
           DispatchWorker, DispatchGate, DispatchMerge, DispatchEnds, Merge, MergeRefused,
           MergeStops, MergePrepares, MergeWrites, MergeCommits, MergeCompletes, Finish, MainMoved, MergeFails,
           Cancel, Crash, Recover, Decide, Resume, SeedFromResume, vars, graphVars
  <1>2. BranchFiles' = BranchFiles /\ Versions' = Versions
    BY <1>1 DEF BranchFiles, Flow, Declared, Versions
  <1>3. cancel' \in {cancel, TRUE, FALSE}
    BY DEF Next, Loop, Harvest, Record, LookAround, Dispatch, DispatchEnds, Merge, MergeRefused,
           MergeStops, MergePrepares, MergeWrites, MergeCommits, MergeCompletes, Finish, MainMoved, MergeFails,
           Cancel, Crash, Recover, Decide, Resume, SeedFromResume, vars
  <1>4. candidate' \in {"none", "verified", "unverified"}
    BY DEF DataInv, Next, Loop, Harvest, Record, LookAround, Dispatch, DispatchUnmet,
           DispatchWorker, DispatchGate, DispatchMerge, DispatchEnds, Merge, MergeRefused,
           MergeStops, MergePrepares, MergeWrites, MergeCommits, MergeCompletes, Finish, MainMoved, MergeFails,
           Cancel, Crash, Recover, Decide, Resume, SeedFromResume, vars
  <1>5. runs' \in 1..MaxRuns /\ faults' \in 0..MaxFaults
    <2>1. /\ runs' = runs \/ (runs < MaxRuns /\ runs' = runs + 1)
          /\ faults' = faults \/ Fault
      BY DEF Next, Loop, Harvest, Record, LookAround, Dispatch, DispatchUnmet, DispatchWorker,
             DispatchGate, DispatchMerge, DispatchEnds, Merge, MergeRefused, MergeStops,
             MergePrepares, MergeWrites, MergeCommits, MergeCompletes, Finish, MainMoved, MergeFails, Cancel,
             Crash, Recover, Decide, Resume, SeedFromResume, vars
    <2> QED
      BY <2>1, WorkflowAssumption DEF DataInv, Fault
  <1>6. /\ tree' \in Versions /\ sealed' \in Versions
        /\ journal' # NoJournal => journal'.before \in Versions
        /\ todo' \subseteq journal'.files /\ (todo' # {} => pc' = "merge")
    <2>1. CASE MergePrepares \/ MergeWrites
      <3>1. CASE MergePrepares
        BY <3>1 DEF MergePrepares, DataInv
      <3>2. CASE MergeWrites
        <4>1. PICK f \in todo : tree' = [tree EXCEPT ![f] = runs] /\ todo' = todo \ {f}
          BY <3>2 DEF MergeWrites
        <4>2. journal' = journal /\ sealed' = sealed /\ (todo' # {} => pc' = "merge")
          BY <3>2 DEF MergeWrites
        <4>3. runs \in 0..MaxRuns
          BY WorkflowAssumption DEF DataInv
        <4>4. tree' \in Versions
          BY <4>1, <4>3 DEF DataInv, Versions
        <4> QED
          BY <4>1, <4>2, <4>4 DEF DataInv
      <3> QED
        BY <2>1, <3>1, <3>2
    <2>2. CASE MergeCommits \/ MergeCompletes
      BY <2>2 DEF MergeCommits, MergeCompletes, DataInv, NoJournal
    <2>3. CASE MergeFails
      <3>1. PICK files \in SUBSET journal.files : tree' = Restored(files)
        BY <2>3 DEF MergeFails
      <3>2. journal' \in {NoJournal, journal} /\ todo' = {} /\ sealed' = sealed
        BY <2>3 DEF MergeFails
      <3> QED
        BY <3>1, <3>2, RestoredVersions DEF DataInv, NoJournal
    <2>4. CASE Recover
      <3>1. PICK files \in SUBSET journal.files : tree' = Restored(files)
        BY <2>4 DEF Recover
      <3>2. journal' \in {NoJournal, journal} /\ todo = {} /\ todo' = {} /\ sealed' = sealed
        BY <2>4 DEF Recover, DataInv
      <3> QED
        BY <3>1, <3>2, RestoredVersions DEF DataInv, NoJournal
    <2>5. CASE Crash
      BY <2>5 DEF Crash, DataInv
    <2>6. CASE UNCHANGED <<tree, sealed, journal, todo>> /\ (todo # {} => pc' = "merge")
      BY <2>6 DEF DataInv
    <2>7. CASE MergeRefused
      BY <2>6, <2>7 DEF MergeRefused
    <2>8. CASE Harvest \/ Record \/ LookAround \/ DispatchEnds \/ MainMoved
      BY <2>6, <2>8 DEF Harvest, Record, LookAround, DispatchEnds, MainMoved, mergeVars, DataInv
    <2>9. CASE Dispatch
      <3>1. todo = {}
        BY <2>9 DEF Dispatch, DataInv
      <3>2. UNCHANGED <<tree, sealed, journal, todo>>
        BY <2>9 DEF Dispatch, DispatchUnmet, DispatchWorker, DispatchGate, DispatchMerge, mergeVars
      <3> QED
        BY <2>6, <3>1, <3>2
    <2>10. CASE \/ Finish \/ Cancel \/ Decide \/ UNCHANGED vars
      BY <2>6, <2>10 DEF Finish, Cancel, Decide, vars, mergeVars, DataInv
    <2>11. CASE \E t \in Declared : Resume(t)
      <3>1. UNCHANGED mergeVars /\ pc = "off"
        BY <2>11 DEF Resume, SeedFromResume
      <3> QED
        BY <2>6, <3>1 DEF mergeVars, DataInv
    <2> QED
      BY <2>1, <2>2, <2>3, <2>4, <2>5, <2>7, <2>8, <2>9, <2>10, <2>11 DEF Next, Loop, Merge
  <1> QED
    BY <1>1, <1>2, <1>3, <1>4, <1>5, <1>6 DEF DataInv

(* Every variable keeps its type, the queues hold known nodes only and a    *)
(* merge writes only files that its journal names.                          *)
THEOREM TypeCorrect == Spec => []TypeOK
  <1>1. Init => DataInv
    <2> SUFFICES ASSUME Init PROVE DataInv
      OBVIOUS
    <2>1. inMemory \in BOOLEAN /\ cancel \in BOOLEAN
      BY DEF Init
    <2>2. runs \in 1..MaxRuns /\ faults \in 0..MaxFaults /\ 0 \in 0..MaxRuns
      BY WorkflowAssumption DEF Init
    <2>3. tree \in Versions /\ sealed \in Versions
      BY <2>2 DEF Init, Versions
    <2> QED
      BY <2>1, <2>2, <2>3 DEF Init, DataInv, NoJournal
  <1>2. DataInv /\ [Next]_vars => DataInv'
    BY DataInvNext
  <1>3. RunInv /\ DataInv => TypeOK
    <2> SUFFICES ASSUME RunInv, DataInv PROVE TypeOK
      OBVIOUS
    <2>1. Elements(frontier) \subseteq Known /\ ActiveIds \subseteq Known /\ Len(active) \in Nat
      BY DEF RunInv, Queues, Workers, Elements, ActiveIds
    <2>2. Elements(due) \subseteq ActiveIds
      BY DEF RunInv, Queues, Snapshot, Elements
    <2>3. CompletedIds \subseteq Known /\ DOMAIN arrivals \subseteq Known
      BY DEF RunInv, Records, CompletedIds, Arrived
    <2>4. merging \in Merges \cup {NoNode} /\ status \in Settled \cup {"RUNNING"}
          /\ pc \in {"head", "record", "dispatch", "merge", "merged", "committed", "off"}
      BY DEF RunInv, Control, Statuses, Phases
    <2>5. {Len(active), cycle, calls} \subseteq Nat
      BY <2>1 DEF RunInv, Budget
    <2> QED
      BY <2>1, <2>2, <2>3, <2>4, <2>5 DEF TypeOK, RunInv, DataInv, Merging, Versions
  <1> QED
    BY <1>1, <1>2, <1>3, RunInvInit, RunInvNext, PTL DEF Spec

=============================================================================
