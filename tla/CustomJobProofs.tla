-------------------------- MODULE CustomJobProofs ---------------------------
(***************************************************************************)
(* Theorems about ExecutionLedger and CustomJob, for every job shape that  *)
(* execute builds, every number of command-line processes, faults and ids. *)
(* What is said of the ledger holds whatever the providers and operators   *)
(* may do (Unchecked); what the human is shown, as long as they keep to    *)
(* what the code leaves to them.                                           *)
(***************************************************************************)
EXTENDS CustomJob, WellFoundedInduction, FiniteSetTheorems, TLAPS

-----------------------------------------------------------------------------
(* The ledger: its lines parse to a log numbered without gaps, and whoever  *)
(* is past the scan is alone and holds the next number.                     *)
Recorded == [event : Events, sequence : Nat]

FileInv ==
  /\ lines \in Seq(Lines)
  /\ Readable \in Seq(Recorded) /\ Range(Readable) = Range(lines) \ {Torn}
  /\ \A i \in 1..Len(Readable) : Readable[i].sequence = i

ScanInv ==
  \A w \in Writers : scanned[w] # 0 =>
    /\ scanned[w] = Len(Readable) + 1
    /\ \A v \in Writers : scanned[v] # 0 => v = w

LedgerInv ==
  /\ LedgerTypeOK /\ FileInv /\ ScanInv
  /\ \A w \in Writers : call[w] # None => answer[w] = "NONE"

-----------------------------------------------------------------------------
(* The job.                                                                 *)
IsState(s) ==
  DOMAIN s = {"status", "telemetry", "known", "started", "closed", "commits",
              "review", "repair", "delta", "candidate", "verdict"}
IsProc(r) == DOMAIN r = {"at", "kind", "todo", "exec", "start", "before", "then"}

\* What a copy of the job's state claims is in the ledger.
Claims(s) ==
  /\ s.known \subseteq EventsOf("EXECUTION_INTENT")
  /\ s.started \subseteq EventsOf("EXECUTION_STARTED")
  /\ s.closed \subseteq EventsOf("EXECUTION_CLOSED")
VerdictRecorded(s) ==
  s.verdict # None =>
    \E d \in decisions : d.verdict = s.verdict /\ d.id \in EventsOf("HUMAN_DECISION_RECORDED")

At(p) == proc[p].at
Exec(p) == proc[p].exec
Asking == {"intent", "starting", "closing", "recording", "deciding"}
InFlight == {"intent", "dispatch", "starting", "running", "closing"}

Honest(s) == IsState(s) /\ Claims(s) /\ VerdictRecorded(s)

\* A verdict is in the copy of the process that asks to have it recorded.
Truthful(p) ==
  /\ Busy(p) /\ At(p) # "deciding" => Honest(mem[p])
  /\ At(p) = "deciding" =>
       /\ IsState(mem[p]) /\ Claims(mem[p])
       /\ [id |-> Exec(p), verdict |-> mem[p].verdict] \in decisions

\* What a process waits for, and what the answer it gets means.
Asked(p) ==
  /\ At(p) \notin Asking => call[p] = None /\ answer[p] = "NONE"
  /\ call[p] # None =>
       /\ At(p) = "intent" => call[p] = Intent(Exec(p))
       /\ At(p) = "starting" => call[p] = Started(Exec(p))
       /\ At(p) = "closing" => \E s \in Sources : call[p] = Closed(Exec(p), s)
       /\ At(p) = "recording" => \E i \in 1..MaxId : call[p] = CommitEvent(i)
       /\ At(p) = "deciding" => call[p] = DecisionEvent(Exec(p))
  /\ answer[p] = "RECORDED" =>
       /\ At(p) = "intent" => Exec(p) \in EventsOf("EXECUTION_INTENT")
       /\ At(p) = "starting" => Exec(p) \in EventsOf("EXECUTION_STARTED")
       /\ At(p) = "closing" => Exec(p) \in EventsOf("EXECUTION_CLOSED")
       /\ At(p) = "deciding" => Exec(p) \in EventsOf("HUMAN_DECISION_RECORDED")

\* An execution in flight: its intent is on file from its dispatch on, and its
\* close is not before it is asked for.
Announced(p) ==
  /\ At(p) \in InFlight => Exec(p) \in 1..lastId
  /\ At(p) \in InFlight \ {"intent"} => Exec(p) \in EventsOf("EXECUTION_INTENT")
  /\ At(p) = "intent" /\ call[p] # None => Exec(p) \notin EventsOf("EXECUTION_INTENT")
  /\ At(p) \in {"intent", "dispatch", "starting"} => proc[p].start = "NOT_OBSERVED"
  /\ At(p) \in {"running", "closing"} /\ proc[p].start = "RECORDED"
       => Exec(p) \in EventsOf("EXECUTION_STARTED")
  /\ At(p) \in InFlight \ {"closing"} \/ (At(p) = "closing" /\ call[p] # None)
       => Exec(p) \notin EventsOf("EXECUTION_CLOSED")
  /\ At(p) = "closing" /\ call[p] # None =>
       call[p].source \in WithoutStart \/ Exec(p) \in EventsOf("EXECUTION_STARTED")

\* The number of an execution in flight is nobody else's.
Distinct ==
  \A p, q \in Processes :
    At(p) \in InFlight /\ At(q) \in InFlight /\ Exec(p) = Exec(q) => p = q

ExecutionTypes == {"EXECUTION_INTENT", "EXECUTION_STARTED", "EXECUTION_CLOSED"}
IdsAllocated == \A type \in ExecutionTypes : EventsOf(type) \subseteq 1..lastId

Trees == [head : 0..MaxId, committed : Nat, content : Nat, paths : Nat]
JobTypes ==
  /\ DOMAIN proc = Processes /\ DOMAIN mem = Processes
  /\ \A p \in Processes : IsProc(proc[p])
  /\ lastId \in 0..MaxId /\ IsFiniteSet(decisions)
  /\ tree \in Trees
  /\ IsState(disk)

JobInv ==
  /\ JobTypes /\ Distinct /\ IdsAllocated
  /\ \A p \in Processes : Truthful(p) /\ Asked(p) /\ Announced(p)
  /\ NothingUnrecorded
  /\ LedgerValid

-----------------------------------------------------------------------------
(* READING THE FILE.  The loop of _scan is a recursive function of the      *)
(* line's number; that it is well defined, and that a prefix is read the    *)
(* same whatever follows it, is shown by induction over that number.        *)
LEMMA Induction ==
  ASSUME NEW S, 0 \in S, \A n \in Nat : n \in S => n + 1 \in S
  PROVE  Nat \subseteq S
  <1> DEFINE R == OpToRel(<, Nat)
             T == Nat \ S
  <1> SUFFICES ASSUME T # {} PROVE FALSE
    OBVIOUS
  <1>1. IsWellFoundedOn(R, Nat)
    BY NatLessThanWellFounded
  <1>2. \A a, b \in Nat : a < b => <<a, b>> \in R
    BY DEF OpToRel
  <1>3. T \subseteq Nat
    OBVIOUS
  <1> HIDE DEF R
  <1>4. PICK x \in T : \A y \in T : ~(<<y, x>> \in R)
    <2> HIDE DEF T
    <2> QED
      BY <1>1, <1>3, WFMin
  <1>5. x \in Nat /\ x # 0
    OBVIOUS
  <1>6. x - 1 \in Nat /\ x - 1 < x /\ x = (x - 1) + 1
    BY <1>5
  <1>7. x - 1 \in S
    BY <1>2, <1>4, <1>5, <1>6
  <1> QED
    BY <1>6, <1>7

\* The body of the loop, and what it means to read the file ls up to line n.
Read(g, ls, i) ==
  IF i = 0 THEN << >>
  ELSE IF ls[i] = Torn THEN g[i - 1] ELSE Append(g[i - 1], ls[i])
Agree(ls, ms, n) == \A i \in 1..n : ms[i] = ls[i]
Reads(g, ls, n) == g = [i \in 0..n |-> Read(g, ls, i)]

LEMMA ReadsExists ==
  ASSUME NEW ls, NEW m \in Nat
  PROVE  \E g : Reads(g, ls, m)
  <1> DEFINE S == {n \in Nat : \E g : Reads(g, ls, n)}
  <1>1. 0 \in S
    <2> DEFINE g0 == [i \in 0..0 |-> << >>]
    <2>1. Reads(g0, ls, 0)
      BY DEF Reads, Read
    <2> QED
      BY <2>1
  <1>2. ASSUME NEW n \in S PROVE n + 1 \in S
    <2>1. PICK g : Reads(g, ls, n)
      OBVIOUS
    <2> DEFINE h == [i \in 0..n + 1 |-> IF i <= n THEN g[i] ELSE Read(g, ls, i)]
    <2>2. n \in Nat
      OBVIOUS
    <2>3. ASSUME NEW i \in 0..n + 1 PROVE h[i] = Read(h, ls, i)
      <3>1. CASE i <= n
        <4>1. h[i] = g[i] /\ (i # 0 => h[i - 1] = g[i - 1])
          BY <2>2, <3>1
        <4>2. g[i] = Read(g, ls, i)
          BY <2>1, <2>2, <3>1 DEF Reads
        <4> QED
          BY <4>1, <4>2 DEF Read
      <3>2. CASE i = n + 1
        BY <2>2, <3>2 DEF Read
      <3> QED
        BY <2>2, <3>1, <3>2
    <2>4. Reads(h, ls, n + 1)
      BY <2>3 DEF Reads
    <2> HIDE DEF h
    <2> QED
      BY <2>2, <2>4
  <1>3. Nat \subseteq S
    <2> HIDE DEF S
    <2> QED
      BY <1>1, <1>2, Induction
  <1> QED
    BY <1>3

LEMMA PrefixReadsSame ==
  ASSUME NEW ls, NEW ms, NEW m \in Nat, NEW n \in Nat, m <= n,
         Agree(ls, ms, m),
         NEW g, Reads(g, ls, m), NEW h, Reads(h, ms, n)
  PROVE  h[m] = g[m]
  <1> DEFINE S == {i \in Nat : i <= m => h[i] = g[i]}
  <1>1. 0 \in S
    BY DEF Reads, Read
  <1>2. ASSUME NEW i \in Nat, i \in S PROVE i + 1 \in S
    <2> SUFFICES ASSUME i + 1 <= m PROVE h[i + 1] = g[i + 1]
      OBVIOUS
    <2>1. g[i + 1] = Read(g, ls, i + 1)
      BY DEF Reads
    <2>2. h[i + 1] = Read(h, ms, i + 1)
      BY DEF Reads
    <2>3. h[i] = g[i] /\ ms[i + 1] = ls[i + 1]
      BY <1>2 DEF Agree
    <2> QED
      BY <2>1, <2>2, <2>3 DEF Read
  <1>3. Nat \subseteq S
    <2> HIDE DEF S
    <2> QED
      BY <1>1, <1>2, Induction
  <1> QED
    BY <1>3

LEMMA ParsedReads ==
  ASSUME Len(lines) \in Nat
  PROVE  Reads(parsed, lines, Len(lines))
  BY ReadsExists DEF parsed, Reads, Read

LEMMA ParsedReadsNext ==
  ASSUME Len(lines') \in Nat
  PROVE  Reads(parsed', lines', Len(lines'))
  BY ReadsExists DEF parsed, Reads, Read

(* A file that is left alone reads the same; a line appended to it adds     *)
(* itself to what is read, or nothing when it is damaged (_scan).           *)
LEMMA ReadableStays ==
  ASSUME Len(lines) \in Nat, lines' = lines
  PROVE  Readable' = Readable
  <1>1. parsed'[Len(lines)] = parsed[Len(lines)]
    BY ParsedReads, ParsedReadsNext, PrefixReadsSame DEF Agree
  <1> QED
    BY <1>1 DEF Readable

LEMMA ReadsOneMore ==
  ASSUME NEW ls, NEW ms, NEW n \in Nat, Agree(ls, ms, n),
         NEW g, Reads(g, ls, n), NEW h, Reads(h, ms, n + 1)
  PROVE  h[n + 1] = IF ms[n + 1] = Torn THEN g[n] ELSE Append(g[n], ms[n + 1])
  <1>1. n + 1 \in Nat /\ n <= n + 1
    OBVIOUS
  <1>2. h[n] = g[n]
    BY <1>1, PrefixReadsSame
  <1>3. h[n + 1] = Read(h, ms, n + 1)
    BY DEF Reads
  <1> QED
    BY <1>2, <1>3 DEF Read

LEMMA ReadableGrows ==
  ASSUME lines \in Seq(Lines), NEW l \in Lines, lines' = Append(lines, l)
  PROVE  Readable' = IF l = Torn THEN Readable ELSE Append(Readable, l)
  <1>1. PICK n \in Nat : n = Len(lines)
    OBVIOUS
  <1>2. Len(lines') = n + 1 /\ lines'[n + 1] = l
    BY <1>1
  <1>3. Agree(lines, lines', n)
    BY <1>1 DEF Agree
  <1>4. Reads(parsed, lines, n) /\ Reads(parsed', lines', n + 1)
    BY <1>1, <1>2, ParsedReads, ParsedReadsNext
  <1>5. parsed'[n + 1] = IF lines'[n + 1] = Torn THEN parsed[n]
                         ELSE Append(parsed[n], lines'[n + 1])
    BY <1>3, <1>4, ReadsOneMore
  <1> QED
    BY <1>1, <1>2, <1>5 DEF Readable

-----------------------------------------------------------------------------
(* THE LEDGER.  What any step of a writer makes of the file.                *)
Untouched == lines' = lines
TornTail == lines' = Append(lines, Torn)
Entered(w) == scanned[w] # 0 /\ lines' = Append(lines, Line(w))

LEMMA RangeAppend ==
  ASSUME NEW S, NEW s \in Seq(S), NEW e \in S
  PROVE  Range(Append(s, e)) = Range(s) \cup {e}
  <1>1. Range(Append(s, e)) \subseteq Range(s) \cup {e}
    BY DEF Range
  <1>2. Range(s) \subseteq Range(Append(s, e))
    BY DEF Range
  <1>3. e \in Range(Append(s, e))
    <2>1. Append(s, e)[Len(s) + 1] = e /\ Len(s) + 1 \in DOMAIN Append(s, e)
      OBVIOUS
    <2> QED
      BY <2>1 DEF Range
  <1> QED
    BY <1>1, <1>2, <1>3

LEMMA FileUntouched ==
  ASSUME FileInv, Untouched
  PROVE  FileInv' /\ Readable' = Readable
  <1>1. Readable' = Readable
    BY ReadableStays DEF FileInv, Untouched
  <1> QED
    BY <1>1 DEF FileInv, Untouched

LEMMA FileTorn ==
  ASSUME FileInv, TornTail
  PROVE  FileInv' /\ Readable' = Readable
  <1>1. Torn \in Lines
    BY DEF Lines
  <1>2. Readable' = Readable
    BY <1>1, ReadableGrows DEF FileInv, TornTail
  <1>3. Range(lines') = Range(lines) \cup {Torn} /\ lines' \in Seq(Lines)
    BY <1>1, RangeAppend DEF FileInv, TornTail
  <1> QED
    BY <1>2, <1>3 DEF FileInv

LEMMA LineType ==
  ASSUME LedgerInv, NEW w \in Writers, scanned[w] # 0
  PROVE  /\ Line(w) \in Recorded /\ Line(w) \in Lines /\ Line(w) # Torn
         /\ Line(w).event = call[w] /\ call[w] \in Events /\ call[w] # None
         /\ Line(w).sequence = Len(Readable) + 1
  <1>1. call[w] \in Events /\ scanned[w] \in Nat /\ call[w] # None
    BY DEF LedgerInv, LedgerTypeOK
  <1> QED
    BY <1>1, NoEvent DEF LedgerInv, ScanInv, Line, Recorded, Lines, Torn

LEMMA FileEntered ==
  ASSUME LedgerInv, NEW w \in Writers, Entered(w)
  PROVE  FileInv' /\ Readable' = Append(Readable, Line(w))
  <1>1. /\ Line(w) \in Recorded /\ Line(w) \in Lines /\ Line(w) # Torn
        /\ Line(w).sequence = Len(Readable) + 1
    BY LineType DEF Entered
  <1>2. FileInv
    BY DEF LedgerInv
  <1>3. Readable' = Append(Readable, Line(w))
    BY <1>1, <1>2, ReadableGrows DEF FileInv, Entered
  <1>4. Range(lines') = Range(lines) \cup {Line(w)} /\ lines' \in Seq(Lines)
    BY <1>1, <1>2, RangeAppend DEF FileInv, Entered
  <1>5. Range(Readable') = Range(Readable) \cup {Line(w)} /\ Readable' \in Seq(Recorded)
    BY <1>1, <1>2, <1>3, RangeAppend DEF FileInv
  <1>6. \A i \in 1..Len(Readable') : Readable'[i].sequence = i
    BY <1>1, <1>2, <1>3 DEF FileInv
  <1> QED
    BY <1>1, <1>2, <1>3, <1>4, <1>5, <1>6 DEF FileInv

(* The number a scan allocates is the next one of the readable log.         *)
LEMMA NextSequence ==
  ASSUME FileInv
  PROVE  LastSequence = Len(Readable)
  <1> DEFINE sequences == {l.sequence : l \in Range(lines) \ {Torn}}
             n == Len(Readable)
  <1>1. n \in Nat /\ sequences = 1..n
    <2>1. sequences = {l.sequence : l \in Range(Readable)}
      BY DEF FileInv
    <2>2. {l.sequence : l \in Range(Readable)} = {Readable[i].sequence : i \in 1..n}
      BY DEF FileInv, Range
    <2>3. {Readable[i].sequence : i \in 1..n} = 1..n
      BY DEF FileInv
    <2> QED
      BY <2>1, <2>2, <2>3 DEF FileInv
  <1>2. LastSequence = IF sequences = {} THEN 0 ELSE Max(sequences)
    BY DEF LastSequence
  <1> HIDE DEF n, sequences
  <1>3. CASE n = 0
    BY <1>1, <1>2, <1>3 DEF n
  <1>4. CASE n # 0
    <2>1. Max(1..n) = n
      BY <1>1, <1>4 DEF Max
    <2> QED
      BY <1>1, <1>2, <1>4, <2>1 DEF n
  <1> QED
    BY <1>3, <1>4

\* What one process does to the ledger in a step, and the steps that only
\* count a fault, or nothing.
Asks(p) == call[p] = None /\ answer[p] = "NONE" /\ \E e \in Events : Ask(p, e)
Hears(p) == call[p] = None /\ answer[p] # "NONE" /\ Hear(p)
LedgerMove(p) == Asks(p) \/ Hears(p) \/ LedgerStep(p) \/ WriterDies(p)
LedgerAside ==
  faults' \in 0..MaxFaults /\ UNCHANGED <<lines, terminated, call, scanned, answer>>

LEMMA MoveOfFile ==
  ASSUME LedgerInv, NEW p \in Writers, LedgerMove(p) \/ LedgerAside
  PROVE  /\ Untouched \/ TornTail \/ Entered(p)
         /\ Entered(p) \/ Readable' = Readable
         /\ FileInv'
  <1>1. Untouched \/ TornTail \/ Entered(p)
    BY DEF LedgerMove, Asks, Ask, Hears, Hear, LedgerStep, LockAndScan, LockFails,
           WriteSucceeds, WriteFails, WriterDies, Written, Extended, LedgerAside,
           Untouched, TornTail, Entered
  <1> QED
    BY <1>1, FileUntouched, FileTorn, FileEntered DEF LedgerInv

LEMMA LedgerInvInit == LedgerInit => LedgerInv
  <1> SUFFICES ASSUME LedgerInit PROVE LedgerInv
    OBVIOUS
  <1>1. lines = << >> /\ lines \in Seq(Lines)
    BY DEF LedgerInit
  <1>2. Readable = << >>
    <2>1. parsed[0] = << >>
      BY <1>1, ParsedReads DEF Reads, Read
    <2> QED
      BY <1>1, <2>1 DEF Readable
  <1>3. Range(lines) = {} /\ Range(Readable) = {}
    BY <1>1, <1>2 DEF Range
  <1> QED
    BY <1>1, <1>2, <1>3, FaultAssumption
    DEF LedgerInv, LedgerTypeOK, FileInv, ScanInv, LedgerInit

LEMMA LedgerInvNext ==
  ASSUME LedgerInv, NEW p \in Writers, LedgerMove(p) \/ LedgerAside
  PROVE  LedgerInv'
  <1>1. FileInv' /\ (Entered(p) \/ Readable' = Readable)
    BY MoveOfFile
  <1>2. FileInv /\ Readable \in Seq(Recorded)
    BY DEF LedgerInv, FileInv
  <1>3. Range(lines') \subseteq Lines
    BY <1>1 DEF FileInv, Range
  <1> USE FaultAssumption, NoEvent DEF LedgerInv, LedgerTypeOK, ScanInv
  <1>4. CASE Asks(p)
    BY <1>1, <1>3, <1>4 DEF Asks, Ask, Entered
  <1>5. CASE Hears(p)
    BY <1>1, <1>3, <1>5 DEF Hears, Hear, Entered
  <1>6. CASE LockAndScan(p)
    <2>1. Readable' = Readable
      BY <1>1, <1>6 DEF LockAndScan, Entered
    <2>2. LastSequence = Len(Readable) /\ Len(Readable) \in Nat
      BY <1>2, NextSequence
    <2> QED
      BY <1>1, <1>3, <1>6, <2>1, <2>2 DEF LockAndScan, Locked
  <1>7. CASE LockFails(p)
    BY <1>1, <1>3, <1>7 DEF LockFails, Entered
  <1>8. ASSUME scanned[p] # 0, Unlock(p), terminated' \in BOOLEAN, faults' \in 0..MaxFaults,
               NEW a \in {"NONE", "RECORDED", "ERROR"}, answer' = [answer EXCEPT ![p] = a]
        PROVE  LedgerInv'
    <2>1. \A w \in Writers : scanned'[w] = 0
      BY <1>8 DEF Unlock
    <2> QED
      BY <1>1, <1>3, <1>8, <2>1 DEF Unlock
  <1>9. CASE WriteSucceeds(p)
    BY <1>8, <1>9 DEF WriteSucceeds
  <1>w. ASSUME Written(p, Line(p)) PROVE terminated' \in BOOLEAN
    BY <1>w DEF Written
  <1>10. CASE WriteFails(p)
    BY <1>8, <1>w, <1>10 DEF WriteFails
  <1>11. CASE WriterDies(p)
    <2>1. CASE scanned[p] # 0
      BY <1>8, <1>w, <1>11, <2>1 DEF WriterDies
    <2>2. CASE scanned[p] = 0
      BY <1>1, <1>3, <1>11, <2>2 DEF WriterDies, Unlock, Entered
    <2> QED
      BY <2>1, <2>2
  <1>12. CASE LedgerAside
    BY <1>1, <1>3, <1>12 DEF LedgerAside, Entered
  <1> QED
    BY <1>4, <1>5, <1>6, <1>7, <1>9, <1>10, <1>11, <1>12 DEF LedgerMove, LedgerStep

(* Every step of the ledger is a step of the abstract log, or none: what    *)
(* readers see changes only when a whole line has been written.             *)
LEMMA MoveOfLog ==
  ASSUME LedgerInv, NEW p \in Writers, LedgerMove(p) \/ LedgerAside
  PROVE  [Log!Next]_Log!vars
  <1>1. Entered(p) \/ Readable' = Readable
    BY MoveOfFile
  <1>2. ASSUME Entered(p)
        PROVE  Readable' = Append(Readable, [event |-> call[p], sequence |-> Len(Readable) + 1])
    <2>1. Line(p) = [event |-> call[p], sequence |-> Len(Readable) + 1]
      BY <1>2 DEF LedgerInv, ScanInv, Entered, Line
    <2> QED
      BY <1>2, <2>1, FileEntered
  <1>3. call \in [Writers -> Events \cup {None}]
        /\ answer \in [Writers -> {"NONE", "RECORDED", "ERROR"}]
    BY DEF LedgerInv, LedgerTypeOK
  <1>4. call[p] # None => answer[p] = "NONE"
    BY DEF LedgerInv
  <1>5. scanned[p] # 0 => call[p] # None
    BY DEF LedgerInv, LedgerTypeOK
  <1> USE <1>3 DEF Log!Next, Log!vars
  <1>6. CASE Asks(p)
    BY <1>1, <1>6, NoEvent DEF Asks, Ask, Log!Ask, Entered, LedgerInv, LedgerTypeOK
  <1>7. CASE Hears(p)
    BY <1>1, <1>5, <1>7 DEF Hears, Hear, Log!Forget, Entered
  <1>8. CASE LockAndScan(p)
    BY <1>1, <1>8 DEF LockAndScan, Entered
  <1>9. CASE LockFails(p)
    BY <1>1, <1>9 DEF LockFails, Log!Fail, Entered
  <1>10. ASSUME scanned[p] # 0, call' = [call EXCEPT ![p] = None],
                NEW a \in {"NONE", "RECORDED", "ERROR"}, answer' = [answer EXCEPT ![p] = a],
                a = "RECORDED" => Entered(p)
         PROVE  Log!Record(p) \/ Log!Fail(p)
    BY <1>1, <1>2, <1>5, <1>10 DEF Log!Record, Log!Fail
  <1>11. CASE WriteSucceeds(p)
    BY <1>10, <1>11 DEF WriteSucceeds, Unlock, Extended, Entered
  <1>12. CASE WriteFails(p)
    BY <1>10, <1>12 DEF WriteFails, Unlock
  <1>13. CASE WriterDies(p)
    <2>1. CASE scanned[p] # 0
      BY <1>10, <1>13, <2>1 DEF WriterDies, Unlock
    <2>2. CASE scanned[p] = 0 /\ call[p] # None
      BY <1>1, <1>13, <2>2 DEF WriterDies, Unlock, Entered, Log!Fail
    <2>3. CASE scanned[p] = 0 /\ call[p] = None
      BY <1>1, <1>13, <2>3 DEF WriterDies, Unlock, Entered, Log!Forget
    <2> QED
      BY <2>1, <2>2, <2>3
  <1>14. CASE LedgerAside
    BY <1>1, <1>14 DEF LedgerAside, Entered
  <1> QED
    BY <1>6, <1>7, <1>8, <1>9, <1>11, <1>12, <1>13, <1>14 DEF LedgerMove, LedgerStep

-----------------------------------------------------------------------------
(* THE JOB.  What is on file of each type, before and after a step.         *)
LEMMA EventsStay ==
  ASSUME Untouched \/ TornTail, FileInv
  PROVE  \A type : EventsOf(type)' = EventsOf(type)
  <1>1. Range(lines') = Range(lines) \/ Range(lines') = Range(lines) \cup {Torn}
    <2>1. CASE Untouched
      BY <2>1 DEF Untouched
    <2>2. CASE TornTail
      BY <2>2, RangeAppend DEF TornTail, FileInv, Lines
    <2> QED
      BY <2>1, <2>2
  <1> QED
    BY <1>1 DEF EventsOf

LEMMA EventsEntered ==
  ASSUME LedgerInv, NEW w \in Writers, Entered(w)
  PROVE  \A type : EventsOf(type)' = IF call[w].type = type
                                      THEN EventsOf(type) \cup {call[w].id} ELSE EventsOf(type)
  <1>1. Line(w) \in Lines /\ Line(w) # Torn /\ Line(w).event = call[w]
    BY LineType DEF Entered
  <1>2. Range(lines') = Range(lines) \cup {Line(w)}
    BY <1>1, RangeAppend DEF LedgerInv, FileInv, Entered
  <1> QED
    BY <1>1, <1>2 DEF EventsOf

(* What the steps of a job do to its ledger.                                *)
LEMMA EventTypes ==
  /\ \A i \in 1..MaxId : {Intent(i), Started(i), CommitEvent(i), DecisionEvent(i)} \subseteq Events
  /\ \A i \in 1..MaxId, s \in Sources : Closed(i, s) \in Events
  BY EventsAssumption DEF JobEvents

LEMMA NextMoves ==
  ASSUME LedgerInv, JobInv, [Next]_vars
  PROVE  LedgerAside \/ \E p \in Writers : LedgerMove(p)
  <1>1. ASSUME NEW p \in Processes, NEW e \in Events, Ask(p, e), At(p) \notin Asking
        PROVE  LedgerMove(p)
    BY <1>1 DEF LedgerMove, Asks, JobInv, Asked
  <1>2. ASSUME NEW p \in Processes, answer[p] # "NONE", Hear(p)
        PROVE  LedgerMove(p)
    BY <1>2, WriterAssumption DEF LedgerMove, Hears, LedgerInv
  <1>3. UNCHANGED ledgerVars => LedgerAside
    BY DEF ledgerVars, LedgerAside, LedgerInv, LedgerTypeOK
  <1>4. \A p \in Processes : At(p) \in InFlight => Exec(p) \in 1..MaxId
    BY BoundAssumption DEF JobInv, Announced, JobTypes
  <1>5. lastId \in 0..MaxId /\ tree.head \in 0..MaxId
    BY DEF JobInv, JobTypes, Trees
  <1> USE DEF At
  <1>6. ASSUME NEW p \in Processes, Invoke(p) PROVE LedgerMove(p) \/ LedgerAside
    <2>1. CASE RefuseInvocation(p)
      BY <1>3, <2>1 DEF RefuseInvocation
    <2>2. CASE AllocateExecution(p)
      <3>1. lastId' \in 1..MaxId
        BY <1>5, <2>2, BoundAssumption DEF AllocateExecution
      <3>2. Intent(lastId') \in Events
        BY <3>1, EventTypes
      <3> QED
        BY <1>1, <2>2, <3>2 DEF AllocateExecution, Asking
    <2>3. CASE IntentAnswered(p) \/ StartAnswered(p) \/ CloseAnswered(p)
      BY <1>2, <2>3 DEF IntentAnswered, StartAnswered, CloseAnswered
    <2>4. ASSUME NEW s \in Sources, NEW then, AskClose(p, s, then), At(p) \in {"dispatch", "running"}
          PROVE  LedgerMove(p)
      <3>1. Closed(Exec(p), s) \in Events
        BY <1>4, <2>4, EventTypes DEF InFlight
      <3> QED
        BY <1>1, <2>4, <3>1 DEF AskClose, Exec, Asking
    <2>5. CASE NotDispatched(p)
      BY <2>4, <2>5 DEF NotDispatched, Sources
    <2>6. CASE SpawnProcess(p)
      <3>1. Started(Exec(p)) \in Events
        BY <1>4, <2>6, EventTypes DEF InFlight, SpawnProcess
      <3> QED
        BY <1>1, <2>6, <3>1 DEF SpawnProcess, Exec, Asking
    <2>7. CASE ChildWorks(p)
      <3>1. faults' = faults \/ Fault
        BY <2>7 DEF ChildWorks
      <3> QED
        <4>1. faults' \in 0..MaxFaults
          BY <3>1, FaultAssumption DEF Fault, LedgerInv, LedgerTypeOK
        <4> QED
          BY <2>7, <4>1 DEF ChildWorks, LedgerAside
    <2>8. CASE ChildEnds(p)
      BY <2>4, <2>8 DEF ChildEnds, Sources, ResultSource, FailureSource, GateSource
    <2> QED
      BY <1>6, <2>1, <2>2, <2>3, <2>5, <2>6, <2>7, <2>8 DEF Invoke
  <1>7. ASSUME NEW p \in Processes, Advance(p) PROVE LedgerMove(p) \/ LedgerAside
    <2>1. CASE UNCHANGED ledgerVars
      BY <1>3, <2>1
    <2>2. CASE CommitTask(p)
      <3>1. tree'.head \in 1..MaxId
        BY <1>5, <2>2, BoundAssumption DEF CommitTask, Committed, JobInv, JobTypes
      <3>2. CommitEvent(tree'.head) \in Events
        BY <3>1, EventTypes
      <3> QED
        BY <1>1, <2>2, <3>2 DEF CommitTask, Asking
    <2>3. CASE CommitAnswered(p) \/ DecisionAnswered(p)
      BY <1>2, <2>3 DEF CommitAnswered, DecisionAnswered
    <2>4. CASE Decide(p)
      <3>1. Cardinality(decisions) + 1 \in 1..MaxId
        <4>1. Cardinality(decisions) \in Nat
          BY FS_CardinalityType DEF JobInv, JobTypes
        <4> QED
          BY <2>4, <4>1, BoundAssumption DEF Decide
      <3>2. DecisionEvent(Cardinality(decisions) + 1) \in Events
        BY <3>1, EventTypes
      <3> QED
        BY <1>1, <2>4, <3>2 DEF Decide, Asking
    <2>5. CASE ProcessDies(p)
      BY <2>5 DEF ProcessDies, LedgerMove
    <2> QED
      BY <1>7, <2>1, <2>2, <2>3, <2>4, <2>5
      DEF Advance, UsePlan, LeaveStages, UseTask, UseGate, RefuseCommit, UseReview, UseRepair,
          UseDelta, Finish, StartRepair
  <1>8. ASSUME MainMoves PROVE LedgerAside
    BY <1>8, FaultAssumption DEF MainMoves, Fault, LedgerAside, LedgerInv, LedgerTypeOK
  <1>9. CASE UNCHANGED vars
    BY <1>3, <1>9 DEF vars
  <1> QED
    BY <1>6, <1>7, <1>8, <1>9, WriterAssumption DEF Next, LedgerMove

(* A step that does not write to the file keeps everything said of the      *)
(* other processes; what it owes is said of the process that takes it.      *)
OthersStay(p) ==
  \A q \in Processes : q # p =>
    proc'[q] = proc[q] /\ mem'[q] = mem[q] /\ call'[q] = call[q] /\ answer'[q] = answer[q]

\* The execution of p is the one it had in flight, or a new number.
KeepsNumber(p) ==
  At(p)' \in InFlight =>
    (At(p) \in InFlight /\ Exec(p)' = Exec(p)) \/ Exec(p)' = lastId + 1

LEMMA EventsUntouched ==
  ASSUME LedgerInv, Untouched
  PROVE  Readable' = Readable /\ \A type : EventsOf(type)' = EventsOf(type)
  BY FileUntouched, EventsStay DEF LedgerInv

LEMMA JobStep ==
  ASSUME LedgerInv, JobInv, NEW p \in Processes, Untouched, OthersStay(p), KeepsNumber(p),
         JobTypes', Truthful(p)', Asked(p)', Announced(p)', NothingUnrecorded',
         decisions \subseteq decisions', lastId' \in {lastId, lastId + 1}
  PROVE  JobInv'
  <1>1. Readable' = Readable /\ \A type : EventsOf(type)' = EventsOf(type)
    BY EventsUntouched
  <1>2. lastId \in Nat
    BY DEF JobInv, JobTypes
  <1>3. ASSUME NEW q \in Processes, q # p
        PROVE  Truthful(q)' /\ Asked(q)' /\ Announced(q)'
    <2>1. /\ At(q)' = At(q) /\ Exec(q)' = Exec(q) /\ proc'[q] = proc[q] /\ mem'[q] = mem[q]
          /\ call'[q] = call[q] /\ answer'[q] = answer[q]
      BY <1>3 DEF OthersStay, At, Exec
    <2>2. Truthful(q) /\ Asked(q) /\ Announced(q)
      BY DEF JobInv
    <2>3. Truthful(q)'
      BY <1>1, <2>1, <2>2 DEF Truthful, Busy, Honest, Claims, VerdictRecorded, IsState, At
    <2>4. Asked(q)'
      BY <1>1, <2>1, <2>2 DEF Asked
    <2>5. Announced(q)'
      BY <1>1, <1>2, <2>1, <2>2 DEF Announced
    <2> QED
      BY <2>3, <2>4, <2>5
  <1>4. Distinct'
    <2> SUFFICES ASSUME NEW q \in Processes, NEW r \in Processes, At(q)' \in InFlight,
                        At(r)' \in InFlight, Exec(q)' = Exec(r)', q # r
                 PROVE  FALSE
      BY DEF Distinct
    <2>1. \A x \in Processes : x # p => At(x)' = At(x) /\ Exec(x)' = Exec(x)
      BY DEF OthersStay, At, Exec
    <2>2. \A x \in Processes : At(x) \in InFlight => Exec(x) \in 1..lastId
      BY DEF JobInv, Announced
    <2>3. \A x \in Processes : x # p /\ At(x)' \in InFlight /\ At(p)' \in InFlight
                             => Exec(x)' # Exec(p)'
      BY <1>2, <2>1, <2>2 DEF KeepsNumber, JobInv, Distinct
    <2> QED
      BY <2>1, <2>3 DEF JobInv, Distinct
  <1>5. IdsAllocated'
    BY <1>1, <1>2 DEF JobInv, IdsAllocated, ExecutionTypes
  <1>6. LedgerValid'
    BY <1>1 DEF JobInv, LedgerValid
  <1> QED
    BY <1>3, <1>4, <1>5, <1>6 DEF JobInv

(* What a process does with a result, or with an answer, but for the rows   *)
(* of its executions and its verdict, changes no claim of its state.        *)
SameClaims(s, t) ==
  /\ IsState(t) /\ t.known = s.known /\ t.started = s.started /\ t.closed = s.closed
  /\ t.verdict = s.verdict

LEMMA HonestSame ==
  ASSUME NEW s, NEW t, Honest(s), SameClaims(s, t)
  PROVE  Honest(t)
  BY DEF Honest, SameClaims, Claims, VerdictRecorded

LEMMA HonestKept ==
  ASSUME NEW s, Honest(s), NEW v
  PROVE  /\ Honest([s EXCEPT !.status = v]) /\ Honest([s EXCEPT !.telemetry = v])
         /\ Honest([s EXCEPT !.commits = v]) /\ Honest([s EXCEPT !.review = v])
         /\ Honest([s EXCEPT !.repair = v]) /\ Honest([s EXCEPT !.delta = v])
         /\ Honest([s EXCEPT !.candidate = v])
  <1> IsState(s)
    BY DEF Honest
  <1>1. SameClaims(s, [s EXCEPT !.status = v])
    BY DEF SameClaims, IsState
  <1>2. SameClaims(s, [s EXCEPT !.telemetry = v])
    BY DEF SameClaims, IsState
  <1>3. SameClaims(s, [s EXCEPT !.commits = v])
    BY DEF SameClaims, IsState
  <1>4. SameClaims(s, [s EXCEPT !.review = v])
    BY DEF SameClaims, IsState
  <1>5. SameClaims(s, [s EXCEPT !.repair = v])
    BY DEF SameClaims, IsState
  <1>6. SameClaims(s, [s EXCEPT !.delta = v])
    BY DEF SameClaims, IsState
  <1>7. SameClaims(s, [s EXCEPT !.candidate = v])
    BY DEF SameClaims, IsState
  <1> QED
    BY <1>1, <1>2, <1>3, <1>4, <1>5, <1>6, <1>7, HonestSame

\* A step that replaces what is known of p alone.
Replaces(p) ==
  /\ DOMAIN proc' = Processes /\ DOMAIN mem' = Processes
  /\ \A q \in Processes : q # p => proc'[q] = proc[q] /\ mem'[q] = mem[q]
  /\ IsProc(proc'[p])

Moved(p) ==
  Replaces(p) /\ proc'[p].at \in {"next", "stopping", "over"} /\ Honest(mem'[p])

LEMMA ProcRecord ==
  \A a, k, t, e, s, b, h :
    IsProc([at |-> a, kind |-> k, todo |-> t, exec |-> e, start |-> s, before |-> b, then |-> h])
  BY DEF IsProc

LEMMA ProcessMoves ==
  ASSUME JobInv, NEW p \in Processes, NEW s, Honest(s), NEW v,
         Stop(p, v, s) \/ Conclude(p, s) \/ Proceed(p, s)
  PROVE  Moved(p)
  <1>1. JobTypes /\ IsProc(proc[p]) /\ IsProc(Waiting)
    BY ProcRecord DEF JobInv, JobTypes, Waiting
  <1>2. ASSUME NEW a \in {"stopping", "over"}, NEW m, Honest(m),
               proc' = [proc EXCEPT ![p] = [Waiting EXCEPT !.kind = proc[p].kind, !.at = a]],
               mem' = [mem EXCEPT ![p] = m]
        PROVE  Moved(p)
    <2>1. PICK r : r = [Waiting EXCEPT !.kind = proc[p].kind, !.at = a]
      OBVIOUS
    <2>2. IsProc(r) /\ r.at = a
      BY <1>1, <2>1 DEF IsProc
    <2>3. proc' = [proc EXCEPT ![p] = r]
      BY <1>2, <2>1
    <2>4. Replaces(p) /\ proc'[p] = r /\ mem'[p] = m
      BY <1>1, <1>2, <2>2, <2>3 DEF JobTypes, Replaces
    <2> QED
      BY <1>2, <2>2, <2>4 DEF Moved
  <1>3. CASE Stop(p, v, s)
    <2> DEFINE m == [s EXCEPT !.status = IF proc[p].kind = "execute" THEN v ELSE @]
               a == IF proc[p].kind = "execute" THEN "stopping" ELSE "over"
    <2>1. Honest(m) /\ a \in {"stopping", "over"}
      BY HonestKept
    <2>2. /\ mem' = [mem EXCEPT ![p] = m]
          /\ proc' = [proc EXCEPT ![p] = [Waiting EXCEPT !.kind = proc[p].kind, !.at = a]]
      BY <1>3 DEF Stop
    <2> HIDE DEF m, a
    <2> QED
      BY <1>2, <2>1, <2>2
  <1>4. CASE Conclude(p, s)
    <2>1. PICK r : r = [Waiting EXCEPT !.at = "stopping", !.kind = proc[p].kind]
      OBVIOUS
    <2>2. IsProc(r) /\ r.at = "stopping"
      BY <1>1, <2>1 DEF IsProc
    <2>3. proc' = [proc EXCEPT ![p] = r] /\ mem' = [mem EXCEPT ![p] = s]
      BY <1>4, <2>1 DEF Conclude
    <2>4. Replaces(p) /\ proc'[p] = r /\ mem'[p] = s
      BY <1>1, <2>2, <2>3 DEF JobTypes, Replaces
    <2> QED
      BY <2>2, <2>4 DEF Moved
  <1>5. CASE Proceed(p, s)
    <2> DEFINE r == [proc[p] EXCEPT !.at = "next", !.todo = Tail(@), !.then = "none"]
    <2>1. proc' = [proc EXCEPT ![p] = r] /\ mem' = [mem EXCEPT ![p] = s]
      BY <1>5 DEF Proceed
    <2>2. IsProc(r) /\ r.at = "next"
      BY <1>1 DEF IsProc
    <2> HIDE DEF r
    <2>3. Replaces(p) /\ proc'[p] = r /\ mem'[p] = s
      BY <1>1, <2>1, <2>2 DEF JobTypes, Replaces
    <2> QED
      BY <2>2, <2>3 DEF Moved
  <1> QED
    BY <1>3, <1>4, <1>5

(* Such a step, saved or not, keeps the invariant of the job.               *)
LEMMA SettleStep ==
  ASSUME LedgerInv, JobInv, NEW p \in Processes, Moved(p), disk' \in {disk, mem'[p]},
         \/ At(p) \notin Asking /\ UNCHANGED ledgerVars
         \/ answer[p] # "NONE" /\ Hear(p),
         UNCHANGED <<tree, lastId, spawned, decisions>>
  PROVE  JobInv'
  <1>1. /\ JobTypes /\ NothingUnrecorded /\ Asked(p)
    BY DEF JobInv
  <1>2. Untouched /\ \A type : EventsOf(type)' = EventsOf(type)
    BY EventsUntouched DEF Untouched, ledgerVars, Hear
  <1>3. call'[p] = None /\ answer'[p] = "NONE"
        /\ \A q \in Processes : q # p => call'[q] = call[q] /\ answer'[q] = answer[q]
    BY <1>1, WriterAssumption DEF LedgerInv, LedgerTypeOK, Asked, Hear, ledgerVars
  <1>4. Honest(mem'[p]) /\ Honest(mem[p])'
    BY <1>2 DEF Moved, Honest, IsState, Claims, VerdictRecorded
  <1>5. At(p)' \in {"next", "stopping", "over"}
    BY DEF Moved, At
  <1>6. JobTypes'
    BY <1>1, <1>4 DEF JobTypes, Moved, Replaces, Honest
  <1>7. Truthful(p)' /\ Asked(p)' /\ Announced(p)'
    BY <1>3, <1>4, <1>5 DEF Truthful, Asked, Announced, Asking, InFlight, At
  <1>8. NothingUnrecorded'
    BY <1>1, <1>2, <1>4 DEF NothingUnrecorded, Honest, Claims, VerdictRecorded
  <1>9. OthersStay(p) /\ KeepsNumber(p)
    BY <1>3, <1>5 DEF OthersStay, KeepsNumber, Moved, Replaces, InFlight
  <1> QED
    BY <1>2, <1>6, <1>7, <1>8, <1>9, JobStep

LEMMA Settled ==
  ASSUME LedgerInv, JobInv, NEW p \in Processes, Busy(p), At(p) # "deciding",
         NEW s, SameClaims(mem[p], s), NEW v,
         Stop(p, v, s) \/ Conclude(p, s) \/ Proceed(p, s),
         disk' \in {disk, mem'[p]},
         \/ At(p) \notin Asking /\ UNCHANGED ledgerVars
         \/ answer[p] # "NONE" /\ Hear(p),
         UNCHANGED <<tree, lastId, spawned, decisions>>
  PROVE  JobInv'
  <1>1. Honest(s)
    BY HonestSame DEF JobInv, Truthful
  <1>2. Moved(p)
    BY <1>1, ProcessMoves
  <1> QED
    BY <1>2, SettleStep

LEMMA StateOfProcess ==
  ASSUME JobInv, NEW p \in Processes, Busy(p), At(p) # "deciding"
  PROVE  IsState(mem[p]) /\ SameClaims(mem[p], mem[p]) /\ SameClaims(mem[p], Called(p))
  <1>1. IsState(mem[p])
    BY DEF JobInv, Truthful, Honest
  <1> QED
    BY <1>1 DEF SameClaims, IsState, Called

LEMMA ResultSteps ==
  ASSUME LedgerInv, JobInv, NEW p \in Processes,
         \/ RefuseInvocation(p) \/ UsePlan(p) \/ LeaveStages(p) \/ UseTask(p) \/ UseGate(p)
         \/ RefuseCommit(p) \/ CommitAnswered(p)
  PROVE  JobInv'
  <1>1. /\ Busy(p) /\ At(p) # "deciding"
        /\ \/ At(p) \notin Asking /\ UNCHANGED ledgerVars
           \/ answer[p] # "NONE" /\ Hear(p)
        /\ UNCHANGED <<tree, lastId, spawned, decisions>>
    BY DEF RefuseInvocation, UsePlan, LeaveStages, UseTask, UseGate, RefuseCommit, CommitAnswered,
           Finished, At, Asking, Busy, jobRest
  <1>2. /\ IsState(mem[p]) /\ SameClaims(mem[p], mem[p]) /\ SameClaims(mem[p], Called(p))
        /\ IsState(Called(p))
    BY <1>1, StateOfProcess DEF SameClaims
  <1>3. ASSUME NEW s, NEW v, SameClaims(mem[p], s),
               Stop(p, v, s) \/ Conclude(p, s) \/ Proceed(p, s), disk' \in {disk, mem'[p]}
        PROVE  JobInv'
    BY <1>1, <1>3, Settled
  <1>4. \A s : Conclude(p, s) \/ Proceed(p, s) => mem'[p] = s
    BY DEF Conclude, Proceed, JobInv, JobTypes
  <1>5. CASE RefuseInvocation(p)
    BY <1>2, <1>3, <1>5 DEF RefuseInvocation
  <1>6. CASE UsePlan(p)
    <2>1. PICK s : s = [Called(p) EXCEPT !.status = "WAITING_FOR_PLAN_APPROVAL"]
      OBVIOUS
    <2>2. SameClaims(mem[p], s)
      BY <1>2, <2>1 DEF SameClaims, IsState
    <2>3. CASE Conclude(p, s) /\ disk' = s
      BY <1>3, <1>4, <2>2, <2>3
    <2> QED
      BY <1>2, <1>3, <1>6, <2>1, <2>3 DEF UsePlan
  <1>7. CASE LeaveStages(p)
    <2>1. PICK s : s = [mem[p] EXCEPT !.status = "BLOCKED"]
      OBVIOUS
    <2>2. SameClaims(mem[p], s)
      BY <1>2, <2>1 DEF SameClaims, IsState
    <2> QED
      BY <1>3, <1>7, <2>1, <2>2 DEF LeaveStages
  <1>8. CASE UseTask(p)
    BY <1>2, <1>3, <1>4, <1>8 DEF UseTask
  <1>9. CASE UseGate(p)
    BY <1>2, <1>3, <1>9 DEF UseGate
  <1>10. CASE RefuseCommit(p)
    BY <1>2, <1>3, <1>10 DEF RefuseCommit
  <1>11. CASE CommitAnswered(p)
    BY <1>2, <1>3, <1>4, <1>11 DEF CommitAnswered
  <1> QED
    BY <1>5, <1>6, <1>7, <1>8, <1>9, <1>10, <1>11

LEMMA ReviewSteps ==
  ASSUME LedgerInv, JobInv, NEW p \in Processes, UseReview(p) \/ UseRepair(p) \/ UseDelta(p)
  PROVE  JobInv'
  <1>1. /\ Busy(p) /\ At(p) # "deciding" /\ At(p) \notin Asking /\ UNCHANGED ledgerVars
        /\ UNCHANGED <<tree, lastId, spawned, decisions, disk>>
    BY DEF UseReview, UseRepair, UseDelta, Finished, At, Asking, Busy, jobRest
  <1>2. IsState(Called(p)) /\ SameClaims(mem[p], Called(p))
    BY <1>1, StateOfProcess DEF SameClaims
  <1>3. ASSUME NEW s, NEW v, SameClaims(mem[p], s),
               Stop(p, v, s) \/ Conclude(p, s) \/ Proceed(p, s)
        PROVE  JobInv'
    BY <1>1, <1>3, Settled
  <1>4. ASSUME NEW s, SameClaims(mem[p], s), NEW c, NEW v
        PROVE  /\ SameClaims(mem[p], [s EXCEPT !.status = v])
               /\ SameClaims(mem[p], [s EXCEPT !.candidate = c, !.status = v])
    BY <1>4 DEF SameClaims, IsState
  <1>5. CASE UseReview(p)
    <2>1. PICK s : s = [Called(p) EXCEPT !.review =
                 [outcome |-> proc[p].then, head |-> tree.head, content |-> proc[p].before.content]]
      OBVIOUS
    <2>2. SameClaims(mem[p], s)
      BY <1>2, <2>1 DEF SameClaims, IsState
    <2>3. PICK t : t = [s EXCEPT !.candidate = Candidate, !.status = "WAITING_FOR_HUMAN"]
      OBVIOUS
    <2>4. PICK u : u = [s EXCEPT !.status = "WAITING_FOR_REPAIR_SELECTION"]
      OBVIOUS
    <2>5. SameClaims(mem[p], t) /\ SameClaims(mem[p], u)
      BY <1>4, <2>2, <2>3, <2>4
    <2> QED
      BY <1>2, <1>3, <1>5, <2>1, <2>2, <2>3, <2>4, <2>5 DEF UseReview
  <1>6. CASE UseRepair(p)
    <2>1. \A from, v : SameClaims(mem[p], [Called(p) EXCEPT !.repair = from])
                    /\ SameClaims(mem[p], [Called(p) EXCEPT !.status = v])
      BY <1>2 DEF SameClaims, IsState
    <2> QED
      BY <1>3, <1>6, <2>1 DEF UseRepair
  <1>7. CASE UseDelta(p)
    <2>1. PICK s : s = [Called(p) EXCEPT !.delta =
                 [outcome |-> proc[p].then, from |-> mem[p].repair, to |-> proc[p].before.content]]
      OBVIOUS
    <2>2. SameClaims(mem[p], s)
      BY <1>2, <2>1 DEF SameClaims, IsState
    <2>3. PICK t : t = [s EXCEPT !.candidate = Candidate, !.status = "WAITING_FOR_HUMAN"]
      OBVIOUS
    <2>4. PICK u : u = [s EXCEPT !.status = "INVALID"]
      OBVIOUS
    <2>5. PICK w : w = [s EXCEPT !.status = proc[p].then]
      OBVIOUS
    <2>6. SameClaims(mem[p], t) /\ SameClaims(mem[p], u) /\ SameClaims(mem[p], w)
      BY <1>4, <2>2, <2>3, <2>4, <2>5
    <2> QED
      BY <1>3, <1>7, <2>1, <2>2, <2>3, <2>4, <2>5, <2>6 DEF UseDelta
  <1> QED
    BY <1>5, <1>6, <1>7

LEMMA LastSave ==
  ASSUME LedgerInv, JobInv, NEW p \in Processes, Finish(p)
  PROVE  JobInv'
  <1>1. Busy(p) /\ At(p) \notin Asking /\ At(p) # "deciding"
    BY DEF Finish, At, Asking, Busy
  <1>2. JobTypes /\ Honest(mem[p])
    BY <1>1 DEF JobInv, Truthful
  <1>3. Moved(p)
    BY <1>2 DEF Finish, Set, Moved, Replaces, JobTypes, IsProc
  <1> QED
    BY <1>1, <1>2, <1>3, SettleStep DEF Finish, jobRest

(* The steps of an invocation.  Each asks the ledger, hears its answer, or   *)
(* leaves it alone, and changes where its process is.                        *)
LEMMA InvocationFrame ==
  ASSUME LedgerInv, JobInv, NEW p \in Processes,
         (\E e : Ask(p, e)) \/ Hear(p) \/ UNCHANGED <<lines, call, answer>>
  PROVE  /\ Untouched /\ \A type : EventsOf(type)' = EventsOf(type)
         /\ \A q \in Processes : q # p => call'[q] = call[q] /\ answer'[q] = answer[q]
         /\ \A e : Ask(p, e) => call'[p] = e /\ answer'[p] = "NONE"
         /\ Hear(p) => call'[p] = call[p] /\ answer'[p] = "NONE"
  <1>1. Untouched
    BY DEF Untouched, Ask, Hear
  <1>2. DOMAIN call = Processes /\ DOMAIN answer = Processes
    BY WriterAssumption DEF LedgerInv, LedgerTypeOK
  <1> QED
    BY <1>1, <1>2, EventsUntouched DEF Ask, Hear

LEMMA AllocateStep ==
  ASSUME LedgerInv, JobInv, NEW p \in Processes, AllocateExecution(p)
  PROVE  JobInv'
  <1>1. /\ Ask(p, Intent(lastId + 1)) /\ lastId' = lastId + 1 /\ disk' = mem[p] /\ lastId < MaxId
        /\ mem' = mem /\ spawned' = spawned /\ decisions' = decisions /\ tree' = tree
        /\ At(p) = "next"
    BY DEF AllocateExecution, At
  <1>2. /\ Untouched /\ \A type : EventsOf(type)' = EventsOf(type)
        /\ \A q \in Processes : q # p => call'[q] = call[q] /\ answer'[q] = answer[q]
        /\ call'[p] = Intent(lastId + 1) /\ answer'[p] = "NONE"
    BY <1>1, InvocationFrame
  <1>3. JobTypes /\ NothingUnrecorded /\ IdsAllocated /\ Honest(mem[p]) /\ lastId \in 0..MaxId
    BY <1>1 DEF JobInv, Truthful, Busy, At, JobTypes
  <1>4. /\ DOMAIN proc' = Processes /\ \A q \in Processes : IsProc(proc'[q])
        /\ \A q \in Processes : q # p => proc'[q] = proc[q]
        /\ At(p)' = "intent" /\ Exec(p)' = lastId + 1 /\ proc'[p].start = "NOT_OBSERVED"
    BY <1>1, <1>3 DEF AllocateExecution, JobTypes, IsProc, At, Exec
  <1>5. JobTypes'
    BY <1>1, <1>3, <1>4, BoundAssumption DEF JobTypes, Honest
  <1>6. Honest(mem[p])'
    BY <1>1, <1>2, <1>3 DEF Honest, Claims, VerdictRecorded, IsState
  <1>7. Truthful(p)' /\ Asked(p)'
    BY <1>2, <1>4, <1>6 DEF Truthful, Asked, Asking, Intent
  <1>8. Announced(p)'
    BY <1>1, <1>2, <1>3, <1>4, BoundAssumption
    DEF Announced, InFlight, IdsAllocated, ExecutionTypes
  <1>9. NothingUnrecorded'
    BY <1>1, <1>2, <1>3 DEF NothingUnrecorded, Honest, Claims, VerdictRecorded
  <1>10. OthersStay(p) /\ KeepsNumber(p)
    BY <1>1, <1>2, <1>4 DEF OthersStay, KeepsNumber
  <1> QED
    BY <1>1, <1>2, <1>5, <1>7, <1>8, <1>9, <1>10, JobStep

LEMMA IntentStep ==
  ASSUME LedgerInv, JobInv, NEW p \in Processes, IntentAnswered(p)
  PROVE  JobInv'
  <1>1. /\ answer[p] # "NONE" /\ Hear(p) /\ At(p) = "intent"
        /\ UNCHANGED <<tree, lastId, spawned, decisions>>
    BY DEF IntentAnswered, At
  <1>2. /\ JobTypes /\ NothingUnrecorded /\ Honest(mem[p]) /\ IsState(mem[p])
        /\ Asked(p) /\ Announced(p) /\ call[p] = None
    BY <1>1, WriterAssumption DEF JobInv, Truthful, Busy, At, Honest, LedgerInv
  <1>3. CASE Dispatchable(p)
    <2>1. PICK s : s = [mem[p] EXCEPT !.known = @ \cup {Exec(p)}]
      OBVIOUS
    <2>2. /\ mem' = [mem EXCEPT ![p] = s] /\ disk' = s /\ proc' = Set(p, "at", "dispatch")
      BY <1>3, <2>1 DEF IntentAnswered, Exec
    <2>3. Exec(p) \in EventsOf("EXECUTION_INTENT")
      BY <1>1, <1>2, <1>3 DEF Dispatchable, Asked
    <2>4. Honest(s)
      BY <1>2, <2>1, <2>3 DEF Honest, IsState, Claims, VerdictRecorded
    <2>5. /\ Untouched /\ \A type : EventsOf(type)' = EventsOf(type)
          /\ \A q \in Processes : q # p => call'[q] = call[q] /\ answer'[q] = answer[q]
          /\ call'[p] = None /\ answer'[p] = "NONE"
      BY <1>1, <1>2, InvocationFrame
    <2>6. /\ DOMAIN proc' = Processes /\ \A q \in Processes : IsProc(proc'[q])
          /\ \A q \in Processes : q # p => proc'[q] = proc[q] /\ mem'[q] = mem[q]
          /\ At(p)' = "dispatch" /\ Exec(p)' = Exec(p) /\ proc'[p].start = proc[p].start
          /\ DOMAIN mem' = Processes /\ mem'[p] = s
      BY <1>2, <2>2 DEF JobTypes, IsProc, At, Exec, Set
    <2>7. JobTypes'
      BY <1>1, <1>2, <2>2, <2>4, <2>6 DEF JobTypes, Honest
    <2>8. Honest(mem[p])'
      BY <1>1, <2>4, <2>5, <2>6 DEF Honest, Claims, VerdictRecorded, IsState
    <2>9. Truthful(p)' /\ Asked(p)'
      BY <2>5, <2>6, <2>8 DEF Truthful, Asked, Asking
    <2>10. Announced(p)'
      BY <1>1, <1>2, <2>3, <2>5, <2>6 DEF Announced, InFlight
    <2>11. NothingUnrecorded'
      BY <1>1, <1>2, <2>2, <2>4, <2>5 DEF NothingUnrecorded, Honest, Claims, VerdictRecorded
    <2>12. OthersStay(p) /\ KeepsNumber(p)
      BY <1>1, <2>5, <2>6 DEF OthersStay, KeepsNumber, InFlight
    <2> QED
      BY <1>1, <2>5, <2>7, <2>9, <2>10, <2>11, <2>12, JobStep
  <1>4. CASE ~Dispatchable(p)
    <2>1. Stop(p, "BLOCKED", mem[p]) /\ disk' = disk
      BY <1>4 DEF IntentAnswered
    <2> QED
      BY <1>1, <1>2, <2>1, Settled DEF Busy, At, SameClaims
  <1> QED
    BY <1>3, <1>4

\* A step that changes no file, nor any copy of the job's state: what is owed
\* is what it says of its own execution.
LEMMA PlaceStep ==
  ASSUME LedgerInv, JobInv, NEW p \in Processes,
         (\E e : Ask(p, e)) \/ Hear(p) \/ UNCHANGED <<lines, call, answer>>,
         UNCHANGED <<mem, disk, lastId, decisions>>,
         At(p) \in InFlight, At(p)' \in InFlight, Exec(p)' = Exec(p),
         DOMAIN proc' = Processes, IsProc(proc'[p]),
         \A q \in Processes : q # p => proc'[q] = proc[q],
         Asked(p)', Announced(p)', spawned' \subseteq EventsOf("EXECUTION_INTENT"),
         tree' \in Trees
  PROVE  JobInv'
  <1>1. JobTypes /\ NothingUnrecorded /\ Honest(mem[p])
    BY DEF JobInv, Truthful, Busy, InFlight, At
  <1>2. Untouched /\ \A type : EventsOf(type)' = EventsOf(type)
    BY InvocationFrame
  <1>3. OthersStay(p) /\ KeepsNumber(p)
    BY InvocationFrame DEF OthersStay, KeepsNumber
  <1>4. JobTypes'
    BY <1>1 DEF JobTypes
  <1>5. Honest(mem[p])'
    BY <1>1, <1>2 DEF Honest, Claims, VerdictRecorded, IsState
  <1>6. Truthful(p)'
    BY <1>5 DEF Truthful, InFlight, Busy, At
  <1>7. NothingUnrecorded'
    BY <1>1, <1>2 DEF NothingUnrecorded
  <1> QED
    BY <1>2, <1>3, <1>4, <1>6, <1>7, JobStep

LEMMA CloseStep ==
  ASSUME LedgerInv, JobInv, NEW p \in Processes, NotDispatched(p) \/ ChildEnds(p)
  PROVE  JobInv'
  <1>1. PICK s \in Sources, then \in {"stop", "stray", "PASS", "FAIL"} :
          /\ AskClose(p, s, then) /\ At(p) \in {"dispatch", "running"}
          /\ s \in WithoutStart \/ (At(p) = "running" /\ proc[p].start = "RECORDED")
    BY DEF NotDispatched, ChildEnds, ResultSource, FailureSource, GateSource, Sources, WithoutStart, At
  <1>2. JobTypes /\ Announced(p)
    BY DEF JobInv
  <1>3. /\ DOMAIN proc' = Processes /\ IsProc(proc'[p])
        /\ \A q \in Processes : q # p => proc'[q] = proc[q]
        /\ At(p)' = "closing" /\ Exec(p)' = Exec(p) /\ proc'[p].start = proc[p].start
    BY <1>1, <1>2 DEF AskClose, JobTypes, IsProc, At, Exec
  <1>4. Ask(p, Closed(Exec(p), s))
    BY <1>1 DEF AskClose, Exec
  <1>5. /\ \A type : EventsOf(type)' = EventsOf(type)
        /\ call'[p] = Closed(Exec(p), s) /\ answer'[p] = "NONE"
    BY <1>4, InvocationFrame
  <1>6. UNCHANGED <<tree, lastId, disk, mem, spawned, decisions>>
    BY DEF NotDispatched, ChildEnds
  <1>7. Asked(p)'
    BY <1>3, <1>5 DEF Asked, Asking
  <1>8. Announced(p)'
    BY <1>1, <1>2, <1>3, <1>5, <1>6 DEF Announced, InFlight, Closed
  <1>9. spawned' \subseteq EventsOf("EXECUTION_INTENT")
    BY <1>6 DEF JobInv, NothingUnrecorded
  <1> QED
    BY <1>1, <1>2, <1>3, <1>4, <1>6, <1>7, <1>8, <1>9, PlaceStep DEF InFlight, JobTypes

LEMMA SpawnStep ==
  ASSUME LedgerInv, JobInv, NEW p \in Processes, SpawnProcess(p)
  PROVE  JobInv'
  <1>1. /\ At(p) = "dispatch" /\ Ask(p, Started(Exec(p))) /\ spawned' = spawned \cup {Exec(p)}
        /\ UNCHANGED <<tree, lastId, disk, mem, decisions>>
    BY DEF SpawnProcess, At, Exec
  <1>2. JobTypes /\ Announced(p)
    BY DEF JobInv
  <1>3. /\ DOMAIN proc' = Processes /\ IsProc(proc'[p])
        /\ \A q \in Processes : q # p => proc'[q] = proc[q]
        /\ At(p)' = "starting" /\ Exec(p)' = Exec(p) /\ proc'[p].start = proc[p].start
    BY <1>2 DEF SpawnProcess, Set, JobTypes, IsProc, At, Exec
  <1>4. /\ \A type : EventsOf(type)' = EventsOf(type)
        /\ call'[p] = Started(Exec(p)) /\ answer'[p] = "NONE"
    BY <1>1, InvocationFrame
  <1>5. Asked(p)'
    BY <1>3, <1>4 DEF Asked, Asking
  <1>6. Announced(p)'
    BY <1>1, <1>2, <1>3, <1>4 DEF Announced, InFlight
  <1>7. spawned' \subseteq EventsOf("EXECUTION_INTENT")
    BY <1>1, <1>2 DEF JobInv, NothingUnrecorded, Announced, InFlight
  <1> QED
    BY <1>1, <1>2, <1>3, <1>5, <1>6, <1>7, PlaceStep DEF InFlight, JobTypes

LEMMA StartStep ==
  ASSUME LedgerInv, JobInv, NEW p \in Processes, StartAnswered(p)
  PROVE  JobInv'
  <1>1. /\ At(p) = "starting" /\ answer[p] # "NONE" /\ Hear(p)
        /\ UNCHANGED <<tree, lastId, disk, mem, spawned, decisions>>
    BY DEF StartAnswered, At
  <1>2. JobTypes /\ Announced(p) /\ Asked(p) /\ call[p] = None
    BY <1>1, WriterAssumption DEF JobInv, LedgerInv
  <1>3. /\ DOMAIN proc' = Processes /\ IsProc(proc'[p])
        /\ \A q \in Processes : q # p => proc'[q] = proc[q]
        /\ At(p)' = "running" /\ Exec(p)' = Exec(p)
        /\ proc'[p].start = IF answer[p] = "RECORDED" THEN "RECORDED" ELSE "UNCERTAIN"
    BY <1>2 DEF StartAnswered, JobTypes, IsProc, At, Exec
  <1>4. /\ \A type : EventsOf(type)' = EventsOf(type)
        /\ call'[p] = None /\ answer'[p] = "NONE"
    BY <1>1, <1>2, InvocationFrame
  <1>5. Asked(p)'
    BY <1>3, <1>4 DEF Asked, Asking
  <1>6. Announced(p)'
    BY <1>1, <1>2, <1>3, <1>4 DEF Announced, Asked, InFlight
  <1>7. spawned' \subseteq EventsOf("EXECUTION_INTENT")
    BY <1>1 DEF JobInv, NothingUnrecorded
  <1> QED
    BY <1>1, <1>2, <1>3, <1>5, <1>6, <1>7, PlaceStep DEF InFlight, JobTypes

LEMMA TreeTypes ==
  ASSUME tree \in Trees
  PROVE  /\ \A newPath \in BOOLEAN : Edited(newPath) \in Trees
         /\ tree.head < MaxId => Committed \in Trees /\ Committed.head \in 1..MaxId
  <1>1. ASSUME NEW newPath \in BOOLEAN PROVE Edited(newPath) \in Trees
    <2>1. PICK n, k : n = tree.content + 1 /\ k = IF newPath THEN tree.paths + 1 ELSE tree.paths
      OBVIOUS
    <2>2. n \in Nat /\ k \in Nat
      BY <2>1 DEF Trees
    <2>3. Edited(newPath) = [tree EXCEPT !.content = n, !.paths = k]
      BY <2>1 DEF Edited
    <2> QED
      BY <2>2, <2>3 DEF Trees
  <1>2. ASSUME tree.head < MaxId PROVE Committed \in Trees /\ Committed.head \in 1..MaxId
    <2>1. PICK n : n = tree.head + 1
      OBVIOUS
    <2>2. n \in 1..MaxId /\ n \in 0..MaxId
      BY <1>2, <2>1, BoundAssumption DEF Trees
    <2>3. Committed = [tree EXCEPT !.head = n, !.committed = tree.content, !.paths = 0]
      BY <2>1 DEF Committed
    <2> QED
      BY <2>2, <2>3 DEF Trees
  <1> QED
    BY <1>1, <1>2

LEMMA WorkStep ==
  ASSUME LedgerInv, JobInv, NEW p \in Processes, ChildWorks(p)
  PROVE  JobInv'
  <1>1. /\ At(p) = "running" /\ UNCHANGED <<lines, call, answer>>
        /\ UNCHANGED <<proc, lastId, disk, mem, spawned, decisions>>
    BY DEF ChildWorks, At
  <1>2. JobTypes /\ Announced(p) /\ Asked(p) /\ NothingUnrecorded
    BY DEF JobInv
  <1>3. tree' = Edited(TRUE) \/ tree' = Edited(FALSE) \/ (tree' = Committed /\ tree.head < MaxId)
    BY DEF ChildWorks
  <1>4. tree' \in Trees
    BY <1>2, <1>3, TreeTypes DEF JobTypes
  <1>5. \A type : EventsOf(type)' = EventsOf(type)
    BY <1>1, InvocationFrame
  <1>6. Asked(p)' /\ Announced(p)' /\ At(p)' = At(p) /\ Exec(p)' = Exec(p)
    BY <1>1, <1>2, <1>5 DEF Asked, Announced, At, Exec
  <1> QED
    BY <1>1, <1>2, <1>4, <1>6, PlaceStep DEF InFlight, JobTypes, NothingUnrecorded

LEMMA RowStep ==
  ASSUME LedgerInv, JobInv, NEW p \in Processes, CloseAnswered(p)
  PROVE  JobInv'
  <1>1. /\ At(p) = "closing" /\ answer[p] # "NONE" /\ Hear(p) /\ Busy(p)
        /\ UNCHANGED <<tree, lastId, spawned, decisions>>
    BY DEF CloseAnswered, At, Busy
  <1>2. /\ JobTypes /\ NothingUnrecorded /\ Honest(mem[p]) /\ IsState(mem[p]) /\ IsProc(proc[p])
        /\ Asked(p) /\ Announced(p) /\ call[p] = None
    BY <1>1, WriterAssumption DEF JobInv, JobTypes, Truthful, At, Honest, LedgerInv
  <1>3. PICK row : row = [mem[p] EXCEPT
            !.started = IF proc[p].start = "RECORDED" THEN @ \cup {proc[p].exec} ELSE @,
            !.closed = IF answer[p] = "RECORDED" THEN @ \cup {proc[p].exec} ELSE @]
    OBVIOUS
  <1>4. /\ IsState(row) /\ row.known = mem[p].known /\ row.verdict = mem[p].verdict
        /\ row.started = IF proc[p].start = "RECORDED" THEN mem[p].started \cup {Exec(p)}
                                                       ELSE mem[p].started
        /\ row.closed = IF answer[p] = "RECORDED" THEN mem[p].closed \cup {Exec(p)}
                                                  ELSE mem[p].closed
    BY <1>2, <1>3 DEF IsState, Exec
  <1>5. /\ proc[p].start = "RECORDED" => Exec(p) \in EventsOf("EXECUTION_STARTED")
        /\ answer[p] = "RECORDED" => Exec(p) \in EventsOf("EXECUTION_CLOSED")
    BY <1>1, <1>2 DEF Announced, Asked
  <1>6. Honest(row)
    BY <1>2, <1>4, <1>5 DEF Honest, Claims, VerdictRecorded
  <1>7. /\ Untouched /\ \A type : EventsOf(type)' = EventsOf(type)
        /\ \A q \in Processes : q # p => call'[q] = call[q] /\ answer'[q] = answer[q]
        /\ call'[p] = None /\ answer'[p] = "NONE"
    BY <1>1, <1>2, InvocationFrame
  <1>8. disk' = row
    BY <1>3 DEF CloseAnswered
  <1>9. /\ Replaces(p) /\ Honest(mem'[p])
        /\ \/ proc'[p].at \in {"next", "stopping", "over"}
           \/ proc'[p].at = "result"
    <2>1. CASE \E v : Stop(p, v, row) \/ Conclude(p, row)
      BY <1>6, <2>1, ProcessMoves DEF Moved
    <2>2. CASE mem' = [mem EXCEPT ![p] = row] /\ proc' = Set(p, "at", "result")
      BY <1>2, <1>6, <2>2 DEF Set, Replaces, JobTypes, IsProc
    <2> QED
      BY <1>3, <2>1, <2>2 DEF CloseAnswered
  <1>10. Honest(mem[p])' /\ Honest(disk)'
    BY <1>1, <1>6, <1>7, <1>8, <1>9 DEF Honest, IsState, Claims, VerdictRecorded
  <1>11. JobTypes'
    BY <1>1, <1>2, <1>9, <1>10 DEF JobTypes, Replaces, Honest
  <1>12. Truthful(p)' /\ Asked(p)' /\ Announced(p)'
    BY <1>7, <1>9, <1>10 DEF Truthful, Asked, Announced, Asking, InFlight, At
  <1>13. NothingUnrecorded'
    BY <1>1, <1>2, <1>7, <1>10 DEF NothingUnrecorded, Honest, Claims, VerdictRecorded
  <1>14. OthersStay(p) /\ KeepsNumber(p)
    BY <1>7, <1>9 DEF OthersStay, KeepsNumber, Replaces, InFlight, At
  <1> QED
    BY <1>1, <1>7, <1>11, <1>12, <1>13, <1>14, JobStep

LEMMA CommitStep ==
  ASSUME LedgerInv, JobInv, NEW p \in Processes, CommitTask(p)
  PROVE  JobInv'
  <1>1. /\ At(p) = "next" /\ Busy(p) /\ tree' = Committed /\ tree.head < MaxId
        /\ UNCHANGED <<lastId, disk, spawned, decisions>>
    BY DEF CommitTask, At, Busy
  <1>2. JobTypes /\ NothingUnrecorded /\ Honest(mem[p]) /\ IsState(mem[p]) /\ IsProc(proc[p])
    BY <1>1 DEF JobInv, JobTypes, Truthful, Honest, At
  <1>3. /\ tree' \in Trees
        /\ tree'.head \in 1..MaxId
    BY <1>1, <1>2, TreeTypes DEF JobTypes
  <1>4. PICK s : s = [mem[p] EXCEPT !.commits = @ \cup {tree'.head}]
    OBVIOUS
  <1>5. SameClaims(mem[p], s)
    BY <1>2, <1>4 DEF SameClaims, IsState
  <1>6. Honest(s)
    BY <1>2, <1>5, HonestSame
  <1>7. /\ mem' = [mem EXCEPT ![p] = s] /\ proc' = Set(p, "at", "recording")
        /\ Ask(p, CommitEvent(tree'.head))
    BY <1>4 DEF CommitTask
  <1>8. /\ Untouched /\ \A type : EventsOf(type)' = EventsOf(type)
        /\ \A q \in Processes : q # p => call'[q] = call[q] /\ answer'[q] = answer[q]
        /\ call'[p] = CommitEvent(tree'.head) /\ answer'[p] = "NONE"
    BY <1>7, InvocationFrame
  <1>9. Replaces(p) /\ mem'[p] = s /\ At(p)' = "recording"
    BY <1>2, <1>7 DEF Set, Replaces, JobTypes, IsProc, At
  <1>10. Honest(mem[p])'
    BY <1>1, <1>6, <1>8, <1>9 DEF Honest, IsState, Claims, VerdictRecorded
  <1>11. JobTypes'
    BY <1>1, <1>2, <1>3, <1>9 DEF JobTypes, Replaces
  <1>12. Truthful(p)' /\ Asked(p)' /\ Announced(p)'
    BY <1>3, <1>8, <1>9, <1>10 DEF Truthful, Asked, Announced, Asking, InFlight
  <1>13. NothingUnrecorded'
    BY <1>1, <1>2, <1>8 DEF NothingUnrecorded
  <1>14. OthersStay(p) /\ KeepsNumber(p)
    BY <1>8, <1>9 DEF OthersStay, KeepsNumber, Replaces, InFlight
  <1> QED
    BY <1>1, <1>8, <1>11, <1>12, <1>13, <1>14, JobStep

(* The command line.                                                        *)
LEMMA RepairStep ==
  ASSUME LedgerInv, JobInv, NEW p \in Processes, StartRepair(p)
  PROVE  JobInv'
  <1>1. /\ At(p) \notin Asking /\ UNCHANGED ledgerVars /\ disk' = disk
        /\ mem' = [mem EXCEPT ![p] = disk] /\ UNCHANGED <<tree, lastId, spawned, decisions>>
    BY DEF StartRepair, At, Asking, jobRest
  <1>2. JobTypes /\ Honest(disk)
    BY DEF JobInv, JobTypes, Honest, Claims, VerdictRecorded, NothingUnrecorded
  <1>3. IsProc(Waiting)
    BY ProcRecord DEF Waiting
  <1>4. PICK r : r = [Waiting EXCEPT !.at = "next", !.kind = "repair", !.todo = RepairProgram]
    OBVIOUS
  <1>5. proc' = [proc EXCEPT ![p] = r] /\ IsProc(r) /\ r.at = "next"
    BY <1>3, <1>4 DEF StartRepair, IsProc
  <1>6. Moved(p)
    BY <1>1, <1>2, <1>5 DEF Moved, Replaces, JobTypes
  <1> QED
    BY <1>1, <1>6, SettleStep

LEMMA DecideStep ==
  ASSUME LedgerInv, JobInv, NEW p \in Processes, Decide(p)
  PROVE  JobInv'
  <1> DEFINE id == Cardinality(decisions) + 1
  <1>1. PICK v \in Verdicts :
          /\ decisions' = decisions \cup {[id |-> id, verdict |-> v]}
          /\ mem' = [mem EXCEPT ![p] = [disk EXCEPT !.verdict = v, !.status = StatusAfter(v)]]
          /\ Ask(p, DecisionEvent(id))
          /\ proc' = [proc EXCEPT ![p].at = "deciding", ![p].kind = "verdict", ![p].exec = id]
    BY DEF Decide
  <1> HIDE DEF id
  <1>2. UNCHANGED <<tree, lastId, disk, spawned>>
    BY DEF Decide
  <1>3. JobTypes /\ NothingUnrecorded /\ IsState(disk) /\ Claims(disk)
    BY DEF JobInv, JobTypes, Claims, NothingUnrecorded
  <1>4. /\ Untouched /\ \A type : EventsOf(type)' = EventsOf(type)
        /\ \A q \in Processes : q # p => call'[q] = call[q] /\ answer'[q] = answer[q]
        /\ call'[p] = DecisionEvent(id) /\ answer'[p] = "NONE"
    BY <1>1, InvocationFrame
  <1>5. /\ DOMAIN proc' = Processes /\ IsProc(proc'[p]) /\ At(p)' = "deciding" /\ Exec(p)' = id
        /\ \A q \in Processes : q # p => proc'[q] = proc[q]
    BY <1>1, <1>3 DEF JobTypes, IsProc, At, Exec
  <1>6. PICK s : s = [disk EXCEPT !.verdict = v, !.status = StatusAfter(v)]
    OBVIOUS
  <1>7. /\ IsState(s) /\ s.verdict = v /\ s.known = disk.known
        /\ s.started = disk.started /\ s.closed = disk.closed
    BY <1>3, <1>6 DEF IsState
  <1>8. /\ DOMAIN mem' = Processes /\ mem'[p] = s
        /\ \A q \in Processes : q # p => mem'[q] = mem[q]
    BY <1>1, <1>3, <1>6 DEF JobTypes
  <1>9. JobTypes'
    <2>1. IsFiniteSet(decisions')
      BY <1>1, <1>3, FS_AddElement DEF JobTypes
    <2> QED
      BY <1>2, <1>3, <1>5, <1>8, <2>1 DEF JobTypes
  <1>10. Truthful(p)'
    <2>1. IsState(mem[p])' /\ Claims(mem[p])'
      BY <1>3, <1>4, <1>7, <1>8 DEF IsState, Claims
    <2>2. [id |-> Exec(p), verdict |-> mem[p].verdict]' \in decisions'
      BY <1>1, <1>5, <1>7, <1>8
    <2> QED
      BY <1>5, <2>1, <2>2 DEF Truthful
  <1>11. Asked(p)' /\ Announced(p)'
    BY <1>4, <1>5 DEF Asked, Announced, Asking, InFlight
  <1>12. decisions \subseteq decisions' /\ NothingUnrecorded'
    BY <1>1, <1>2, <1>3, <1>4 DEF NothingUnrecorded
  <1>13. OthersStay(p) /\ KeepsNumber(p)
    BY <1>4, <1>5, <1>8 DEF OthersStay, KeepsNumber, InFlight
  <1> QED
    BY <1>2, <1>4, <1>9, <1>10, <1>11, <1>12, <1>13, JobStep

LEMMA VerdictStep ==
  ASSUME LedgerInv, JobInv, NEW p \in Processes, DecisionAnswered(p)
  PROVE  JobInv'
  <1>1. /\ At(p) = "deciding" /\ answer[p] # "NONE" /\ Hear(p) /\ proc' = Set(p, "at", "over")
        /\ disk' = IF answer[p] = "RECORDED" THEN mem[p] ELSE disk
        /\ UNCHANGED <<tree, lastId, mem, spawned, decisions>>
    BY DEF DecisionAnswered, At, jobRest
  <1>2. /\ JobTypes /\ NothingUnrecorded /\ Truthful(p) /\ Asked(p) /\ call[p] = None
        /\ IsState(mem[p]) /\ Claims(mem[p])
    BY <1>1, WriterAssumption DEF JobInv, LedgerInv, Truthful
  <1>3. answer[p] = "RECORDED" => VerdictRecorded(mem[p])
    <2>1. SUFFICES ASSUME answer[p] = "RECORDED"
                   PROVE  \E d \in decisions : d.verdict = mem[p].verdict
                                               /\ d.id \in EventsOf("HUMAN_DECISION_RECORDED")
      BY DEF VerdictRecorded
    <2>2. [id |-> Exec(p), verdict |-> mem[p].verdict] \in decisions
      BY <1>1, <1>2 DEF Truthful
    <2>3. Exec(p) \in EventsOf("HUMAN_DECISION_RECORDED")
      BY <1>1, <1>2, <2>1 DEF Asked
    <2> QED
      BY <2>2, <2>3
  <1>4. /\ Untouched /\ \A type : EventsOf(type)' = EventsOf(type)
        /\ \A q \in Processes : q # p => call'[q] = call[q] /\ answer'[q] = answer[q]
        /\ call'[p] = None /\ answer'[p] = "NONE"
    BY <1>1, <1>2, InvocationFrame
  <1>5. /\ DOMAIN proc' = Processes /\ IsProc(proc'[p]) /\ At(p)' = "over"
        /\ \A q \in Processes : q # p => proc'[q] = proc[q]
    BY <1>1, <1>2 DEF JobTypes, IsProc, At, Set
  <1>6. JobTypes'
    BY <1>1, <1>2, <1>5 DEF JobTypes
  <1>7. Truthful(p)' /\ Asked(p)' /\ Announced(p)'
    BY <1>4, <1>5 DEF Truthful, Asked, Announced, Asking, InFlight, Busy, At
  <1>8. NothingUnrecorded'
    BY <1>1, <1>2, <1>3, <1>4 DEF NothingUnrecorded, Claims, VerdictRecorded
  <1>9. OthersStay(p) /\ KeepsNumber(p)
    BY <1>1, <1>4, <1>5 DEF OthersStay, KeepsNumber, InFlight
  <1> QED
    BY <1>1, <1>4, <1>6, <1>7, <1>8, <1>9, JobStep

LEMMA MainStep ==
  ASSUME LedgerInv, JobInv,
         UNCHANGED <<lines, call, answer, tree, lastId, disk, mem, proc, spawned, decisions>>
  PROVE  JobInv'
  <1>1. Readable' = Readable /\ \A type : EventsOf(type)' = EventsOf(type)
    BY EventsUntouched DEF Untouched
  <1>2. \A p \in Processes : Truthful(p)' /\ Asked(p)' /\ Announced(p)'
    BY <1>1 DEF JobInv, Truthful, Asked, Announced, Honest, Claims, VerdictRecorded, IsState,
               Busy, At, Exec
  <1>3. JobTypes' /\ Distinct' /\ IdsAllocated'
    BY <1>1 DEF JobInv, JobTypes, Distinct, IdsAllocated, At, Exec
  <1>4. NothingUnrecorded' /\ LedgerValid'
    BY <1>1 DEF JobInv, NothingUnrecorded, LedgerValid
  <1> QED
    BY <1>2, <1>3, <1>4 DEF JobInv

(* The ledger's own steps, and deaths: the file may gain a line, and p is   *)
(* still waiting, has its answer, or is over.                               *)
Answered(p) ==
  /\ call[p] # None /\ call'[p] = None /\ proc' = proc
  /\ answer'[p] = "RECORDED" => Entered(p)
StillAsking(p) == UNCHANGED <<lines, call, answer, proc>>
Dead(p) ==
  /\ call'[p] = None /\ answer'[p] = "NONE"
  /\ At(p)' = "over" /\ DOMAIN proc' = Processes /\ IsProc(proc'[p])
  /\ \A q \in Processes : q # p => proc'[q] = proc[q]
LedgerOnly(p) ==
  /\ Untouched \/ TornTail \/ Entered(p)
  /\ UNCHANGED <<tree, lastId, disk, mem, spawned, decisions>>
  /\ \A q \in Processes : q # p => call'[q] = call[q] /\ answer'[q] = answer[q]
  /\ StillAsking(p) \/ Answered(p) \/ Dead(p)

LEMMA EventsOfReadable ==
  ASSUME FileInv, NEW type
  PROVE  EventsOf(type) = {Readable[i].event.id : i \in {j \in 1..Len(Readable) :
                                                    Readable[j].event.type = type}}
  <1>1. Range(Readable) = Range(lines) \ {Torn} /\ Readable \in Seq(Recorded)
    BY DEF FileInv
  <1>2. EventsOf(type) = {l.event.id : l \in {k \in Range(Readable) : k.event.type = type}}
    BY <1>1 DEF EventsOf
  <1>3. \A k : k \in Range(Readable) <=> \E i \in 1..Len(Readable) : k = Readable[i]
    BY <1>1 DEF Range
  <1> QED
    BY <1>2, <1>3

\* The event a process is having written is about its own execution.
LEMMA OwnEvent ==
  ASSUME LedgerInv, JobInv, NEW p \in Processes, Entered(p)
  PROVE  /\ call[p] # None /\ At(p) \in Asking
         /\ At(p) = "intent" => call[p] = Intent(Exec(p))
         /\ At(p) = "starting" => call[p] = Started(Exec(p))
         /\ At(p) = "closing" => \E s \in Sources : call[p] = Closed(Exec(p), s)
         /\ At(p) = "recording" => \E i \in 1..MaxId : call[p] = CommitEvent(i)
         /\ At(p) = "deciding" => call[p] = DecisionEvent(Exec(p))
  <1>1. call[p] # None
    BY WriterAssumption DEF Entered, LedgerInv, LedgerTypeOK
  <1> QED
    BY <1>1 DEF JobInv, Asked

LEMMA OwnExecution ==
  ASSUME LedgerInv, JobInv, NEW p \in Processes, Entered(p)
  PROVE  \/ At(p) = "intent" /\ call[p].type = "EXECUTION_INTENT" /\ call[p].id = Exec(p)
         \/ At(p) = "starting" /\ call[p].type = "EXECUTION_STARTED" /\ call[p].id = Exec(p)
         \/ At(p) = "closing" /\ call[p].type = "EXECUTION_CLOSED" /\ call[p].id = Exec(p)
         \/ At(p) = "recording" /\ call[p].type = "COMMIT_RECORDED"
         \/ /\ At(p) = "deciding" /\ call[p].type = "HUMAN_DECISION_RECORDED"
            /\ call[p].id = Exec(p)
  <1>1. CASE At(p) = "intent"
    <2>1. call[p] = Intent(Exec(p))
      BY <1>1, OwnEvent
    <2>2. call[p].type = "EXECUTION_INTENT" /\ call[p].id = Exec(p)
      BY <2>1 DEF Intent
    <2> QED
      BY <1>1, <2>2
  <1>2. CASE At(p) = "starting"
    <2>1. call[p] = Started(Exec(p))
      BY <1>2, OwnEvent
    <2>2. call[p].type = "EXECUTION_STARTED" /\ call[p].id = Exec(p)
      BY <2>1 DEF Started
    <2> QED
      BY <1>2, <2>2
  <1>3. CASE At(p) = "closing"
    <2>1. \E s \in Sources : call[p] = Closed(Exec(p), s)
      BY <1>3, OwnEvent
    <2>2. call[p].type = "EXECUTION_CLOSED" /\ call[p].id = Exec(p)
      BY <2>1 DEF Closed
    <2> QED
      BY <1>3, <2>2
  <1>4. CASE At(p) = "recording"
    <2>1. \E i \in 1..MaxId : call[p] = CommitEvent(i)
      BY <1>4, OwnEvent
    <2>2. call[p].type = "COMMIT_RECORDED"
      BY <2>1 DEF CommitEvent
    <2> QED
      BY <1>4, <2>2
  <1>5. CASE At(p) = "deciding"
    <2>1. call[p] = DecisionEvent(Exec(p))
      BY <1>5, OwnEvent
    <2>2. call[p].type = "HUMAN_DECISION_RECORDED" /\ call[p].id = Exec(p)
      BY <2>1 DEF DecisionEvent
    <2> QED
      BY <1>5, <2>2
  <1> QED
    BY <1>1, <1>2, <1>3, <1>4, <1>5, OwnEvent DEF Asking

\* An event's place in a log, given the ids with an intent, a start and a
\* close before it.
EarlierIds(log, type, i) == {log[j].event.id : j \in {k \in 1..(i - 1) : log[k].event.type = type}}
Fits(e, intents, starts, closes) ==
  /\ e.type = "EXECUTION_INTENT" => e.id \notin intents
  /\ e.type = "EXECUTION_STARTED" => e.id \in intents
  /\ e.type = "EXECUTION_CLOSED" =>
       /\ e.id \in intents /\ e.id \notin closes
       /\ e.id \in starts \/ e.source \in WithoutStart
FitsAt(log, i) ==
  Fits(log[i].event, EarlierIds(log, "EXECUTION_INTENT", i),
       EarlierIds(log, "EXECUTION_STARTED", i), EarlierIds(log, "EXECUTION_CLOSED", i))

LEMMA ValidStays ==
  ASSUME LedgerInv, JobInv, NEW p \in Processes, Entered(p)
  PROVE  LedgerValid'
  <1>1. Readable' = Append(Readable, Line(p)) /\ Line(p).event = call[p]
    BY FileEntered, LineType, WriterAssumption DEF Entered
  <1>2. PICK n \in Nat : n = Len(Readable) /\ DOMAIN Readable = 1..n
    BY DEF LedgerInv, FileInv
  <1>3. /\ DOMAIN Readable' = 1..n + 1 /\ Readable'[n + 1].event = call[p]
        /\ \A i \in 1..n : Readable'[i] = Readable[i]
    BY <1>1, <1>2 DEF LedgerInv, FileInv
  <1>4. \A i \in 1..n : FitsAt(Readable, i)
    BY <1>2 DEF JobInv, LedgerValid, FitsAt, Fits, EarlierIds
  <1>5. \A type : \A i \in 1..n + 1 : EarlierIds(Readable', type, i) = EarlierIds(Readable, type, i)
    BY <1>3 DEF EarlierIds
  <1>6. \A type : EarlierIds(Readable, type, n + 1) = EventsOf(type)
    BY <1>2, EventsOfReadable DEF LedgerInv, EarlierIds
  <1>7. Fits(call[p], EventsOf("EXECUTION_INTENT"), EventsOf("EXECUTION_STARTED"),
             EventsOf("EXECUTION_CLOSED"))
    <2>1. Announced(p) /\ call[p] # None
      BY OwnEvent DEF JobInv
    <2>2. At(p) = "closing" => call[p].source \in WithoutStart \/ Exec(p) \in EventsOf("EXECUTION_STARTED")
      BY <2>1 DEF Announced
    <2> QED
      BY <2>1, <2>2, OwnExecution DEF Announced, InFlight, Fits
  <1>8. \A i \in 1..n + 1 : FitsAt(Readable', i)
    <2>1. ASSUME NEW i \in 1..n PROVE FitsAt(Readable', i)
      BY <1>3, <1>4, <1>5 DEF FitsAt
    <2>2. FitsAt(Readable', n + 1)
      BY <1>3, <1>5, <1>6, <1>7 DEF FitsAt
    <2> QED
      BY <2>1, <2>2
  <1> QED
    BY <1>3, <1>8 DEF LedgerValid, FitsAt, Fits, EarlierIds

LEMMA EventsGrow ==
  ASSUME LedgerInv, JobInv, NEW p \in Processes, Untouched \/ TornTail \/ Entered(p)
  PROVE  /\ \A type : EventsOf(type) \subseteq EventsOf(type)'
         /\ \A type, id : id \in EventsOf(type)' /\ id \notin EventsOf(type)
              => Entered(p) /\ call[p].type = type /\ call[p].id = id
         /\ Entered(p) => \A type : call[p].type = type => call[p].id \in EventsOf(type)'
  <1>1. CASE Untouched \/ TornTail
    <2>1. \A type : EventsOf(type)' = EventsOf(type)
      BY <1>1, EventsStay DEF LedgerInv
    <2>2. ~Entered(p)
      <3>1. lines \in Seq(Lines) /\ Len(lines) \in Nat
        BY DEF LedgerInv, FileInv
      <3>2. Entered(p) => Line(p) # Torn /\ Line(p) \in Lines
        BY LineType, WriterAssumption DEF Entered
      <3>3. \A l \in Lines : Len(Append(lines, l)) = Len(lines) + 1
                             /\ Append(lines, l)[Len(lines) + 1] = l
        BY <3>1
      <3>4. Torn \in Lines
        BY DEF Lines
      <3> QED
        BY <1>1, <3>1, <3>2, <3>3, <3>4 DEF Untouched, TornTail, Entered
    <2> QED
      BY <2>1, <2>2
  <1>2. CASE Entered(p)
    <2>1. \A type : EventsOf(type)' = IF call[p].type = type
                                      THEN EventsOf(type) \cup {call[p].id} ELSE EventsOf(type)
      BY <1>2, EventsEntered, WriterAssumption
    <2> QED
      BY <1>2, <2>1
  <1> QED
    BY <1>1, <1>2

LEMMA LedgerOnlyStep ==
  ASSUME LedgerInv, JobInv, NEW p \in Processes, LedgerOnly(p)
  PROVE  JobInv'
  <1>1. /\ \A type : EventsOf(type) \subseteq EventsOf(type)'
        /\ \A type, id : id \in EventsOf(type)' /\ id \notin EventsOf(type)
             => Entered(p) /\ call[p].type = type /\ call[p].id = id
        /\ Entered(p) => \A type : call[p].type = type => call[p].id \in EventsOf(type)'
    BY EventsGrow DEF LedgerOnly
  <1>2. /\ UNCHANGED <<tree, lastId, disk, mem, spawned, decisions>>
        /\ \A q \in Processes : q # p => call'[q] = call[q] /\ answer'[q] = answer[q]
        /\ StillAsking(p) \/ Answered(p) \/ Dead(p)
    BY DEF LedgerOnly
  <1>3. \A q \in Processes : /\ At(q)' = At(q) \/ (q = p /\ At(p)' = "over")
                             /\ At(q)' = At(q) => Exec(q)' = Exec(q) \/ At(q)' = "over"
                             /\ q # p => proc'[q] = proc[q] /\ At(q)' = At(q) /\ Exec(q)' = Exec(q)
    BY <1>2 DEF At, Exec, StillAsking, Answered, Dead
  <1>4. JobTypes'
    BY <1>2 DEF JobInv, JobTypes, StillAsking, Answered, Dead
  <1>5. Distinct'
    BY <1>3 DEF JobInv, Distinct, InFlight
  <1>6. IdsAllocated'
    BY <1>1, <1>2, OwnExecution DEF JobInv, IdsAllocated, ExecutionTypes, Announced, InFlight
  <1>7. NothingUnrecorded'
    BY <1>1, <1>2 DEF JobInv, NothingUnrecorded
  <1>8. LedgerValid'
    <2>1. CASE Entered(p)
      BY <2>1, ValidStays
    <2>2. CASE Untouched \/ TornTail
      <3>1. Readable' = Readable
        BY <2>2, FileUntouched, FileTorn DEF LedgerInv
      <3> QED
        BY <3>1 DEF JobInv, LedgerValid
    <2> QED
      BY <2>1, <2>2 DEF LedgerOnly
  <1>9. ASSUME NEW q \in Processes PROVE Truthful(q)'
    <2>1. mem'[q] = mem[q] /\ decisions' = decisions /\ Truthful(q)
      BY <1>2 DEF JobInv
    <2>2. Honest(mem[q]) => Honest(mem[q])'
      BY <1>1, <2>1 DEF Honest, IsState, Claims, VerdictRecorded
    <2>3. IsState(mem[q]) /\ Claims(mem[q]) => IsState(mem[q])' /\ Claims(mem[q])'
      BY <1>1, <2>1 DEF IsState, Claims
    <2>4. At(q)' = "over" \/ (At(q)' = At(q) /\ Exec(q)' = Exec(q))
      BY <1>3
    <2> QED
      BY <2>1, <2>2, <2>3, <2>4 DEF Truthful, Busy, At
  <1>10. ASSUME NEW q \in Processes, q # p PROVE Asked(q)' /\ Announced(q)'
    <2>1. /\ At(q)' = At(q) /\ Exec(q)' = Exec(q) /\ proc'[q] = proc[q]
          /\ call'[q] = call[q] /\ answer'[q] = answer[q] /\ lastId' = lastId
      BY <1>2, <1>3, <1>10
    <2>2. Asked(q) /\ Announced(q)
      BY DEF JobInv
    <2>3. Asked(q)'
      BY <1>1, <2>1, <2>2 DEF Asked
    <2>4. At(q) \in InFlight => \A type \in {"EXECUTION_INTENT", "EXECUTION_CLOSED"} :
            Exec(q) \in EventsOf(type)' => Exec(q) \in EventsOf(type)
      BY <1>1, <1>10, OwnExecution DEF JobInv, Distinct, InFlight
    <2>5. Announced(q)'
      BY <1>1, <2>1, <2>2, <2>4 DEF Announced, InFlight
    <2> QED
      BY <2>3, <2>5
  <1>11. Asked(p)' /\ Announced(p)'
    <2>1. Asked(p) /\ Announced(p)
      BY DEF JobInv
    <2>2. CASE StillAsking(p)
      <3>1. \A type : EventsOf(type)' = EventsOf(type)
        BY <2>2, EventsUntouched DEF StillAsking, Untouched
      <3> QED
        BY <1>2, <2>1, <2>2, <3>1 DEF StillAsking, Asked, Announced, At, Exec
    <2>3. CASE Dead(p)
      BY <2>3 DEF Dead, Asked, Announced, Asking, InFlight
    <2>4. CASE Answered(p)
      <3>1. /\ call'[p] = None /\ proc' = proc /\ At(p)' = At(p) /\ Exec(p)' = Exec(p)
            /\ answer'[p] = "RECORDED" => Entered(p)
        BY <2>4 DEF Answered, At, Exec
      <3>2. At(p) \in Asking
        BY <2>1, <2>4 DEF Answered, Asked
      <3>3. answer'[p] = "RECORDED" /\ At(p) \in {"intent", "starting", "closing", "deciding"}
              => \A type : call[p].type = type => Exec(p) \in EventsOf(type)'
        BY <1>1, <3>1, OwnExecution
      <3>4. Asked(p)'
        BY <3>1, <3>2, <3>3, OwnExecution DEF Asked
      <3>5. At(p) \in InFlight \ {"closing"}
              => ~(Exec(p) \in EventsOf("EXECUTION_CLOSED")')
        BY <1>1, <2>1, OwnExecution DEF Announced, InFlight
      <3>6. Announced(p)'
        BY <1>1, <1>2, <2>1, <3>1, <3>5 DEF Announced, InFlight
      <3> QED
        BY <3>4, <3>6
    <2> QED
      BY <1>2, <2>2, <2>3, <2>4
  <1> QED
    BY <1>4, <1>5, <1>6, <1>7, <1>8, <1>9, <1>10, <1>11 DEF JobInv

LEMMA LedgerMovesStep ==
  ASSUME LedgerInv, JobInv, NEW p \in Processes,
         (LedgerStep(p) /\ UNCHANGED jobVars) \/ ProcessDies(p)
  PROVE  JobInv'
  <1>1. /\ DOMAIN call = Processes /\ DOMAIN answer = Processes
        /\ scanned[p] # 0 => call[p] # None
    BY WriterAssumption DEF LedgerInv, LedgerTypeOK
  <1>2. UNCHANGED <<tree, lastId, disk, mem, spawned, decisions>>
    BY DEF ProcessDies, jobRest, jobVars
  <1>3. Untouched \/ TornTail \/ Entered(p)
    <2>1. LedgerMove(p)
      BY DEF LedgerMove, ProcessDies
    <2> QED
      BY <2>1, MoveOfFile, WriterAssumption
  <1>4. CASE LockAndScan(p) /\ UNCHANGED jobVars
    <2>1. StillAsking(p) /\ call' = call /\ answer' = answer
      BY <1>4 DEF LockAndScan, StillAsking, jobVars
    <2> QED
      BY <1>2, <1>3, <2>1, LedgerOnlyStep DEF LedgerOnly
  <1>5. ASSUME call[p] # None, call' = [call EXCEPT ![p] = None], proc' = proc,
               NEW a \in {"RECORDED", "ERROR"}, answer' = [answer EXCEPT ![p] = a],
               a = "RECORDED" => Entered(p)
        PROVE  JobInv'
    <2>1. Answered(p)
      BY <1>1, <1>5 DEF Answered
    <2>2. \A q \in Processes : q # p => call'[q] = call[q] /\ answer'[q] = answer[q]
      BY <1>1, <1>5
    <2> QED
      BY <1>2, <1>3, <2>1, <2>2, LedgerOnlyStep DEF LedgerOnly
  <1>6. CASE LockFails(p) /\ UNCHANGED jobVars
    BY <1>5, <1>6 DEF LockFails, jobVars
  <1>7. CASE WriteSucceeds(p) /\ UNCHANGED jobVars
    <2>1. Entered(p)
      BY <1>7 DEF WriteSucceeds, Extended, Entered
    <2> QED
      BY <1>1, <1>5, <1>7, <2>1 DEF WriteSucceeds, Unlock, jobVars
  <1>8. CASE WriteFails(p) /\ UNCHANGED jobVars
    BY <1>1, <1>5, <1>8 DEF WriteFails, Unlock, jobVars
  <1>9. CASE ProcessDies(p)
    <2>1. /\ call' = [call EXCEPT ![p] = None] /\ answer' = [answer EXCEPT ![p] = "NONE"]
          /\ proc' = Set(p, "at", "over")
      BY <1>9 DEF ProcessDies, WriterDies, Unlock
    <2>2. JobTypes
      BY DEF JobInv
    <2>3. Dead(p)
      BY <1>1, <2>1, <2>2 DEF Dead, Set, JobTypes, IsProc, At
    <2>4. \A q \in Processes : q # p => call'[q] = call[q] /\ answer'[q] = answer[q]
      BY <1>1, <2>1
    <2> QED
      BY <1>2, <1>3, <2>3, <2>4, LedgerOnlyStep DEF LedgerOnly
  <1> QED
    BY <1>4, <1>6, <1>7, <1>8, <1>9 DEF LedgerStep

-----------------------------------------------------------------------------
(* THE INVARIANT OF A JOB.                                                  *)
LEMMA JobInvInit == Init => JobInv
  <1> SUFFICES ASSUME Init PROVE JobInv
    OBVIOUS
  <1>1. lines = << >> /\ \A type : EventsOf(type) = {}
    BY DEF Init, LedgerInit, EventsOf, Range
  <1>2. LedgerValid
    <2>1. LedgerInv
      BY LedgerInvInit DEF Init
    <2>2. Readable \in Seq(Recorded) /\ Range(Readable) = {}
      BY <1>1, <2>1 DEF LedgerInv, FileInv, Range
    <2>3. DOMAIN Readable = {}
      BY <2>2 DEF Range
    <2> QED
      BY <2>3 DEF LedgerValid
  <1>3. /\ DOMAIN proc = Processes /\ DOMAIN mem = Processes
        /\ \A p \in Processes : /\ IsProc(proc[p]) /\ At(p) \in {"next", "idle"}
                                /\ At(p) # "idle" => mem[p] = NewState
    BY DEF Init, Waiting, IsProc, At
  <1>4. IsState(NewState)
    BY DEF IsState, NewState
  <1>5. JobTypes
    <2>1. tree \in Trees
      BY BoundAssumption DEF Init, Trees
    <2>2. IsFiniteSet(decisions)
      BY FS_EmptySet DEF Init
    <2> QED
      BY <1>3, <1>4, <2>1, <2>2, BoundAssumption DEF JobTypes, Init
  <1>6. Honest(NewState)
    BY <1>4 DEF Honest, Claims, VerdictRecorded, NewState
  <1>7. \A p \in Processes : call[p] = None /\ answer[p] = "NONE"
    BY WriterAssumption DEF Init, LedgerInit
  <1>8. \A p \in Processes : Truthful(p) /\ Asked(p) /\ Announced(p)
    BY <1>3, <1>6, <1>7 DEF Truthful, Asked, Announced, Asking, InFlight, Busy, At
  <1>9. Distinct /\ IdsAllocated
    BY <1>1, <1>3 DEF Distinct, IdsAllocated, InFlight
  <1>10. NothingUnrecorded
    BY <1>1 DEF Init, NewState, NothingUnrecorded
  <1> QED
    BY <1>2, <1>5, <1>8, <1>9, <1>10 DEF JobInv

LEMMA JobInvNext == LedgerInv /\ JobInv /\ [Next]_vars => JobInv'
  <1> SUFFICES ASSUME LedgerInv, JobInv, [Next]_vars PROVE JobInv'
    OBVIOUS
  <1>1. ASSUME NEW p \in Processes, Invoke(p) PROVE JobInv'
    BY <1>1, ResultSteps, AllocateStep, IntentStep, CloseStep, SpawnStep, StartStep, WorkStep, RowStep
    DEF Invoke
  <1>2. ASSUME NEW p \in Processes, Advance(p) PROVE JobInv'
    BY <1>2, ResultSteps, CommitStep, ReviewSteps, LastSave, RepairStep, DecideStep, VerdictStep,
       LedgerMovesStep
    DEF Advance
  <1>3. ASSUME NEW p \in Processes, LedgerStep(p) /\ UNCHANGED jobVars PROVE JobInv'
    BY <1>3, LedgerMovesStep
  <1>4. CASE MainMoves \/ UNCHANGED vars
    BY <1>4, MainStep DEF MainMoves, vars, ledgerVars, jobVars
  <1> QED
    BY <1>1, <1>2, <1>3, <1>4 DEF Next

LEMMA InvariantHolds == Spec => [](LedgerInv /\ JobInv)
  <1>1. Init => LedgerInv /\ JobInv
    BY LedgerInvInit, JobInvInit DEF Init
  <1>2. LedgerInv /\ JobInv /\ [Next]_vars => (LedgerInv /\ JobInv)'
    <2> SUFFICES ASSUME LedgerInv, JobInv, [Next]_vars PROVE LedgerInv' /\ JobInv'
      OBVIOUS
    <2>1. LedgerAside \/ \E p \in Writers : LedgerMove(p)
      BY NextMoves
    <2>2. Runner \in Writers
      BY WriterAssumption DEF Processes
    <2>3. LedgerInv'
      BY <2>1, <2>2, LedgerInvNext
    <2> QED
      BY <2>3, JobInvNext
  <1> QED
    BY <1>1, <1>2, PTL DEF Spec

-----------------------------------------------------------------------------
(* WHAT THE LEDGER AND THE JOB PROMISE.                                     *)

(* Every ledger variable keeps its type, and nobody writes without a call:  *)
(* append, under its lock, with any number of writers and faults            *)
(* (execution_ledger.py).                                                   *)
THEOREM LedgerTypeCorrect == Spec => []LedgerTypeOK
  <1>1. LedgerInv => LedgerTypeOK
    BY DEF LedgerInv
  <1> QED
    BY <1>1, InvariantHolds, PTL

(* The ledger is the shape validate_events asks for, at every moment and    *)
(* after any torn, failed or interrupted write: one intent per execution,   *)
(* a start and a close only after it, one close, and a close no start       *)
(* precedes names a source that says so (execution_ledger.py                *)
(* validate_events; _invoke of custom_job_runner.py).                       *)
THEOREM LedgerValidHolds == Spec => []LedgerValid
  <1>1. JobInv => LedgerValid
    BY DEF JobInv
  <1> QED
    BY <1>1, InvariantHolds, PTL

(* Nothing happens that the ledger does not hold: no child is spawned       *)
(* without its durable intent, and what job_state.json says is known,       *)
(* started, closed or decided has its event on file (_invoke,               *)
(* _record_lifecycle, human_verdict of custom_job_runner.py).               *)
THEOREM NothingUnrecordedHolds == Spec => []NothingUnrecorded
  <1>1. JobInv => NothingUnrecorded
    BY DEF JobInv
  <1> QED
    BY <1>1, InvariantHolds, PTL

(* The ledger implements the abstract event log: readers see a log that     *)
(* only grows, numbered without gaps, and a caller is told RECORDED only    *)
(* when its event is in it (append and _scan of execution_ledger.py).       *)
THEOREM ImplementsLogHolds == Spec => ImplementsLog
  <1>1. Init => Log!Init
    <2> SUFFICES ASSUME Init PROVE Log!Init
      OBVIOUS
    <2>1. LedgerInv /\ lines = << >>
      BY LedgerInvInit DEF Init, LedgerInit
    <2>2. Readable \in Seq(Recorded) /\ Range(Readable) = {}
      BY <2>1 DEF LedgerInv, FileInv, Range
    <2>3. Readable = << >>
      BY <2>2 DEF Range
    <2> QED
      BY <2>3 DEF Log!Init, Init, LedgerInit
  <1>2. LedgerInv /\ JobInv /\ [Next]_vars => [Log!Next]_Log!vars
    <2> SUFFICES ASSUME LedgerInv, JobInv, [Next]_vars PROVE [Log!Next]_Log!vars
      OBVIOUS
    <2>1. LedgerAside \/ \E p \in Writers : LedgerMove(p)
      BY NextMoves
    <2>2. Runner \in Writers
      BY WriterAssumption DEF Processes
    <2> QED
      BY <2>1, <2>2, MoveOfLog
  <1> QED
    BY <1>1, <1>2, InvariantHolds, PTL DEF Spec, ImplementsLog, Log!Spec

-----------------------------------------------------------------------------
(* WHAT THE HUMAN IS SHOWN.  CandidateWhole needs to know whose turn it is  *)
(* (one process at a time works on the job), what that process knows of the *)
(* worktree at each place of its program, and that nobody saves over it.    *)
CommitIds == EventsOf("COMMIT_RECORDED")

RolesOf(kind) ==
  IF kind = "execute" THEN {"PLAN", "SUBTASK", "IMPLEMENT", "GATE", "COMMIT", "STAGES", "REVIEW"}
                      ELSE {"REPAIR", "COMMIT", "DELTA_REVIEW"}
Ends == {"REVIEW", "DELTA_REVIEW", "STAGES"}

\* What is left of a program: it ends with its review, a repair comes first,
\* and what a task of a job with checkpoints leaves is committed next.
Ordered(kind, t) ==
  /\ t \in Seq(RolesOf(kind)) /\ Len(t) > 0
  /\ \A i \in DOMAIN t : t[i] \in Ends <=> i = Len(t)
  /\ \A i \in DOMAIN t : t[i] = "REPAIR" => i = 1
  /\ job.type = "MULTI_SUBTASK" =>
       \A i \in DOMAIN t : t[i] \in Implementers => CommitsNext(t, i + 1)

\* The first n commits are checkpoints of s, and recorded.
Covers(s, n, ids) == 1..n \subseteq s.commits \cap ids
WholeIn(s, ids) ==
  s.candidate # None =>
    /\ IF s.review.outcome = "PASS" THEN s.candidate.content = s.review.content
       ELSE /\ s.delta.outcome = "PASS"
            /\ s.delta.from <= s.review.content
            /\ s.delta.to = s.candidate.content
    /\ Covers(s, s.candidate.head, ids)
Whole(s) == WholeIn(s, CommitIds)
Selectable(s) ==
  /\ s.candidate = None
  /\ s.review.outcome # "PASS" /\ s.review.content = tree.content
  /\ Covers(s, tree.head, CommitIds)

Owns(p) == proc[p].kind \in {"execute", "repair"}
Repairs(p) == proc[p].kind = "repair"
Working(p) == Owns(p) /\ Busy(p) /\ At(p) # "stopping"
Selecting == "WAITING_FOR_REPAIR_SELECTION"

KindInv(p) ==
  /\ proc[p].kind \in {"execute", "none", "repair", "verdict"}
  /\ p = Runner <=> proc[p].kind = "execute"
  /\ At(p) = "idle" <=> proc[p].kind = "none"
  /\ At(p) = "deciding" => proc[p].kind = "verdict"
  /\ proc[p].kind = "verdict" => At(p) \in {"deciding", "over"}

\* Nobody starts before execute is over, one repair at most is started, and a
\* verdict only when it is over too.
Turns ==
  /\ Busy(Runner) => /\ \A q \in Processes : q # Runner => At(q) = "idle"
                     /\ disk.status \notin {Selecting, "WAITING_FOR_HUMAN"}
  /\ \A p, q \in Processes : Repairs(p) /\ Repairs(q) => p = q
  /\ \A p \in Processes : Repairs(p) /\ Busy(p) => disk.status = Selecting
  /\ \A p \in Processes : proc[p].kind = "verdict" =>
       /\ disk.status # Selecting
       /\ \A q \in Processes : Repairs(q) => ~Busy(q)

\* The copy each process works on.
CopyInv(p) ==
  /\ Working(p) =>
       /\ mem[p].candidate = None
       /\ mem[p].status = IF p = Runner THEN "RUNNING" ELSE Selecting
  /\ Busy(p) => Whole(mem[p])
  /\ At(p) = "deciding" => mem[p].status # Selecting
  /\ At(p) = "closing" => proc[p].then \in {"stop", "stray", "PASS", "FAIL"}
  /\ At(p) = "result" => proc[p].then \in {"PASS", "FAIL"}

Snapshots == {t \in Trees : t.committed <= t.content}
FilesInv ==
  /\ tree \in Snapshots /\ Whole(disk)
  /\ disk.status = Selecting /\ (\A p \in Processes : ~Repairs(p)) => Selectable(disk)
  /\ At(Runner) = "stopping" /\ mem[Runner].status = Selecting => Selectable(mem[Runner])

\* What a process knows of the worktree: the one it saw when it called its
\* last node, or the one there is.
SawCovered(p) ==
  proc[p].before \in Snapshots /\ Covers(mem[p], proc[p].before.head, CommitIds)
Based(p) ==
  \/ Covers(mem[p], tree.head, CommitIds)
  \/ CommitsNext(proc[p].todo, 1) /\ SawCovered(p)
Watched(p) ==
  /\ SawCovered(p)
  /\ Role(p) \in Reviewers =>
       /\ proc[p].before.head <= tree.head
       /\ tree.head = proc[p].before.head =>
            /\ proc[p].before.paths <= tree.paths
            /\ tree.paths = proc[p].before.paths => proc[p].before.content = tree.content
  /\ Role(p) = "PLAN" \/ (Role(p) \in Implementers /\ job.type # "MULTI_SUBTASK")
       => tree.head = proc[p].before.head
Checkpointing(p) ==
  /\ Role(p) = "COMMIT"
  /\ tree.head \in mem[p].commits /\ Covers(mem[p], tree.head - 1, CommitIds)
  /\ call[p] # None => call[p] = CommitEvent(tree.head)
  /\ answer[p] = "RECORDED" => tree.head \in CommitIds
RepairKnown(p) ==
  /\ mem[p].review.outcome # "PASS"
  /\ Role(p) = "REPAIR" =>
       mem[p].review.content = IF At(p) = "next" THEN tree.content ELSE proc[p].before.content
  /\ Role(p) # "REPAIR" => mem[p].repair <= mem[p].review.content

Flying == InFlight \cup {"result"}
WorkInv(p) ==
  Working(p) =>
    /\ At(p) \in Flying \cup {"next", "recording"}
    /\ Ordered(proc[p].kind, proc[p].todo)
    /\ At(p) = "next" \/ Role(p) = "GATE" => Based(p)
    /\ At(p) \in Flying => Role(p) \in Invocations
    /\ At(p) \in Flying /\ Role(p) # "GATE" => Watched(p)
    /\ At(p) = "recording" => Checkpointing(p)
    /\ Repairs(p) => RepairKnown(p)

CandidateInv ==
  /\ Turns /\ FilesInv
  /\ \A p \in Processes : KindInv(p) /\ CopyInv(p) /\ WorkInv(p)

LEMMA WholeGrows ==
  ASSUME NEW s, NEW ids, NEW more, WholeIn(s, ids), ids \subseteq more
  PROVE  WholeIn(s, more)
  BY DEF WholeIn, Covers

LEMMA CoversGrows ==
  ASSUME NEW s, NEW t, NEW n, NEW ids, NEW more, Covers(s, n, ids),
         s.commits \subseteq t.commits, ids \subseteq more
  PROVE  Covers(t, n, more)
  BY DEF Covers

LEMMA CommitsGrow ==
  ASSUME LedgerInv, JobInv, [Next]_vars
  PROVE  CommitIds \subseteq CommitIds'
  <1>1. LedgerAside \/ \E p \in Writers : LedgerMove(p)
    BY NextMoves
  <1>2. CASE LedgerAside
    <2>1. Untouched
      BY <1>2 DEF LedgerAside, Untouched
    <2> QED
      BY <2>1, EventsUntouched DEF CommitIds
  <1>3. ASSUME NEW p \in Writers, LedgerMove(p) PROVE CommitIds \subseteq CommitIds'
    <2>1. Untouched \/ TornTail \/ Entered(p)
      BY <1>3, MoveOfFile
    <2> QED
      BY <2>1, EventsGrow, WriterAssumption DEF CommitIds
  <1> QED
    BY <1>1, <1>2, <1>3

(* What is left of a program when its first role is done.                   *)
LEMMA TailOf ==
  ASSUME NEW S, NEW t \in Seq(S), Len(t) > 1
  PROVE  /\ Tail(t) \in Seq(S) /\ Len(Tail(t)) = Len(t) - 1
         /\ \A i \in DOMAIN Tail(t) : Tail(t)[i] = t[i + 1] /\ i + 1 \in DOMAIN t
         /\ Head(t) = t[1] /\ Head(Tail(t)) = t[2]
  <1>1. Tail(t) \in Seq(S) /\ Len(Tail(t)) = Len(t) - 1 /\ Len(t) \in Nat
    OBVIOUS
  <1>2. \A i \in DOMAIN Tail(t) : Tail(t)[i] = t[i + 1] /\ i + 1 \in DOMAIN t
    OBVIOUS
  <1>3. 1 \in DOMAIN Tail(t) /\ Head(t) = t[1] /\ Head(Tail(t)) = Tail(t)[1]
    BY <1>1
  <1> QED
    BY <1>1, <1>2, <1>3

LEMMA CommitsNextTail ==
  ASSUME NEW S, NEW t \in Seq(S), Len(t) > 1, NEW i \in Nat, i >= 1, CommitsNext(t, i + 1)
  PROVE  CommitsNext(Tail(t), i)
  <1>1. PICK j \in (i + 1)..Len(t) : t[j] = "COMMIT" /\ \A k \in (i + 1)..(j - 1) : t[k] = "GATE"
    BY DEF CommitsNext
  <1>2. j - 1 \in i..Len(Tail(t)) /\ Tail(t)[j - 1] = t[j]
    BY <1>1, TailOf
  <1>3. ASSUME NEW k \in i..((j - 1) - 1) PROVE Tail(t)[k] = "GATE"
    <2>1. k + 1 \in (i + 1)..(j - 1) /\ k \in DOMAIN Tail(t)
      BY <1>1, <1>3, TailOf
    <2> QED
      BY <1>1, <2>1, TailOf
  <1> QED
    BY <1>1, <1>2, <1>3 DEF CommitsNext

LEMMA OrderedHead ==
  ASSUME NEW kind, NEW t, Ordered(kind, t)
  PROVE  /\ Head(t) \in RolesOf(kind) /\ Head(t) = t[1] /\ 1 \in DOMAIN t
         /\ Head(t) \notin Ends => Len(t) > 1
  BY DEF Ordered

LEMMA OrderedTail ==
  ASSUME NEW kind, NEW t, Ordered(kind, t), Head(t) \notin Ends
  PROVE  /\ Ordered(kind, Tail(t)) /\ Head(Tail(t)) # "REPAIR"
         /\ Head(t) = "GATE" /\ CommitsNext(t, 1) => CommitsNext(Tail(t), 1)
         /\ job.type = "MULTI_SUBTASK" /\ Head(t) \in Implementers => CommitsNext(Tail(t), 1)
  <1>1. t \in Seq(RolesOf(kind)) /\ Len(t) > 1 /\ Head(t) = t[1] /\ 1 \in DOMAIN t
    BY OrderedHead DEF Ordered
  <1>2. /\ Tail(t) \in Seq(RolesOf(kind)) /\ Len(Tail(t)) = Len(t) - 1
        /\ \A i \in DOMAIN Tail(t) : Tail(t)[i] = t[i + 1] /\ i + 1 \in DOMAIN t
        /\ Head(Tail(t)) = t[2]
    BY <1>1, TailOf
  <1>3. \A i \in DOMAIN Tail(t) : /\ Tail(t)[i] \in Ends <=> i = Len(Tail(t))
                                  /\ Tail(t)[i] # "REPAIR"
    BY <1>1, <1>2 DEF Ordered
  <1>4. ASSUME job.type = "MULTI_SUBTASK", NEW i \in DOMAIN Tail(t), Tail(t)[i] \in Implementers
        PROVE  CommitsNext(Tail(t), i + 1)
    <2>1. CommitsNext(t, (i + 1) + 1) /\ i + 1 \in Nat /\ i + 1 >= 1
      BY <1>1, <1>2, <1>4 DEF Ordered
    <2> QED
      BY <1>1, <2>1, CommitsNextTail
  <1>5. CommitsNext(t, 2) => CommitsNext(Tail(t), 1)
    BY <1>1, CommitsNextTail
  <1>6. t[1] = "GATE" /\ CommitsNext(t, 1) => CommitsNext(t, 2)
    BY <1>1 DEF CommitsNext
  <1>7. job.type = "MULTI_SUBTASK" /\ t[1] \in Implementers => CommitsNext(t, 2)
    BY <1>1 DEF Ordered
  <1>8. Head(Tail(t)) # "REPAIR"
    BY <1>1, <1>2 DEF Ordered
  <1> QED
    BY <1>1, <1>2, <1>3, <1>4, <1>5, <1>6, <1>7, <1>8 DEF Ordered

(* WHOSE TURN IT IS.  While a process works on the job nobody else does     *)
(* anything, so a step of it owes what is said of itself, and the files.    *)
LEMMA OthersRest ==
  ASSUME CandidateInv, NEW p \in Processes, Owns(p), Busy(p)
  PROVE  /\ \A q \in Processes : q # p => ~Busy(q) /\ At(q) \notin {"deciding", "stopping"}
         /\ p # Runner => Repairs(p) /\ disk.status = Selecting
         /\ p = Runner => /\ disk.status \notin {Selecting, "WAITING_FOR_HUMAN"}
                          /\ \A q \in Processes : q # Runner => proc[q].kind = "none"
         /\ \A q \in Processes : proc[q].kind # "verdict"
  <1>1. Runner \in Processes
    BY DEF Processes
  <1>2. /\ Turns /\ \A q \in Processes : KindInv(q)
    BY DEF CandidateInv
  <1>3. CASE p = Runner
    <2>1. \A q \in Processes : q # p => At(q) = "idle" /\ proc[q].kind = "none"
      BY <1>2, <1>3 DEF Turns, KindInv
    <2>2. proc[p].kind = "execute" /\ disk.status \notin {Selecting, "WAITING_FOR_HUMAN"}
      BY <1>2, <1>3 DEF KindInv, Turns
    <2> QED
      BY <1>3, <2>1, <2>2 DEF Busy, At
  <1>4. CASE p # Runner
    <2>1. Repairs(p) /\ disk.status = Selecting
      BY <1>2, <1>4 DEF Owns, Repairs, KindInv, Turns
    <2>2. At(p) # "idle" /\ ~Busy(Runner)
      BY <1>2, <1>4 DEF Turns, Busy, At
    <2>3. \A q \in Processes : proc[q].kind # "verdict"
      BY <1>2, <2>1 DEF Turns
    <2>4. \A q \in Processes : q # p => ~Repairs(q)
      BY <1>2, <2>1 DEF Turns
    <2>5. ASSUME NEW q \in Processes, q # p PROVE ~Busy(q)
      <3>1. CASE q = Runner
        BY <2>2, <3>1
      <3>2. CASE q # Runner
        <4>1. proc[q].kind = "none"
          BY <1>2, <2>3, <2>4, <2>5, <3>2 DEF KindInv, Repairs
        <4> QED
          BY <1>2, <4>1 DEF KindInv, Busy, At
      <3> QED
        BY <3>1, <3>2
    <2>6. \A q \in Processes : ~Busy(q) => At(q) \notin {"deciding", "stopping"}
      BY DEF Busy, At
    <2> QED
      BY <1>4, <2>1, <2>3, <2>5, <2>6
  <1> QED
    BY <1>3, <1>4

Steady(p) == \A q \in Processes : q # p => proc'[q] = proc[q]

LEMMA OwnStep ==
  ASSUME CandidateInv, NEW p \in Processes, Owns(p), Busy(p), Steady(p),
         proc'[p].kind = proc[p].kind, At(p)' \notin {"idle", "deciding"},
         CopyInv(p)', WorkInv(p)', tree' \in Snapshots, Whole(disk)',
         Busy(p)' => IF p = Runner THEN disk'.status \notin {Selecting, "WAITING_FOR_HUMAN"}
                                   ELSE disk'.status = Selecting,
         p = Runner /\ disk'.status = Selecting => Selectable(disk)',
         p = Runner /\ At(p)' = "stopping" /\ mem'[p].status = Selecting
           => Selectable(mem[p])'
  PROVE  CandidateInv'
  <1>1. /\ \A q \in Processes : q # p => ~Busy(q) /\ At(q) \notin {"deciding", "stopping"}
        /\ p # Runner => Repairs(p) /\ disk.status = Selecting
        /\ \A q \in Processes : proc[q].kind # "verdict"
        /\ p = Runner => \A q \in Processes : q # Runner => proc[q].kind = "none"
    BY OthersRest
  <1>2. \A q \in Processes : q # p => /\ At(q)' = At(q) /\ proc'[q] = proc[q]
                                      /\ ~Busy(q)' /\ ~Working(q)'
    BY <1>1 DEF Steady, At, Busy, Working
  <1>3. Turns /\ FilesInv /\ \A q \in Processes : KindInv(q)
    BY DEF CandidateInv
  <1>4. ASSUME NEW q \in Processes PROVE KindInv(q)'
    <2>1. CASE q = p
      BY <1>3, <2>1 DEF KindInv, Owns, At
    <2>2. CASE q # p
      BY <1>2, <1>3, <2>2 DEF KindInv
    <2> QED
      BY <2>1, <2>2
  <1>5. ASSUME NEW q \in Processes, q # p PROVE CopyInv(q)' /\ WorkInv(q)'
    <2>1. At(q)' \notin {"deciding", "closing", "result"}
      BY <1>1, <1>2, <1>5 DEF Busy, At
    <2> QED
      BY <1>2, <1>5, <2>1 DEF CopyInv, WorkInv
  <1>6. Turns'
    <2>1. \A q \in Processes : proc'[q].kind = proc[q].kind
      BY <1>2
    <2>2. Busy(Runner)' => /\ \A q \in Processes : q # Runner => At(q)' = "idle"
                           /\ disk'.status \notin {Selecting, "WAITING_FOR_HUMAN"}
      <3>1. Runner \in Processes
        BY DEF Processes
      <3>2. Busy(Runner)' => p = Runner
        BY <1>2, <3>1
      <3>3. p = Runner => \A q \in Processes : q # Runner => At(q) = "idle"
        BY <1>1, <1>3 DEF KindInv
      <3> QED
        BY <1>2, <3>2, <3>3
    <2>3. \A q, r \in Processes : (Repairs(q) /\ Repairs(r))' => q = r
      BY <1>3, <2>1 DEF Turns, Repairs
    <2>4. \A q \in Processes : (Repairs(q) /\ Busy(q))' => disk'.status = Selecting
      <3>1. \A q \in Processes : Repairs(q) => q # Runner
        BY <1>3 DEF KindInv, Repairs
      <3> QED
        BY <1>2, <2>1, <3>1 DEF Repairs
    <2> QED
      BY <1>1, <2>1, <2>2, <2>3, <2>4 DEF Turns
  <1>7. FilesInv'
    <2>1. p # Runner => Repairs(p)' /\ At(Runner)' # "stopping"
      <3>1. Runner \in Processes
        BY DEF Processes
      <3> QED
        BY <1>1, <1>2, <3>1 DEF Repairs
    <2>2. CASE p = Runner
      BY <2>2 DEF FilesInv
    <2>3. CASE p # Runner
      BY <2>1, <2>3 DEF FilesInv
    <2> QED
      BY <2>2, <2>3
  <1> QED
    BY <1>4, <1>5, <1>6, <1>7 DEF CandidateInv

\* What p leaves in the job's file offers nothing to anybody else.
SavesPlain(p) ==
  \/ disk' = disk
  \/ /\ disk'.candidate = None
     /\ IF p = Runner THEN disk'.status \notin {Selecting, "WAITING_FOR_HUMAN"}
                      ELSE disk'.status = Selecting

LEMMA OwnPlainStep ==
  ASSUME CandidateInv, NEW p \in Processes, Owns(p), Busy(p), Steady(p),
         CommitIds \subseteq CommitIds', SavesPlain(p),
         proc'[p].kind = proc[p].kind, At(p)' \notin {"idle", "deciding"},
         CopyInv(p)', WorkInv(p)', tree' \in Snapshots,
         p = Runner /\ At(p)' = "stopping" => mem'[p].status # Selecting \/ Selectable(mem[p])'
  PROVE  CandidateInv'
  <1>1. /\ p # Runner => disk.status = Selecting
        /\ p = Runner => disk.status \notin {Selecting, "WAITING_FOR_HUMAN"}
    BY OthersRest
  <1>2. IF p = Runner THEN disk'.status \notin {Selecting, "WAITING_FOR_HUMAN"}
                      ELSE disk'.status = Selecting
    BY <1>1 DEF SavesPlain
  <1>3. Whole(disk)'
    <2>1. CASE disk' = disk
      <3>1. WholeIn(disk, CommitIds)
        BY DEF CandidateInv, FilesInv, Whole
      <3> QED
        BY <2>1, <3>1, WholeGrows DEF Whole
    <2>2. CASE disk'.candidate = None
      BY <2>2 DEF Whole, WholeIn
    <2> QED
      BY <2>1, <2>2 DEF SavesPlain
  <1> QED
    BY <1>2, <1>3, OwnStep

\* The copy of a process that goes on working.
Unchanged(s, t) ==
  /\ t.candidate = s.candidate /\ t.status = s.status /\ t.review = s.review
  /\ t.repair = s.repair /\ t.commits = s.commits

LEMMA WorkerSaves ==
  ASSUME CandidateInv, NEW p \in Processes, Working(p), NEW s, Unchanged(mem[p], s),
         disk' = disk \/ disk' = s
  PROVE  SavesPlain(p)
  <1>1. /\ mem[p].candidate = None
        /\ mem[p].status = IF p = Runner THEN "RUNNING" ELSE Selecting
    BY DEF CandidateInv, CopyInv
  <1> QED
    BY <1>1 DEF SavesPlain, Unchanged, Selecting

LEMMA SawCoveredStays ==
  ASSUME NEW p, SawCovered(p), proc'[p].before = proc[p].before,
         mem[p].commits \subseteq mem'[p].commits, CommitIds \subseteq CommitIds'
  PROVE  SawCovered(p)'
  BY CoversGrows DEF SawCovered

LEMMA WatchedStays ==
  ASSUME NEW p, Watched(p), tree' = tree, job' = job, Role(p)' = Role(p), proc'[p].before = proc[p].before,
         mem[p].commits \subseteq mem'[p].commits, CommitIds \subseteq CommitIds'
  PROVE  Watched(p)'
  BY SawCoveredStays DEF Watched

LEMMA BasedStays ==
  ASSUME NEW p, Based(p), tree' = tree, proc'[p].todo = proc[p].todo, proc'[p].before = proc[p].before,
         mem[p].commits \subseteq mem'[p].commits, CommitIds \subseteq CommitIds'
  PROVE  Based(p)'
  BY SawCoveredStays, CoversGrows DEF Based

LEMMA OrderedStays ==
  ASSUME NEW kind, NEW t, Ordered(kind, t), job' = job
  PROVE  Ordered(kind, t)'
  BY DEF Ordered

(* A step of an invocation, from the intent to the result, that leaves the  *)
(* worktree and what matters of the copy alone.                             *)
LEMMA FlyingStep ==
  ASSUME CandidateInv, NEW p \in Processes, At(p) \in InFlight, Steady(p),
         CommitIds \subseteq CommitIds', UNCHANGED <<job, tree>>,
         At(p)' \in Flying,
         proc'[p].kind = proc[p].kind, proc'[p].todo = proc[p].todo,
         proc'[p].before = proc[p].before,
         Unchanged(mem[p], mem'[p]), disk' = disk \/ disk' = mem'[p],
         At(p)' = "closing" => proc'[p].then \in {"stop", "stray", "PASS", "FAIL"},
         At(p)' = "result" => proc'[p].then \in {"PASS", "FAIL"}
  PROVE  CandidateInv'
  <1>1. /\ KindInv(p) /\ CopyInv(p) /\ WorkInv(p) /\ tree \in Snapshots
    BY DEF CandidateInv, FilesInv
  <1>2. Owns(p) /\ Busy(p) /\ Working(p) /\ At(p) \notin {"next", "recording"} /\ At(p) \in Flying
    BY <1>1 DEF KindInv, Owns, Busy, Working, InFlight, At, Flying
  <1>3. Working(p)' /\ Busy(p)' /\ Repairs(p)' = Repairs(p) /\ Role(p)' = Role(p)
    BY <1>2 DEF Working, Owns, Busy, Repairs, Role, Flying, InFlight, At
  <1>4. SavesPlain(p)
    BY <1>2, WorkerSaves
  <1>5. CopyInv(p)'
    BY <1>1, <1>2, <1>3 DEF CopyInv, Unchanged, Whole, WholeIn, Flying, InFlight
  <1>6. WorkInv(p)'
    <2>1. Ordered(proc[p].kind, proc[p].todo)'
      BY <1>1, <1>2, OrderedStays DEF WorkInv
    <2>2. Role(p)' = "GATE" => Based(p)'
      BY <1>1, <1>2, <1>3, BasedStays DEF WorkInv, Unchanged
    <2>3. Role(p)' # "GATE" => Watched(p)'
      BY <1>1, <1>2, <1>3, WatchedStays DEF WorkInv, Unchanged
    <2>4. Repairs(p)' => RepairKnown(p)'
      BY <1>1, <1>2, <1>3 DEF WorkInv, RepairKnown, Unchanged, Flying, InFlight
    <2> QED
      BY <1>1, <1>2, <1>3, <2>1, <2>2, <2>3, <2>4 DEF WorkInv, Flying, InFlight
  <1>7. At(p)' \notin {"idle", "deciding", "stopping"}
    BY DEF Flying, InFlight
  <1> QED
    BY <1>1, <1>2, <1>4, <1>5, <1>6, <1>7, OwnPlainStep

(* A process that ends: its copy is whole, and only a review that failed    *)
(* has it ask for a selection.                                              *)
LEMMA EndStep ==
  ASSUME CandidateInv, NEW p \in Processes, Owns(p), Busy(p), Steady(p),
         CommitIds \subseteq CommitIds', SavesPlain(p), tree' = tree,
         proc'[p].kind = proc[p].kind, At(p)' \in {"stopping", "over"},
         At(p)' = "stopping" => Whole(mem[p])',
         p = Runner /\ At(p)' = "stopping" => mem'[p].status # Selecting \/ Selectable(mem[p])'
  PROVE  CandidateInv'
  <1>1. ~Working(p)' /\ (Busy(p)' => At(p)' = "stopping")
    BY DEF Working, Busy, At
  <1>2. CopyInv(p)' /\ WorkInv(p)'
    BY <1>1 DEF CopyInv, WorkInv
  <1>3. tree' \in Snapshots
    BY DEF CandidateInv, FilesInv
  <1> QED
    BY <1>2, <1>3, OwnPlainStep

LEMMA StopEnds ==
  ASSUME JobTypes, NEW p \in Processes, NEW s, IsState(s), NEW v, Stop(p, v, s)
  PROVE  /\ Steady(p) /\ proc'[p].kind = proc[p].kind
         /\ At(p)' = IF proc[p].kind = "execute" THEN "stopping" ELSE "over"
         /\ mem'[p].candidate = s.candidate
         /\ proc[p].kind = "execute" => mem'[p].status = v
  <1>1. DOMAIN proc = Processes /\ DOMAIN mem = Processes
    BY DEF JobTypes
  <1>2. PICK r : r = [Waiting EXCEPT !.kind = proc[p].kind,
                                     !.at = IF proc[p].kind = "execute" THEN "stopping" ELSE "over"]
    OBVIOUS
  <1>3. r.kind = proc[p].kind /\ r.at = IF proc[p].kind = "execute" THEN "stopping" ELSE "over"
    BY <1>2 DEF Waiting
  <1>4. PICK m : m = [s EXCEPT !.status = IF proc[p].kind = "execute" THEN v ELSE @]
    OBVIOUS
  <1>5. m.candidate = s.candidate /\ (proc[p].kind = "execute" => m.status = v)
    BY <1>4 DEF IsState
  <1>6. proc' = [proc EXCEPT ![p] = r] /\ mem' = [mem EXCEPT ![p] = m]
    BY <1>2, <1>4 DEF Stop
  <1> QED
    BY <1>1, <1>3, <1>5, <1>6 DEF Steady, At

LEMMA ConcludeEnds ==
  ASSUME JobTypes, NEW p \in Processes, NEW s, Conclude(p, s)
  PROVE  /\ Steady(p) /\ proc'[p].kind = proc[p].kind
         /\ At(p)' = "stopping" /\ mem'[p] = s
  <1>1. DOMAIN proc = Processes /\ DOMAIN mem = Processes
    BY DEF JobTypes
  <1>2. PICK r : r = [Waiting EXCEPT !.at = "stopping", !.kind = proc[p].kind]
    OBVIOUS
  <1>3. r.kind = proc[p].kind /\ r.at = "stopping"
    BY <1>2 DEF Waiting
  <1>4. proc' = [proc EXCEPT ![p] = r] /\ mem' = [mem EXCEPT ![p] = s]
    BY <1>2 DEF Conclude
  <1> QED
    BY <1>1, <1>3, <1>4 DEF Steady, At

LEMMA ProceedTo ==
  ASSUME JobTypes, NEW p \in Processes, NEW s, Proceed(p, s)
  PROVE  /\ Steady(p) /\ proc'[p].kind = proc[p].kind
         /\ At(p)' = "next" /\ mem'[p] = s
         /\ proc'[p].todo = Tail(proc[p].todo) /\ proc'[p].before = proc[p].before
  BY DEF JobTypes, IsProc, Proceed, Steady, At

(* A stop without a review or a candidate.                                  *)
LEMMA StopStep ==
  ASSUME JobInv, CandidateInv, NEW p \in Processes, Working(p),
         NEW s, IsState(s), s.candidate = mem[p].candidate,
         NEW v, v # Selecting, Stop(p, v, s),
         CommitIds \subseteq CommitIds', SavesPlain(p), tree' = tree
  PROVE  CandidateInv'
  <1>1. /\ Steady(p) /\ proc'[p].kind = proc[p].kind /\ At(p)' \in {"stopping", "over"}
        /\ mem'[p].candidate = s.candidate
        /\ proc[p].kind = "execute" => mem'[p].status = v
    BY StopEnds DEF JobInv
  <1>2. CopyInv(p) /\ KindInv(p)
    BY DEF CandidateInv
  <1>3. Whole(mem[p])'
    BY <1>1, <1>2 DEF CopyInv, Whole, WholeIn
  <1>4. p = Runner => mem'[p].status # Selecting
    BY <1>1, <1>2 DEF KindInv
  <1> QED
    BY <1>1, <1>3, <1>4, EndStep DEF Working

(* On to the next role: the copy still covers the commits, or the commit of *)
(* what the task left is next.                                              *)
LEMMA ProceedStep ==
  ASSUME JobInv, CandidateInv, NEW p \in Processes, Working(p), Role(p) \notin Ends,
         NEW s, Proceed(p, s), s.candidate = mem[p].candidate, s.status = mem[p].status,
         Based(p)', Repairs(p) => RepairKnown(p)',
         CommitIds \subseteq CommitIds', disk' = disk \/ disk' = s, UNCHANGED <<job, tree>>
  PROVE  CandidateInv'
  <1>1. /\ Steady(p) /\ proc'[p].kind = proc[p].kind /\ At(p)' = "next" /\ mem'[p] = s
        /\ proc'[p].todo = Tail(proc[p].todo)
    BY ProceedTo DEF JobInv
  <1>2. KindInv(p) /\ CopyInv(p) /\ WorkInv(p) /\ tree \in Snapshots
    BY DEF CandidateInv, FilesInv
  <1>3. /\ Ordered(proc[p].kind, proc[p].todo)
        /\ mem[p].candidate = None /\ mem[p].status = IF p = Runner THEN "RUNNING" ELSE Selecting
    BY <1>2 DEF WorkInv, CopyInv
  <1>4. Ordered(proc[p].kind, Tail(proc[p].todo))
    BY <1>3, OrderedTail DEF Role
  <1>5. Ordered(proc[p].kind, proc[p].todo)'
    BY <1>1, <1>4, OrderedStays
  <1>6. WorkInv(p)'
    BY <1>1, <1>5 DEF WorkInv, Flying, InFlight, Repairs
  <1>7. CopyInv(p)'
    BY <1>1, <1>3 DEF CopyInv, Whole, WholeIn
  <1>8. SavesPlain(p)
    BY <1>3 DEF SavesPlain, Selecting
  <1> QED
    BY <1>1, <1>2, <1>6, <1>7, <1>8, OwnPlainStep DEF Working

-----------------------------------------------------------------------------
(* ONE ACTION AFTER THE OTHER.                                              *)
LEMMA AtWork ==
  ASSUME JobInv, CandidateInv, NEW p \in Processes, At(p) \in Flying \cup {"next", "recording"}
  PROVE  /\ Working(p) /\ Owns(p) /\ Busy(p) /\ JobTypes /\ IsProc(proc[p])
         /\ IsState(mem[p]) /\ IsState(Called(p)) /\ Unchanged(mem[p], Called(p))
         /\ KindInv(p) /\ CopyInv(p) /\ WorkInv(p) /\ tree \in Snapshots
         /\ Role(p) \in RolesOf(proc[p].kind)
         /\ mem[p].candidate = None /\ mem[p].status = IF p = Runner THEN "RUNNING" ELSE Selecting
  <1>1. /\ KindInv(p) /\ CopyInv(p) /\ WorkInv(p) /\ tree \in Snapshots /\ JobTypes
    BY DEF CandidateInv, FilesInv, JobInv
  <1>2. Working(p) /\ Owns(p) /\ Busy(p)
    BY <1>1 DEF KindInv, Owns, Busy, Working, InFlight, At, Flying
  <1>3. IsState(mem[p]) /\ IsState(Called(p))
    <2>1. At(p) # "deciding"
      BY DEF Flying, InFlight
    <2> QED
      BY <1>2, <2>1, StateOfProcess DEF SameClaims
  <1>4. Unchanged(mem[p], Called(p))
    BY <1>3 DEF Called, IsState, Unchanged
  <1>5. Role(p) \in RolesOf(proc[p].kind)
    BY <1>1, <1>2, OrderedHead DEF WorkInv, Role
  <1> QED
    BY <1>1, <1>2, <1>3, <1>4, <1>5 DEF JobTypes, CopyInv

LEMMA RefuseCand ==
  ASSUME JobInv, CandidateInv, NEW p \in Processes, CommitIds \subseteq CommitIds',
         RefuseInvocation(p) \/ RefuseCommit(p)
  PROVE  CandidateInv'
  <1>1. At(p) = "next" /\ UNCHANGED <<disk, tree>>
    BY DEF RefuseInvocation, RefuseCommit, At, jobRest
  <1>2. Working(p) /\ IsState(mem[p])
    BY <1>1, AtWork
  <1>3. PICK v \in {"BLOCKED", "INVALID", "FAIL"} : Stop(p, v, mem[p])
    BY DEF RefuseInvocation, RefuseCommit
  <1>4. v # Selecting /\ SavesPlain(p)
    BY <1>1 DEF Selecting, SavesPlain
  <1> QED
    BY <1>1, <1>2, <1>3, <1>4, StopStep

LEMMA AllocateCand ==
  ASSUME JobInv, CandidateInv, NEW p \in Processes, CommitIds \subseteq CommitIds',
         AllocateExecution(p)
  PROVE  CandidateInv'
  <1>1. /\ At(p) = "next" /\ Role(p) \in Invocations /\ disk' = mem[p]
        /\ UNCHANGED <<job, tree, mem>>
    BY DEF AllocateExecution, At
  <1>2. /\ Working(p) /\ Owns(p) /\ Busy(p) /\ JobTypes /\ IsProc(proc[p])
        /\ KindInv(p) /\ CopyInv(p) /\ WorkInv(p) /\ tree \in Snapshots
    BY <1>1, AtWork
  <1>3. /\ Steady(p) /\ At(p)' = "intent" /\ proc'[p].kind = proc[p].kind
        /\ proc'[p].todo = proc[p].todo
        /\ proc'[p].before = IF Role(p) = "GATE" THEN proc[p].before ELSE tree
    BY <1>2 DEF AllocateExecution, JobTypes, IsProc, Steady, At
  <1>4. Ordered(proc[p].kind, proc[p].todo)' /\ Role(p)' = Role(p) /\ Based(p)
    BY <1>1, <1>2, <1>3, OrderedStays DEF WorkInv, Role
  <1>5. SavesPlain(p)
    BY <1>1, <1>2, WorkerSaves DEF Unchanged
  <1>6. CopyInv(p)'
    BY <1>1, <1>2, <1>3 DEF CopyInv, Whole, WholeIn, Working, Owns, Busy, At
  <1>7. Role(p)' = "GATE" => Based(p)'
    BY <1>1, <1>3, <1>4, BasedStays
  <1>8. Role(p)' # "GATE" => Watched(p)'
    <2> SUFFICES ASSUME Role(p) # "GATE" PROVE Watched(p)'
      BY <1>4
    <2>1. Ordered(proc[p].kind, proc[p].todo)
      BY <1>2 DEF WorkInv
    <2>2. ~CommitsNext(proc[p].todo, 1)
      BY <1>1, <2>1, OrderedHead
      DEF CommitsNext, Role, Invocations, Models, Implementers, Reviewers
    <2>3. Covers(mem[p], tree.head, CommitIds)
      BY <1>4, <2>2 DEF Based
    <2>4. SawCovered(p)'
      BY <1>1, <1>2, <1>3, <2>3, CoversGrows DEF SawCovered
    <2>5. tree.head \in Nat /\ tree.paths \in Nat
      BY <1>2, BoundAssumption DEF Snapshots, Trees
    <2> QED
      BY <1>1, <1>3, <1>4, <2>4, <2>5 DEF Watched
  <1>9. Repairs(p)' => RepairKnown(p)'
    BY <1>1, <1>2, <1>3, <1>4 DEF WorkInv, RepairKnown, Repairs
  <1>10. WorkInv(p)'
    BY <1>1, <1>3, <1>4, <1>7, <1>8, <1>9 DEF WorkInv, Flying, InFlight
  <1> QED
    BY <1>1, <1>2, <1>3, <1>5, <1>6, <1>10, OwnPlainStep

LEMMA IntentCand ==
  ASSUME JobInv, CandidateInv, NEW p \in Processes, CommitIds \subseteq CommitIds',
         IntentAnswered(p)
  PROVE  CandidateInv'
  <1>1. At(p) = "intent" /\ UNCHANGED <<job, tree>>
    BY DEF IntentAnswered, At
  <1>2. Working(p) /\ JobTypes /\ IsProc(proc[p]) /\ IsState(mem[p])
    BY <1>1, AtWork DEF Flying, InFlight
  <1>3. CASE Dispatchable(p)
    <2>1. PICK s : s = [mem[p] EXCEPT !.known = @ \cup {proc[p].exec}]
      OBVIOUS
    <2>2. mem' = [mem EXCEPT ![p] = s] /\ disk' = s /\ proc' = Set(p, "at", "dispatch")
      BY <1>3, <2>1 DEF IntentAnswered
    <2>3. Unchanged(mem[p], s)
      BY <1>2, <2>1 DEF Unchanged, IsState
    <2>4. mem'[p] = s
      BY <1>2, <2>2 DEF JobTypes
    <2>5. /\ Steady(p) /\ At(p)' = "dispatch" /\ proc'[p].kind = proc[p].kind
          /\ proc'[p].todo = proc[p].todo /\ proc'[p].before = proc[p].before
      BY <1>2, <2>2 DEF Set, JobTypes, IsProc, Steady, At
    <2> QED
      BY <1>1, <2>2, <2>3, <2>4, <2>5, FlyingStep DEF InFlight, Flying
  <1>4. CASE ~Dispatchable(p)
    <2>1. Stop(p, "BLOCKED", mem[p]) /\ disk' = disk
      BY <1>4 DEF IntentAnswered
    <2> QED
      BY <1>1, <1>2, <2>1, StopStep DEF SavesPlain, Selecting
  <1> QED
    BY <1>3, <1>4

LEMMA PlaceCand ==
  ASSUME JobInv, CandidateInv, NEW p \in Processes, CommitIds \subseteq CommitIds',
         NotDispatched(p) \/ SpawnProcess(p) \/ StartAnswered(p) \/ ChildEnds(p)
  PROVE  CandidateInv'
  <1>1. At(p) \in {"dispatch", "starting", "running"} /\ UNCHANGED <<job, tree, disk, mem>>
    BY DEF NotDispatched, SpawnProcess, StartAnswered, ChildEnds, At
  <1>2. JobTypes /\ IsProc(proc[p])
    BY DEF JobInv, JobTypes
  <1>3. ASSUME NEW source, NEW then \in {"stop", "stray", "PASS", "FAIL"}, AskClose(p, source, then)
        PROVE  CandidateInv'
    <2>1. /\ Steady(p) /\ At(p)' = "closing" /\ proc'[p].kind = proc[p].kind
          /\ proc'[p].todo = proc[p].todo /\ proc'[p].before = proc[p].before
          /\ proc'[p].then = then
      BY <1>2, <1>3 DEF AskClose, JobTypes, IsProc, Steady, At
    <2> QED
      BY <1>1, <2>1, FlyingStep DEF InFlight, Flying, Unchanged
  <1>4. CASE NotDispatched(p)
    BY <1>3, <1>4 DEF NotDispatched
  <1>5. CASE ChildEnds(p)
    BY <1>3, <1>5 DEF ChildEnds
  <1>6. CASE SpawnProcess(p) \/ StartAnswered(p)
    <2>1. /\ Steady(p) /\ At(p)' \in {"starting", "running"} /\ proc'[p].kind = proc[p].kind
          /\ proc'[p].todo = proc[p].todo /\ proc'[p].before = proc[p].before
      BY <1>2, <1>6 DEF SpawnProcess, StartAnswered, Set, JobTypes, IsProc, Steady, At
    <2> QED
      BY <1>1, <2>1, FlyingStep DEF InFlight, Flying, Unchanged
  <1> QED
    BY <1>4, <1>5, <1>6

LEMMA RowCand ==
  ASSUME JobInv, CandidateInv, NEW p \in Processes, CommitIds \subseteq CommitIds',
         CloseAnswered(p)
  PROVE  CandidateInv'
  <1>1. At(p) = "closing" /\ UNCHANGED <<job, tree>>
    BY DEF CloseAnswered, At
  <1>2. /\ Working(p) /\ Owns(p) /\ Busy(p) /\ JobTypes /\ IsProc(proc[p]) /\ IsState(mem[p])
        /\ CopyInv(p) /\ KindInv(p)
    BY <1>1, AtWork DEF Flying, InFlight
  <1>3. PICK row : row = [mem[p] EXCEPT
            !.started = IF proc[p].start = "RECORDED" THEN @ \cup {proc[p].exec} ELSE @,
            !.closed = IF answer[p] = "RECORDED" THEN @ \cup {proc[p].exec} ELSE @]
    OBVIOUS
  <1>4. Unchanged(mem[p], row) /\ IsState(row)
    BY <1>2, <1>3 DEF IsState, Unchanged
  <1>5. disk' = row
    BY <1>3 DEF CloseAnswered
  <1>6. SavesPlain(p)
    BY <1>2, <1>4, <1>5, WorkerSaves
  <1>7. CASE Stop(p, "BLOCKED", row)
    BY <1>1, <1>2, <1>4, <1>6, <1>7, StopStep DEF Selecting, Unchanged
  <1>8. CASE Conclude(p, row) /\ proc[p].kind = "execute"
    <2>1. /\ Steady(p) /\ proc'[p].kind = proc[p].kind /\ At(p)' = "stopping" /\ mem'[p] = row
      BY <1>2, <1>8, ConcludeEnds
    <2>2. p = Runner /\ row.candidate = None /\ row.status = "RUNNING"
      BY <1>2, <1>4, <1>8 DEF KindInv, CopyInv, Unchanged
    <2>3. Whole(mem[p])' /\ mem'[p].status # Selecting
      BY <2>1, <2>2 DEF Whole, WholeIn, Selecting
    <2> QED
      BY <1>1, <1>2, <1>6, <2>1, <2>3, EndStep
  <1>9. CASE /\ mem' = [mem EXCEPT ![p] = row] /\ proc' = Set(p, "at", "result")
             /\ proc[p].then \notin {"stop", "stray"}
    <2>1. mem'[p] = row
      BY <1>2, <1>9 DEF JobTypes
    <2>2. /\ Steady(p) /\ At(p)' = "result" /\ proc'[p].kind = proc[p].kind
          /\ proc'[p].todo = proc[p].todo /\ proc'[p].before = proc[p].before
          /\ proc'[p].then = proc[p].then
      BY <1>2, <1>9 DEF Set, JobTypes, IsProc, Steady, At
    <2>3. proc[p].then \in {"PASS", "FAIL"}
      BY <1>1, <1>2, <1>9 DEF CopyInv
    <2> QED
      BY <1>1, <1>4, <1>5, <2>1, <2>2, <2>3, FlyingStep DEF InFlight, Flying
  <1>10. \/ Stop(p, "BLOCKED", row)
         \/ Conclude(p, row) /\ proc[p].kind = "execute"
         \/ /\ mem' = [mem EXCEPT ![p] = row] /\ proc' = Set(p, "at", "result")
            /\ proc[p].then \notin {"stop", "stray"}
    BY <1>3 DEF CloseAnswered
  <1> QED
    BY <1>7, <1>8, <1>9, <1>10

\* What the code leaves to others is kept to, but for an adapter's errors.
KeptTo == Unchecked \subseteq {"stray error"}

LEMMA SnapshotType ==
  ASSUME NEW t \in Snapshots
  PROVE  /\ t \in Trees /\ t.head \in Nat /\ t.paths \in Nat
         /\ t.content \in Nat /\ t.committed \in Nat /\ t.committed <= t.content
  <1>1. t \in Trees /\ t.committed <= t.content
    BY DEF Snapshots
  <1>2. t.head \in 0..MaxId /\ t.paths \in Nat /\ t.content \in Nat /\ t.committed \in Nat
    BY <1>1 DEF Trees
  <1> QED
    BY <1>1, <1>2, BoundAssumption

LEMMA TreeMoves ==
  ASSUME tree \in Snapshots
  PROVE  /\ Edited(TRUE) \in Snapshots /\ Edited(TRUE).head = tree.head
         /\ Edited(TRUE).paths = tree.paths + 1
         /\ tree.head < MaxId => Committed \in Snapshots
         /\ Committed.head = tree.head + 1 /\ Committed.content = tree.content
  <1>1. /\ tree \in Trees /\ tree.content \in Nat /\ tree.committed \in Nat
        /\ tree.committed <= tree.content
    BY SnapshotType
  <1>2. /\ Edited(TRUE).head = tree.head /\ Edited(TRUE).paths = tree.paths + 1
        /\ Edited(TRUE).content = tree.content + 1 /\ Edited(TRUE).committed = tree.committed
    BY <1>1 DEF Edited, Trees
  <1>3. /\ Committed.head = tree.head + 1 /\ Committed.content = tree.content
        /\ Committed.committed = tree.content
    BY <1>1 DEF Committed, Trees
  <1>4. Edited(TRUE) \in Trees /\ (tree.head < MaxId => Committed \in Trees)
    BY <1>1, TreeTypes
  <1>5. Edited(TRUE).committed <= Edited(TRUE).content
    <2>1. \A a, c \in Nat : a <= c => a <= c + 1
      OBVIOUS
    <2> QED
      BY <1>1, <1>2, <2>1
  <1>6. Committed.committed <= Committed.content
    BY <1>1, <1>3
  <1> QED
    BY <1>2, <1>3, <1>4, <1>5, <1>6 DEF Snapshots

(* A child that edits, or commits, is not taken for one that did not.       *)
LEMMA WorkCand ==
  ASSUME JobInv, CandidateInv, NEW p \in Processes, CommitIds \subseteq CommitIds',
         KeptTo, ChildWorks(p)
  PROVE  CandidateInv'
  <1>1. At(p) = "running" /\ UNCHANGED <<job, disk, mem, proc>>
    BY DEF ChildWorks, At
  <1>2. /\ Working(p) /\ Owns(p) /\ Busy(p) /\ CopyInv(p) /\ WorkInv(p) /\ tree \in Snapshots
    BY <1>1, AtWork DEF Flying, InFlight
  <1>3. \/ /\ Role(p) \in Implementers \cup Reviewers /\ tree' = Edited(TRUE)
        \/ /\ Role(p) \in Reviewers \/ (Role(p) \in Implementers /\ job.type = "MULTI_SUBTASK")
           /\ tree' = Committed /\ tree.head < MaxId
    BY DEF KeptTo, ChildWorks, MayCommit
  <1>4. tree.head \in Nat /\ tree.paths \in Nat
    BY <1>2, SnapshotType
  <1>5. /\ Edited(TRUE) \in Snapshots /\ Edited(TRUE).head = tree.head
        /\ Edited(TRUE).paths = tree.paths + 1
    BY <1>2, TreeMoves
  <1>6. (tree.head < MaxId => Committed \in Snapshots) /\ Committed.head = tree.head + 1
    BY <1>2, TreeMoves
  <1>7. tree' \in Snapshots
    BY <1>3, <1>5, <1>6
  <1>8. Steady(p) /\ proc'[p].kind = proc[p].kind /\ At(p)' = "running" /\ SavesPlain(p)
    BY <1>1 DEF Steady, At, SavesPlain
  <1>9. /\ Role(p)' = Role(p) /\ Role(p) \notin {"GATE", "PLAN"}
        /\ Role(p) \in Reviewers => Role(p) \notin Implementers
    BY <1>1, <1>3 DEF Role, Implementers, Reviewers
  <1>10. CopyInv(p)'
    BY <1>1, <1>2 DEF CopyInv, Whole, WholeIn, Working, Owns, Busy, At
  <1>11. Watched(p)'
    <2>1. Watched(p)
      BY <1>1, <1>2, <1>9 DEF WorkInv, Flying, InFlight
    <2>2. SawCovered(p)'
      BY <1>1, <2>1, SawCoveredStays DEF Watched
    <2>3. proc[p].before.head \in Nat /\ proc[p].before.paths \in Nat
      BY <2>1, SnapshotType DEF Watched, SawCovered
    <2>4. Role(p) \in Reviewers =>
            /\ proc[p].before.head <= tree'.head
            /\ tree'.head = proc[p].before.head =>
                 /\ proc[p].before.paths <= tree'.paths
                 /\ tree'.paths = proc[p].before.paths => proc[p].before.content = tree'.content
      <3> SUFFICES ASSUME Role(p) \in Reviewers
                   PROVE  /\ proc[p].before.head <= tree'.head
                          /\ tree'.head = proc[p].before.head =>
                               proc[p].before.paths <= tree'.paths /\ tree'.paths # proc[p].before.paths
        OBVIOUS
      <3>0. PICK h \in Nat, n \in Nat, x \in Nat, y \in Nat :
              /\ h = proc[p].before.head /\ n = proc[p].before.paths
              /\ x = tree.head /\ y = tree.paths
        BY <1>4, <2>3
      <3>1. h <= x /\ (x = h => n <= y)
        BY <2>1, <3>0 DEF Watched
      <3>2. PICK v, w : v = tree'.head /\ w = tree'.paths
        OBVIOUS
      <3>3. CASE tree' = Edited(TRUE)
        <4>0. y + 1 \in Nat
          BY <3>0
        <4>1. v = x
          BY <1>5, <3>0, <3>2, <3>3
        <4>3. w = y + 1
          BY <1>5, <3>0, <3>2, <3>3
        <4>4. v \in Nat /\ w \in Nat
          BY <3>0, <4>0, <4>1, <4>3
        <4>2. h <= v /\ (v = h => n <= w /\ w # n)
          BY <3>1, <4>1, <4>3, <4>4
        <4> QED
          BY <3>0, <3>2, <4>2
      <3>4. CASE tree' = Committed
        <4>1. v = x + 1 /\ v \in Nat
          BY <1>6, <3>0, <3>2, <3>4
        <4>2. h <= v /\ v # h
          BY <3>1, <4>1
        <4> QED
          BY <3>0, <3>2, <4>2
      <3> QED
        BY <1>3, <3>3, <3>4
    <2>5. Role(p) \in Implementers /\ job.type # "MULTI_SUBTASK" => tree'.head = proc[p].before.head
      BY <1>3, <1>5, <1>9, <2>1 DEF Watched
    <2> QED
      BY <1>1, <1>9, <2>2, <2>4, <2>5 DEF Watched
  <1>12. WorkInv(p)'
    <2>1. Ordered(proc[p].kind, proc[p].todo)'
      BY <1>1, <1>2, OrderedStays DEF WorkInv
    <2>2. Repairs(p)' => RepairKnown(p)'
      BY <1>1, <1>2, <1>9 DEF WorkInv, RepairKnown, Repairs, At
    <2>3. At(p)' \in Flying \cup {"next", "recording"} /\ Role(p)' \in Invocations
      BY <1>1, <1>2, <1>9 DEF WorkInv, At, Flying, InFlight
    <2> QED
      BY <1>8, <1>9, <1>11, <2>1, <2>2, <2>3 DEF WorkInv
  <1> QED
    BY <1>2, <1>7, <1>8, <1>10, <1>12, OwnPlainStep

(* A process that goes to its last save with a status of its own.           *)
LEMMA ConcludeStep ==
  ASSUME JobInv, CandidateInv, NEW p \in Processes, Working(p),
         NEW s, Conclude(p, s), Whole(s),
         p = Runner => s.status # Selecting \/ Selectable(s),
         CommitIds \subseteq CommitIds', SavesPlain(p), tree' = tree
  PROVE  CandidateInv'
  <1>1. /\ Steady(p) /\ proc'[p].kind = proc[p].kind /\ At(p)' = "stopping" /\ mem'[p] = s
    BY ConcludeEnds DEF JobInv
  <1>2. Whole(mem[p])'
    BY <1>1, WholeGrows DEF Whole
  <1>3. Selectable(s) => Selectable(mem[p])'
    BY <1>1, CoversGrows DEF Selectable
  <1> QED
    BY <1>1, <1>2, <1>3, EndStep DEF Working

LEMMA HeadCovered ==
  ASSUME NEW p, SawCovered(p), tree.head = proc[p].before.head, tree' = tree,
         mem[p].commits \subseteq mem'[p].commits, CommitIds \subseteq CommitIds'
  PROVE  Based(p)'
  BY CoversGrows DEF SawCovered, Based

LEMMA PlanCand ==
  ASSUME JobInv, CandidateInv, NEW p \in Processes, CommitIds \subseteq CommitIds',
         UsePlan(p) \/ LeaveStages(p)
  PROVE  CandidateInv'
  <1>1. /\ At(p) \in {"result", "next"} /\ UNCHANGED <<job, tree>>
        /\ UsePlan(p) => At(p) = "result" /\ Role(p) = "PLAN"
    BY DEF UsePlan, LeaveStages, Finished, At, jobRest
  <1>2. /\ Working(p) /\ JobTypes /\ IsState(mem[p]) /\ IsState(Called(p))
        /\ Unchanged(mem[p], Called(p)) /\ KindInv(p) /\ CopyInv(p) /\ WorkInv(p)
        /\ Role(p) \in RolesOf(proc[p].kind) /\ mem[p].candidate = None
    BY <1>1, AtWork DEF Flying, InFlight
  <1>3. p = Runner
    BY <1>1, <1>2 DEF RolesOf, KindInv, UsePlan, LeaveStages
  <1>4. ASSUME NEW s, IsState(s), s.candidate = None,
               NEW v \in {"BLOCKED", "WAITING_FOR_PLAN_APPROVAL"}, NEW w, w = [s EXCEPT !.status = v],
               Conclude(p, w), disk' = w
        PROVE  CandidateInv'
    <2>1. w.candidate = None /\ w.status = v
      BY <1>4 DEF IsState
    <2> QED
      BY <1>1, <1>2, <1>3, <1>4, <2>1, ConcludeStep DEF SavesPlain, Selecting, Whole, WholeIn
  <1>5. CASE LeaveStages(p)
    <2>1. PICK w : w = [mem[p] EXCEPT !.status = "BLOCKED"]
      OBVIOUS
    <2>2. Conclude(p, w) /\ disk' = mem'[p]
      BY <1>5, <2>1 DEF LeaveStages
    <2>3. disk' = w
      BY <1>2, <2>2, ConcludeEnds
    <2> QED
      BY <1>2, <1>4, <2>1, <2>2, <2>3
  <1>6. CASE UsePlan(p)
    <2>1. \/ proc[p].then # "PASS" /\ Stop(p, proc[p].then, Called(p)) /\ disk' = disk
          \/ \E w : /\ w = [Called(p) EXCEPT !.status = "WAITING_FOR_PLAN_APPROVAL"]
                    /\ Conclude(p, w) /\ disk' = w
          \/ Proceed(p, Called(p)) /\ disk' = disk
      BY <1>6 DEF UsePlan
    <2>2. CASE Stop(p, proc[p].then, Called(p)) /\ disk' = disk
      <3>1. proc[p].then # Selecting
        BY <1>1, <1>2, <1>6 DEF CopyInv, Selecting
      <3> QED
        BY <1>1, <1>2, <2>2, <3>1, StopStep DEF SavesPlain, Unchanged
    <2>3. ASSUME NEW w, w = [Called(p) EXCEPT !.status = "WAITING_FOR_PLAN_APPROVAL"],
                 Conclude(p, w), disk' = w
          PROVE  CandidateInv'
      BY <1>2, <1>4, <2>3 DEF Unchanged
    <2>4. CASE Proceed(p, Called(p)) /\ disk' = disk
      <3>1. /\ mem'[p] = Called(p) /\ proc'[p].before = proc[p].before
            /\ Called(p).commits = mem[p].commits
            /\ Called(p).candidate = mem[p].candidate /\ Called(p).status = mem[p].status
        BY <1>2, <2>4, ProceedTo DEF Unchanged
      <3>2. Watched(p)
        BY <1>1, <1>2, <1>6 DEF WorkInv, Flying
      <3>3. Based(p)'
        BY <1>1, <1>6, <3>1, <3>2, HeadCovered DEF Watched
      <3>4. ~Repairs(p) /\ Role(p) \notin Ends
        BY <1>1, <1>2, <1>3, <1>6 DEF KindInv, Repairs, Ends
      <3> QED
        BY <1>1, <1>2, <2>4, <3>1, <3>3, <3>4, ProceedStep
    <2> QED
      BY <2>1, <2>2, <2>3, <2>4
  <1> QED
    BY <1>5, <1>6

LEMMA TaskCand ==
  ASSUME JobInv, CandidateInv, NEW p \in Processes, CommitIds \subseteq CommitIds',
         UseTask(p) \/ UseGate(p)
  PROVE  CandidateInv'
  <1>1. /\ At(p) = "result" /\ Role(p) \in {"SUBTASK", "IMPLEMENT", "GATE"} /\ UNCHANGED <<job, tree>>
        /\ UseTask(p) => Role(p) \in {"SUBTASK", "IMPLEMENT"}
        /\ UseGate(p) => Role(p) = "GATE"
    BY DEF UseTask, UseGate, Finished, At, jobRest
  <1>2. /\ Working(p) /\ JobTypes /\ IsState(mem[p]) /\ IsState(Called(p))
        /\ Unchanged(mem[p], Called(p)) /\ KindInv(p) /\ CopyInv(p) /\ WorkInv(p)
        /\ Role(p) \in RolesOf(proc[p].kind) /\ mem[p].candidate = None
    BY <1>1, AtWork DEF Flying
  <1>3. ~Repairs(p) /\ Role(p) \notin Ends
    BY <1>1, <1>2 DEF RolesOf, KindInv, Repairs, Ends
  <1>4. PICK s \in {mem[p], Called(p)} :
          \/ /\ proc[p].then = "PASS" /\ Proceed(p, s) /\ disk' \in {disk, s}
             /\ UseGate(p) => s = mem[p]
          \/ \E v \in {"FAIL", proc[p].then} : v # "PASS" /\ Stop(p, v, s) /\ disk' = disk
    BY DEF UseTask, UseGate
  <1>5. Unchanged(mem[p], s) /\ IsState(s)
    BY <1>2 DEF Unchanged
  <1>6. CASE \E v \in {"FAIL", proc[p].then} : v # "PASS" /\ Stop(p, v, s) /\ disk' = disk
    <2>1. proc[p].then # Selecting
      BY <1>1, <1>2 DEF CopyInv, Selecting
    <2> QED
      BY <1>1, <1>2, <1>5, <1>6, <2>1, StopStep DEF SavesPlain, Unchanged, Selecting
  <1>7. CASE Proceed(p, s) /\ disk' \in {disk, s}
    <2>1. /\ mem'[p] = s /\ proc'[p].before = proc[p].before
          /\ proc'[p].todo = Tail(proc[p].todo) /\ mem[p].commits \subseteq mem'[p].commits
      BY <1>2, <1>5, <1>7, ProceedTo DEF Unchanged
    <2>2. Ordered(proc[p].kind, proc[p].todo) /\ Head(proc[p].todo) = Role(p)
      BY <1>2 DEF WorkInv, Role
    <2>3. ASSUME SawCovered(p), CommitsNext(Tail(proc[p].todo), 1) PROVE Based(p)'
      BY <2>1, <2>3, SawCoveredStays DEF Based
    <2>6. Based(p)'
      <3>1. CASE UseGate(p)
        <4>1. Based(p)
          BY <1>1, <1>2, <3>1 DEF WorkInv
        <4>2. CASE Covers(mem[p], tree.head, CommitIds)
          BY <1>1, <2>1, <4>2, CoversGrows DEF Based
        <4>3. CASE CommitsNext(proc[p].todo, 1) /\ SawCovered(p)
          BY <1>1, <1>3, <2>2, <2>3, <3>1, <4>3, OrderedTail
        <4> QED
          BY <4>1, <4>2, <4>3 DEF Based
      <3>2. CASE UseTask(p)
        <4>1. Watched(p) /\ Role(p) \in Implementers
          BY <1>1, <1>2, <3>2 DEF WorkInv, Flying, Implementers
        <4>2. CASE job.type = "MULTI_SUBTASK"
          BY <1>3, <2>2, <2>3, <4>1, <4>2, OrderedTail DEF Watched
        <4>3. CASE job.type # "MULTI_SUBTASK"
          BY <1>1, <2>1, <4>1, <4>3, HeadCovered DEF Watched
        <4> QED
          BY <4>2, <4>3
      <3> QED
        BY <3>1, <3>2
    <2> QED
      BY <1>1, <1>2, <1>3, <1>5, <1>7, <2>6, ProceedStep DEF Unchanged
  <1> QED
    BY <1>4, <1>6, <1>7

LEMMA CommitTaskCand ==
  ASSUME LedgerInv, JobInv, CandidateInv, NEW p \in Processes, CommitIds \subseteq CommitIds',
         CommitTask(p)
  PROVE  CandidateInv'
  <1>1. /\ At(p) = "next" /\ Role(p) = "COMMIT" /\ UNCHANGED <<job, disk>>
        /\ tree.head = proc[p].before.head /\ tree' = Committed /\ tree.head < MaxId
        /\ call' = [call EXCEPT ![p] = CommitEvent(tree'.head)] /\ answer' = [answer EXCEPT ![p] = "NONE"]
    BY DEF CommitTask, At, MayCheckpoint, Ask
  <1>2. /\ Working(p) /\ Owns(p) /\ Busy(p) /\ JobTypes /\ IsState(mem[p]) /\ IsProc(proc[p])
        /\ KindInv(p) /\ CopyInv(p) /\ WorkInv(p) /\ tree \in Snapshots
    BY <1>1, AtWork
  <1>3. tree' \in Snapshots /\ tree'.head = tree.head + 1 /\ tree.head \in Nat /\ tree'.head \in Nat
    BY <1>1, <1>2, TreeMoves, SnapshotType
  <1>4. PICK m : m = [mem[p] EXCEPT !.commits = @ \cup {tree'.head}]
    OBVIOUS
  <1>5. /\ m.candidate = mem[p].candidate /\ m.status = mem[p].status /\ m.review = mem[p].review
        /\ m.repair = mem[p].repair /\ m.commits = mem[p].commits \cup {tree'.head}
    BY <1>2, <1>4 DEF IsState
  <1>6. mem' = [mem EXCEPT ![p] = m] /\ mem'[p] = m
    BY <1>2, <1>4 DEF CommitTask, JobTypes
  <1>7. /\ Steady(p) /\ At(p)' = "recording" /\ proc'[p].kind = proc[p].kind
        /\ proc'[p].todo = proc[p].todo /\ Role(p)' = Role(p)
    BY <1>2 DEF CommitTask, Set, JobTypes, IsProc, Steady, At, Role
  <1>8. Covers(mem[p], tree.head, CommitIds)
    BY <1>1, <1>2 DEF WorkInv, Based, SawCovered
  <1>9. Checkpointing(p)'
    <2>1. Covers(m, tree.head, CommitIds')
      BY <1>5, <1>8, CoversGrows
    <2>2. tree'.head - 1 = tree.head
      BY <1>3
    <2>3. Covers(m, tree'.head - 1, CommitIds')
      BY <2>1, <2>2
    <2>4. call'[p] # None => call'[p] = CommitEvent(tree'.head)
      <3>1. p \in DOMAIN call
        BY WriterAssumption DEF LedgerInv, LedgerTypeOK
      <3> QED
        BY <1>1, <3>1
    <2>5. answer'[p] # "RECORDED"
      <3>1. p \in DOMAIN answer
        BY WriterAssumption DEF LedgerInv, LedgerTypeOK
      <3> QED
        BY <1>1, <3>1
    <2> QED
      BY <1>1, <1>5, <1>6, <1>7, <2>3, <2>4, <2>5 DEF Checkpointing
  <1>10. Repairs(p)' => RepairKnown(p)'
    BY <1>1, <1>2, <1>5, <1>6, <1>7 DEF WorkInv, RepairKnown, Repairs
  <1>11. WorkInv(p)'
    <2>1. Ordered(proc[p].kind, proc[p].todo)'
      BY <1>1, <1>2, <1>7, OrderedStays DEF WorkInv
    <2> QED
      BY <1>1, <1>7, <1>9, <1>10, <2>1 DEF WorkInv, Flying, InFlight
  <1>12. CopyInv(p)' /\ SavesPlain(p)
    BY <1>1, <1>2, <1>5, <1>6, <1>7 DEF CopyInv, Whole, WholeIn, SavesPlain
  <1> QED
    BY <1>2, <1>3, <1>7, <1>11, <1>12, OwnPlainStep

LEMMA CommitAnsweredCand ==
  ASSUME JobInv, CandidateInv, NEW p \in Processes, CommitIds \subseteq CommitIds',
         CommitAnswered(p)
  PROVE  CandidateInv'
  <1>1. At(p) = "recording" /\ UNCHANGED <<job, tree>>
    BY DEF CommitAnswered, At, jobRest
  <1>2. /\ Working(p) /\ JobTypes /\ IsState(mem[p]) /\ WorkInv(p) /\ tree \in Snapshots
    BY <1>1, AtWork
  <1>3. Checkpointing(p) /\ Role(p) = "COMMIT"
    BY <1>1, <1>2 DEF WorkInv, Checkpointing
  <1>4. CASE answer[p] # "RECORDED"
    <2>1. Stop(p, "BLOCKED", mem[p]) /\ disk' = disk
      BY <1>4 DEF CommitAnswered
    <2> QED
      BY <1>1, <1>2, <2>1, StopStep DEF SavesPlain, Selecting
  <1>5. CASE answer[p] = "RECORDED"
    <2>1. Proceed(p, mem[p]) /\ disk' \in {disk, mem[p]}
      BY <1>5 DEF CommitAnswered
    <2>2. /\ mem'[p] = mem[p] /\ At(p)' = "next"
          /\ proc'[p].todo = Tail(proc[p].todo)
      BY <1>2, <2>1, ProceedTo
    <2>3. Covers(mem[p], tree.head, CommitIds)
      <3>1. tree.head \in Nat
        BY <1>2, SnapshotType
      <3>2. 1..tree.head \subseteq 1..(tree.head - 1) \cup {tree.head}
        BY <3>1
      <3> QED
        BY <1>3, <1>5, <3>2 DEF Checkpointing, Covers
    <2>4. Based(p)'
      BY <1>1, <2>2, <2>3, CoversGrows DEF Based
    <2>5. Role(p)' # "REPAIR"
      BY <1>2, <1>3, <2>2, OrderedTail DEF WorkInv, Role, Ends
    <2>6. Repairs(p) => RepairKnown(p)'
      BY <1>2, <1>3, <2>2, <2>5 DEF WorkInv, RepairKnown
    <2> QED
      BY <1>1, <1>2, <1>3, <2>1, <2>4, <2>6, ProceedStep DEF Ends
  <1> QED
    BY <1>4, <1>5

\* What a reviewer that changed nothing saw is what there is.
LEMMA NotMutated ==
  ASSUME NEW p, Watched(p), Role(p) \in Reviewers, ~Mutated(p)
  PROVE  proc[p].before.content = tree.content /\ Covers(mem[p], tree.head, CommitIds)
  BY DEF Watched, Mutated, SawCovered

LEMMA ReviewCand ==
  ASSUME JobInv, CandidateInv, NEW p \in Processes, CommitIds \subseteq CommitIds',
         UseReview(p)
  PROVE  CandidateInv'
  <1>1. /\ At(p) = "result" /\ Role(p) = "REVIEW" /\ UNCHANGED <<job, tree, disk>>
    BY DEF UseReview, Finished, At, jobRest
  <1>2. /\ Working(p) /\ JobTypes /\ IsState(Called(p)) /\ CopyInv(p)
        /\ Unchanged(mem[p], Called(p)) /\ WorkInv(p) /\ mem[p].candidate = None
    BY <1>1, AtWork DEF Flying
  <1>3. SavesPlain(p) /\ proc[p].then \in {"PASS", "FAIL"}
    BY <1>1, <1>2 DEF SavesPlain, CopyInv
  <1>4. Watched(p) /\ Role(p) \in Reviewers
    BY <1>1, <1>2 DEF WorkInv, Flying, Reviewers
  <1>5. PICK r : r = [outcome |-> proc[p].then, head |-> tree.head, content |-> proc[p].before.content]
    OBVIOUS
  <1>6. PICK s : s = [Called(p) EXCEPT !.review = r]
    OBVIOUS
  <1>7. /\ IsState(s) /\ s.candidate = None /\ s.review = r /\ s.commits = mem[p].commits
        /\ r.outcome = proc[p].then /\ r.content = proc[p].before.content
    BY <1>2, <1>5, <1>6 DEF IsState, Unchanged
  <1>8. \/ Stop(p, "INVALID", Called(p))
        \/ /\ ~Mutated(p) /\ proc[p].then = "PASS"
           /\ Conclude(p, [s EXCEPT !.candidate = Candidate, !.status = "WAITING_FOR_HUMAN"])
        \/ /\ ~Mutated(p) /\ proc[p].then # "PASS"
           /\ Conclude(p, [s EXCEPT !.status = "WAITING_FOR_REPAIR_SELECTION"])
        \/ Stop(p, proc[p].then, s)
    BY <1>5, <1>6 DEF UseReview
  <1>9. ASSUME NEW v \in {"INVALID", "PASS", "FAIL"}, NEW t \in {Called(p), s}, Stop(p, v, t)
        PROVE  CandidateInv'
    BY <1>1, <1>2, <1>3, <1>7, <1>9, StopStep DEF Unchanged, Selecting
  <1>10. CASE /\ ~Mutated(p) /\ proc[p].then = "PASS"
              /\ Conclude(p, [s EXCEPT !.candidate = Candidate, !.status = "WAITING_FOR_HUMAN"])
    <2>1. PICK w : w = [s EXCEPT !.candidate = Candidate, !.status = "WAITING_FOR_HUMAN"]
      OBVIOUS
    <2>2. /\ w.candidate = Candidate /\ w.status = "WAITING_FOR_HUMAN" /\ w.review = r
          /\ w.commits = mem[p].commits
      BY <1>7, <2>1 DEF IsState
    <2>3. Candidate.head = tree.head /\ Candidate.content = tree.content
      BY DEF Candidate
    <2>4. proc[p].before.content = tree.content /\ Covers(mem[p], tree.head, CommitIds)
      BY <1>4, <1>10, NotMutated
    <2>5. Covers(w, tree.head, CommitIds)
      BY <2>2, <2>4 DEF Covers
    <2>6. Whole(w)
      BY <1>7, <1>10, <2>2, <2>3, <2>4, <2>5 DEF Whole, WholeIn
    <2>7. Conclude(p, w) /\ w.status # Selecting
      BY <1>10, <2>1, <2>2 DEF Selecting
    <2> QED
      BY <1>1, <1>2, <1>3, <2>6, <2>7, ConcludeStep
  <1>11. CASE /\ ~Mutated(p) /\ proc[p].then # "PASS"
              /\ Conclude(p, [s EXCEPT !.status = "WAITING_FOR_REPAIR_SELECTION"])
    <2>1. PICK w : w = [s EXCEPT !.status = "WAITING_FOR_REPAIR_SELECTION"]
      OBVIOUS
    <2>2. w.candidate = None /\ w.review = r /\ w.commits = mem[p].commits
      BY <1>7, <2>1 DEF IsState
    <2>3. proc[p].before.content = tree.content /\ Covers(mem[p], tree.head, CommitIds)
      BY <1>4, <1>11, NotMutated
    <2>4. Selectable(w) /\ Whole(w)
      BY <1>7, <1>11, <2>2, <2>3 DEF Selectable, Whole, WholeIn, Covers
    <2>5. Conclude(p, w)
      BY <1>11, <2>1
    <2> QED
      BY <1>1, <1>2, <1>3, <2>4, <2>5, ConcludeStep
  <1> QED
    BY <1>3, <1>8, <1>9, <1>10, <1>11

LEMMA RepairCand ==
  ASSUME JobInv, CandidateInv, NEW p \in Processes, CommitIds \subseteq CommitIds',
         UseRepair(p)
  PROVE  CandidateInv'
  <1>1. /\ At(p) = "result" /\ Role(p) = "REPAIR" /\ UNCHANGED <<job, tree, disk>>
    BY DEF UseRepair, Finished, At, jobRest
  <1>2. /\ Working(p) /\ JobTypes /\ IsState(Called(p)) /\ KindInv(p)
        /\ Unchanged(mem[p], Called(p)) /\ WorkInv(p) /\ mem[p].candidate = None
        /\ Role(p) \in RolesOf(proc[p].kind)
    BY <1>1, AtWork DEF Flying
  <1>3. SavesPlain(p) /\ Repairs(p) /\ p # Runner
    BY <1>1, <1>2 DEF SavesPlain, RolesOf, Owns, KindInv, Repairs, Working
  <1>4. Watched(p) /\ SawCovered(p) /\ RepairKnown(p)
    BY <1>1, <1>2, <1>3 DEF WorkInv, Flying, Watched
  <1>5. PICK f \in {proc[p].before.committed, proc[p].before.content} :
          \/ proc[p].then = "PASS" /\ Proceed(p, [Called(p) EXCEPT !.repair = f])
          \/ Conclude(p, [Called(p) EXCEPT !.status = proc[p].then])
    BY DEF UseRepair
  <1>6. CASE Conclude(p, [Called(p) EXCEPT !.status = proc[p].then])
    <2>1. PICK w : w = [Called(p) EXCEPT !.status = proc[p].then]
      OBVIOUS
    <2>2. w.candidate = None /\ Conclude(p, w)
      BY <1>2, <1>6, <2>1 DEF IsState, Unchanged
    <2> QED
      BY <1>1, <1>2, <1>3, <2>2, ConcludeStep DEF Whole, WholeIn
  <1>7. CASE Proceed(p, [Called(p) EXCEPT !.repair = f])
    <2>1. PICK w : w = [Called(p) EXCEPT !.repair = f]
      OBVIOUS
    <2>2. /\ w.candidate = mem[p].candidate /\ w.status = mem[p].status /\ w.commits = mem[p].commits
          /\ w.review = mem[p].review /\ w.repair = f /\ Proceed(p, w)
      BY <1>2, <1>7, <2>1 DEF IsState, Unchanged
    <2>3. /\ mem'[p] = w /\ At(p)' = "next" /\ proc'[p].before = proc[p].before
          /\ proc'[p].todo = Tail(proc[p].todo)
      BY <1>2, <2>2, ProceedTo
    <2>4. Ordered(proc[p].kind, proc[p].todo) /\ Role(p) \notin Ends /\ Head(proc[p].todo) = Role(p)
      BY <1>1, <1>2 DEF WorkInv, Role, Ends
    <2>5. Role(p)' # "REPAIR"
      BY <2>3, <2>4, OrderedTail DEF Role
    <2>6. f <= proc[p].before.content
      <3>1. /\ proc[p].before.content \in Nat /\ proc[p].before.committed \in Nat
            /\ proc[p].before.committed <= proc[p].before.content
        BY <1>4, SnapshotType DEF SawCovered
      <3> QED
        BY <3>1
    <2>7. RepairKnown(p)'
      <3>1. mem[p].review.content = proc[p].before.content /\ mem[p].review.outcome # "PASS"
        BY <1>1, <1>4 DEF RepairKnown
      <3> QED
        BY <2>2, <2>3, <2>5, <2>6, <3>1 DEF RepairKnown
    <2>8. Based(p)'
      <3>1. CASE job.type = "MULTI_SUBTASK"
        <4>1. CommitsNext(Tail(proc[p].todo), 1)
          BY <1>1, <2>4, <3>1, OrderedTail DEF Implementers
        <4>2. SawCovered(p)'
          BY <1>4, <2>2, <2>3, SawCoveredStays
        <4> QED
          BY <2>3, <4>1, <4>2 DEF Based
      <3>2. CASE job.type # "MULTI_SUBTASK"
        BY <1>1, <1>4, <2>2, <2>3, <3>2, HeadCovered DEF Watched, Implementers
      <3> QED
        BY <3>1, <3>2
    <2> QED
      BY <1>1, <1>2, <2>2, <2>4, <2>7, <2>8, ProceedStep
  <1> QED
    BY <1>5, <1>6, <1>7

LEMMA DeltaCand ==
  ASSUME JobInv, CandidateInv, NEW p \in Processes, CommitIds \subseteq CommitIds',
         UseDelta(p)
  PROVE  CandidateInv'
  <1>1. /\ At(p) = "result" /\ Role(p) = "DELTA_REVIEW" /\ UNCHANGED <<job, tree, disk>>
    BY DEF UseDelta, Finished, At, jobRest
  <1>2. /\ Working(p) /\ JobTypes /\ IsState(Called(p)) /\ KindInv(p)
        /\ Unchanged(mem[p], Called(p)) /\ WorkInv(p) /\ mem[p].candidate = None
        /\ Role(p) \in RolesOf(proc[p].kind)
    BY <1>1, AtWork DEF Flying
  <1>3. SavesPlain(p) /\ Repairs(p) /\ p # Runner
    BY <1>1, <1>2 DEF SavesPlain, RolesOf, Owns, KindInv, Repairs, Working
  <1>4. Watched(p) /\ RepairKnown(p) /\ Role(p) \in Reviewers
    BY <1>1, <1>2, <1>3 DEF WorkInv, Flying, Reviewers
  <1>5. PICK d : d = [outcome |-> proc[p].then, from |-> mem[p].repair, to |-> proc[p].before.content]
    OBVIOUS
  <1>6. PICK s : s = [Called(p) EXCEPT !.delta = d]
    OBVIOUS
  <1>7. /\ IsState(s) /\ s.candidate = None /\ s.review = mem[p].review /\ s.commits = mem[p].commits
        /\ s.delta = d
        /\ d.outcome = proc[p].then /\ d.from = mem[p].repair /\ d.to = proc[p].before.content
    BY <1>2, <1>5, <1>6 DEF IsState, Unchanged
  <1>8. \/ \E v : Conclude(p, [s EXCEPT !.status = v])
        \/ Stop(p, "BLOCKED", s)
        \/ /\ ~Mutated(p) /\ proc[p].then = "PASS"
           /\ Conclude(p, [s EXCEPT !.candidate = Candidate, !.status = "WAITING_FOR_HUMAN"])
    BY <1>5, <1>6 DEF UseDelta
  <1>9. CASE Stop(p, "BLOCKED", s)
    BY <1>1, <1>2, <1>3, <1>7, <1>9, StopStep DEF Selecting
  <1>10. ASSUME NEW v, Conclude(p, [s EXCEPT !.status = v]) PROVE CandidateInv'
    <2>1. PICK w : w = [s EXCEPT !.status = v]
      OBVIOUS
    <2>2. w.candidate = None /\ Conclude(p, w)
      BY <1>7, <1>10, <2>1 DEF IsState
    <2> QED
      BY <1>1, <1>2, <1>3, <2>2, ConcludeStep DEF Whole, WholeIn
  <1>11. CASE /\ ~Mutated(p) /\ proc[p].then = "PASS"
              /\ Conclude(p, [s EXCEPT !.candidate = Candidate, !.status = "WAITING_FOR_HUMAN"])
    <2>1. PICK w : w = [s EXCEPT !.candidate = Candidate, !.status = "WAITING_FOR_HUMAN"]
      OBVIOUS
    <2>2. /\ w.candidate = Candidate /\ w.review = mem[p].review /\ w.delta = d
          /\ w.commits = mem[p].commits
      BY <1>7, <2>1 DEF IsState
    <2>3. Candidate.head = tree.head /\ Candidate.content = tree.content
      BY DEF Candidate
    <2>4. proc[p].before.content = tree.content /\ Covers(mem[p], tree.head, CommitIds)
      BY <1>4, <1>11, NotMutated
    <2>5. Covers(w, tree.head, CommitIds)
      BY <2>2, <2>4 DEF Covers
    <2>6. mem[p].review.outcome # "PASS" /\ mem[p].repair <= mem[p].review.content
      BY <1>1, <1>4 DEF RepairKnown
    <2>7. Whole(w)
      BY <1>7, <1>11, <2>2, <2>3, <2>4, <2>5, <2>6 DEF Whole, WholeIn
    <2>8. Conclude(p, w)
      BY <1>11, <2>1
    <2> QED
      BY <1>1, <1>2, <1>3, <2>7, <2>8, ConcludeStep
  <1> QED
    BY <1>8, <1>9, <1>10, <1>11

LEMMA FinishCand ==
  ASSUME JobInv, CandidateInv, NEW p \in Processes, CommitIds \subseteq CommitIds',
         Finish(p)
  PROVE  CandidateInv'
  <1>1. At(p) = "stopping" /\ UNCHANGED <<job, tree, mem>> /\ disk' \in {disk, mem[p]}
    BY DEF Finish, At, jobRest
  <1>2. /\ KindInv(p) /\ CopyInv(p) /\ JobTypes
        /\ FilesInv
    BY DEF CandidateInv, JobInv
  <1>3. Owns(p) /\ Busy(p)
    BY <1>1, <1>2 DEF KindInv, Owns, Busy, At
  <1>4. Steady(p) /\ proc'[p].kind = proc[p].kind /\ At(p)' = "over"
    BY <1>2 DEF Finish, Set, JobTypes, IsProc, Steady, At
  <1>5. ~Working(p)' /\ ~Busy(p)'
    BY <1>4 DEF Working, Busy, At
  <1>6. CopyInv(p)' /\ WorkInv(p)'
    BY <1>4, <1>5 DEF CopyInv, WorkInv
  <1>7. Whole(disk)'
    <2>1. WholeIn(disk, CommitIds) /\ WholeIn(mem[p], CommitIds)
      BY <1>2, <1>3 DEF FilesInv, CopyInv, Whole
    <2> QED
      BY <1>1, <2>1, WholeGrows DEF Whole
  <1>8. p = Runner /\ disk'.status = Selecting => Selectable(disk)'
    <2> SUFFICES ASSUME p = Runner, disk'.status = Selecting PROVE Selectable(disk)'
      OBVIOUS
    <2>1. disk.status # Selecting
      BY <1>3, OthersRest
    <2>2. disk' = mem[p] /\ Selectable(mem[p])
      BY <1>1, <1>2, <2>1 DEF FilesInv
    <2> QED
      BY <1>1, <2>2, CoversGrows DEF Selectable
  <1>9. tree' \in Snapshots
    BY <1>1, <1>2 DEF FilesInv
  <1> QED
    BY <1>3, <1>4, <1>5, <1>6, <1>7, <1>8, <1>9, OwnStep

\* A verdict is given when nobody works on the job.
LEMMA VerdictTurn ==
  ASSUME CandidateInv, NEW p \in Processes, p # Runner, ~Repairs(p), Steady(p),
         \A q \in Processes : ~(Owns(q) /\ Busy(q)),
         proc'[p].kind = "verdict", At(p)' \in {"deciding", "over"},
         \A q \in Processes : q # p => mem'[q] = mem[q],
         At(p)' = "deciding" => Whole(mem[p])' /\ mem'[p].status # Selecting,
         tree' = tree, CommitIds \subseteq CommitIds', Whole(disk)', disk'.status # Selecting
  PROVE  CandidateInv'
  <1>1. /\ Turns /\ FilesInv /\ Runner \in Processes
        /\ \A q \in Processes : KindInv(q) /\ CopyInv(q)
    BY DEF CandidateInv, Processes
  <1>2. \A q \in Processes : q # p => /\ proc'[q] = proc[q] /\ At(q)' = At(q)
                                      /\ Busy(q)' = Busy(q) /\ Repairs(q)' = Repairs(q)
                                      /\ Owns(q)' = Owns(q)
    BY DEF Steady, At, Busy, Repairs, Owns
  <1>3. \A q \in Processes : KindInv(q)'
    <2>1. KindInv(p)'
      BY DEF KindInv, At
    <2> QED
      BY <1>1, <1>2, <2>1 DEF KindInv
  <1>4. ~Repairs(p)' /\ ~Owns(p)' /\ \A q \in Processes : ~(Owns(q)' /\ Busy(q)')
    BY <1>2 DEF Repairs, Owns
  <1>5. \A q \in Processes : ~Working(q)' /\ ~(Repairs(q)' /\ Busy(q)')
    BY <1>4 DEF Working, Repairs, Owns
  <1>6. ~Busy(Runner)' /\ At(Runner)' # "stopping"
    <2>1. Owns(Runner)
      BY <1>1 DEF KindInv, Owns
    <2>2. ~Busy(Runner)'
      BY <1>1, <1>2, <2>1
    <2> QED
      BY <2>2 DEF Busy, At
  <1>7. Turns'
    <2>1. \A q, r \in Processes : Repairs(q)' /\ Repairs(r)' => q = r
      BY <1>1, <1>2, <1>4 DEF Turns
    <2> QED
      BY <1>5, <1>6, <2>1 DEF Turns
  <1>8. FilesInv'
    BY <1>1, <1>6 DEF FilesInv
  <1>9. ASSUME NEW q \in Processes PROVE CopyInv(q)' /\ WorkInv(q)'
    <2>1. At(q)' \notin {"closing", "result"}
      <3>1. At(q)' \in {"closing", "result"} => Owns(q)' /\ Busy(q)'
        BY <1>3 DEF KindInv, Owns, Busy, At
      <3> QED
        BY <1>4, <3>1
    <2>2. Busy(q)' => Whole(mem[q])'
      <3>1. CASE q = p
        BY <3>1 DEF Busy, At
      <3>2. CASE q # p
        BY <1>1, <1>2, <3>2, WholeGrows DEF CopyInv, Whole
      <3> QED
        BY <3>1, <3>2
    <2>3. At(q)' = "deciding" => mem'[q].status # Selecting
      BY <1>1, <1>2 DEF CopyInv
    <2> QED
      BY <1>5, <2>1, <2>2, <2>3 DEF CopyInv, WorkInv
  <1> QED
    BY <1>3, <1>7, <1>8, <1>9 DEF CandidateInv

LEMMA DecideCand ==
  ASSUME JobInv, CandidateInv, NEW p \in Processes, CommitIds \subseteq CommitIds',
         Decide(p)
  PROVE  CandidateInv'
  <1>1. /\ p # Runner /\ At(p) = "idle" /\ disk.status = "WAITING_FOR_HUMAN"
        /\ UNCHANGED <<tree, disk>>
    BY WriterAssumption DEF Decide, At
  <1>2. /\ Turns /\ FilesInv /\ KindInv(p) /\ JobTypes /\ Runner \in Processes
        /\ \A q \in Processes : KindInv(q)
    BY DEF CandidateInv, JobInv, Processes
  <1>3. ~Repairs(p)
    BY <1>1, <1>2 DEF KindInv, Repairs
  <1>4. \A q \in Processes : ~(Owns(q) /\ Busy(q))
    <2>1. \A q \in Processes : Owns(q) => q = Runner \/ Repairs(q)
      BY <1>2 DEF Owns, KindInv, Repairs
    <2>2. ~Busy(Runner) /\ \A q \in Processes : ~(Repairs(q) /\ Busy(q))
      BY <1>1, <1>2 DEF Turns, Selecting
    <2> QED
      BY <2>1, <2>2
  <1>5. /\ Steady(p) /\ proc'[p].kind = "verdict" /\ At(p)' = "deciding"
    BY <1>2 DEF Decide, JobTypes, IsProc, Steady, At
  <1>6. PICK v \in Verdicts : mem' = [mem EXCEPT ![p] = [disk EXCEPT !.verdict = v, !.status = StatusAfter(v)]]
    BY DEF Decide
  <1>7. PICK m : m = [disk EXCEPT !.verdict = v, !.status = StatusAfter(v)]
    OBVIOUS
  <1>8. /\ m.candidate = disk.candidate /\ m.review = disk.review /\ m.delta = disk.delta
        /\ m.commits = disk.commits /\ m.status # Selecting
    BY <1>2, <1>6, <1>7 DEF JobTypes, IsState, Verdicts, StatusAfter, Selecting
  <1>9. Whole(m) /\ Whole(disk)
    BY <1>2, <1>8 DEF FilesInv, Whole, WholeIn, Covers
  <1>10. mem'[p] = m /\ \A q \in Processes : q # p => mem'[q] = mem[q]
    BY <1>2, <1>6, <1>7 DEF JobTypes
  <1>11. Whole(mem[p])' /\ Whole(disk)'
    BY <1>1, <1>9, <1>10, WholeGrows DEF Whole
  <1>12. disk'.status # Selecting
    BY <1>1 DEF Selecting
  <1> QED
    BY <1>1, <1>3, <1>4, <1>5, <1>8, <1>10, <1>11, <1>12, VerdictTurn

\* While a verdict is given nobody works on the job.
LEMMA VerdictAlone ==
  ASSUME CandidateInv, NEW p \in Processes, At(p) # "idle", proc[p].kind = "verdict"
  PROVE  /\ p # Runner /\ ~Repairs(p) /\ disk.status # Selecting
         /\ \A q \in Processes : ~(Owns(q) /\ Busy(q))
  <1>1. /\ Turns /\ Runner \in Processes /\ \A q \in Processes : KindInv(q)
    BY DEF CandidateInv, Processes
  <1>2. p # Runner /\ ~Repairs(p) /\ disk.status # Selecting
    BY <1>1 DEF KindInv, Repairs, Turns
  <1>3. ~Busy(Runner) /\ \A q \in Processes : ~(Repairs(q) /\ Busy(q))
    BY <1>1, <1>2 DEF Turns
  <1>4. \A q \in Processes : Owns(q) => q = Runner \/ Repairs(q)
    BY <1>1 DEF Owns, KindInv, Repairs
  <1> QED
    BY <1>2, <1>3, <1>4

LEMMA DecisionCand ==
  ASSUME JobInv, CandidateInv, NEW p \in Processes, CommitIds \subseteq CommitIds',
         DecisionAnswered(p) \/ ProcessDies(p)
  PROVE  CandidateInv'
  <1>1. /\ Busy(p) /\ UNCHANGED <<job, tree, mem>> /\ disk' \in {disk, mem[p]}
        /\ ProcessDies(p) => disk' = disk
        /\ DecisionAnswered(p) => At(p) = "deciding"
        /\ proc' = Set(p, "at", "over")
    BY DEF DecisionAnswered, ProcessDies, Busy, At, jobRest
  <1>2. /\ KindInv(p) /\ CopyInv(p) /\ JobTypes /\ FilesInv
    BY DEF CandidateInv, JobInv
  <1>3. Steady(p) /\ proc'[p].kind = proc[p].kind /\ At(p)' = "over"
    BY <1>1, <1>2 DEF Set, JobTypes, IsProc, Steady, At
  <1>4. CASE Owns(p)
    <2>1. disk' = disk
      BY <1>1, <1>2, <1>4 DEF KindInv, Owns
    <2> QED
      BY <1>1, <1>3, <1>4, <2>1, EndStep DEF SavesPlain
  <1>5. CASE ~Owns(p)
    <2>1. proc[p].kind = "verdict" /\ At(p) # "idle" /\ At(p) = "deciding"
      BY <1>1, <1>2, <1>5 DEF KindInv, Owns, Busy, At
    <2>2. Whole(disk)'
      <3>1. WholeIn(disk, CommitIds) /\ WholeIn(mem[p], CommitIds)
        BY <1>1, <1>2 DEF FilesInv, CopyInv, Whole
      <3> QED
        BY <1>1, <3>1, WholeGrows DEF Whole
    <2>3. /\ p # Runner /\ ~Repairs(p) /\ disk.status # Selecting
          /\ \A q \in Processes : ~(Owns(q) /\ Busy(q))
      BY <2>1, VerdictAlone
    <2>4. disk'.status # Selecting
      BY <1>1, <1>2, <2>1, <2>3 DEF CopyInv
    <2> QED
      BY <1>1, <1>3, <2>1, <2>2, <2>3, <2>4, VerdictTurn
  <1> QED
    BY <1>4, <1>5

LEMMA RepairOrdered == Ordered("repair", RepairProgram)
  <1>1. CASE job.type = "MULTI_SUBTASK"
    <2>1. PICK t : t = <<"REPAIR", "COMMIT", "DELTA_REVIEW">>
      OBVIOUS
    <2>2. /\ DOMAIN t = 1..3 /\ Len(t) = 3 /\ t \in Seq(RolesOf("repair"))
          /\ t[1] = "REPAIR" /\ t[2] = "COMMIT" /\ t[3] = "DELTA_REVIEW"
      BY <2>1 DEF RolesOf
    <2>3. CommitsNext(t, 2)
      BY <2>2 DEF CommitsNext
    <2>4. \A i \in DOMAIN t : i = 1 \/ i = 2 \/ i = 3
      BY <2>2
    <2>5. Ordered("repair", t)
      BY <2>2, <2>3, <2>4 DEF Ordered, Ends, Implementers
    <2> QED
      BY <1>1, <2>1, <2>5 DEF RepairProgram
  <1>2. CASE job.type # "MULTI_SUBTASK"
    <2>1. PICK t : t = <<"REPAIR", "DELTA_REVIEW">>
      OBVIOUS
    <2>2. /\ DOMAIN t = 1..2 /\ Len(t) = 2 /\ t \in Seq(RolesOf("repair"))
          /\ t[1] = "REPAIR" /\ t[2] = "DELTA_REVIEW"
      BY <2>1 DEF RolesOf
    <2>3. \A i \in DOMAIN t : i = 1 \/ i = 2
      BY <2>2
    <2>4. Ordered("repair", t)
      BY <1>2, <2>2, <2>3 DEF Ordered, Ends
    <2> QED
      BY <1>2, <2>1, <2>4 DEF RepairProgram
  <1> QED
    BY <1>1, <1>2

LEMMA StartCand ==
  ASSUME JobInv, CandidateInv, NEW p \in Processes, CommitIds \subseteq CommitIds',
         KeptTo, StartRepair(p)
  PROVE  CandidateInv'
  <1>1. /\ p # Runner /\ At(p) = "idle" /\ disk.status = Selecting
        /\ UNCHANGED <<job, tree, disk>> /\ mem' = [mem EXCEPT ![p] = disk]
    BY WriterAssumption DEF StartRepair, At, Selecting, jobRest
  <1>2. /\ Turns /\ FilesInv /\ JobTypes /\ Runner \in Processes
        /\ \A q \in Processes : KindInv(q)
    BY DEF CandidateInv, JobInv, Processes
  <1>3. \A q \in Processes : ~Repairs(q)
    <2>1. \A q \in Clis : proc[q].kind # "repair"
      BY DEF StartRepair, RepairAllowed, KeptTo
    <2> QED
      BY <1>2, <2>1 DEF Processes, Repairs, KindInv
  <1>4. Selectable(disk)
    BY <1>1, <1>2, <1>3 DEF FilesInv
  <1>5. PICK r : r = [Waiting EXCEPT !.at = "next", !.kind = "repair", !.todo = RepairProgram]
    OBVIOUS
  <1>6. r.at = "next" /\ r.kind = "repair" /\ r.todo = RepairProgram
    BY <1>5 DEF Waiting
  <1>7. proc' = [proc EXCEPT ![p] = r]
    BY <1>5 DEF StartRepair
  <1>8. /\ Steady(p) /\ proc'[p] = r /\ mem'[p] = disk
        /\ At(p)' = "next" /\ proc'[p].kind = "repair" /\ proc'[p].todo = RepairProgram
        /\ \A q \in Processes : q # p => mem'[q] = mem[q]
    BY <1>1, <1>2, <1>6, <1>7 DEF JobTypes, Steady, At
  <1>9. \A q \in Processes : q # p => /\ At(q)' = At(q) /\ proc'[q] = proc[q]
                                      /\ At(q) \in {"idle", "over"} /\ proc[q].kind \in {"none", "execute"}
    <2>1. \A q \in Processes : proc[q].kind # "verdict"
      BY <1>1, <1>2 DEF Turns
    <2>2. At(Runner) \in {"idle", "over"}
      BY <1>1, <1>2 DEF Turns, Busy, At
    <2>3. \A q \in Processes : proc[q].kind \in {"none", "execute"}
      BY <1>2, <1>3, <2>1 DEF KindInv, Repairs
    <2>4. \A q \in Processes : At(q) \in {"idle", "over"}
      BY <1>2, <2>2, <2>3 DEF KindInv
    <2> QED
      BY <1>8, <2>3, <2>4 DEF Steady, At
  <1>10. \A q \in Processes : KindInv(q)'
    <2>1. KindInv(p)'
      BY <1>1, <1>8 DEF KindInv
    <2> QED
      BY <1>2, <1>9, <2>1 DEF KindInv
  <1>11. Turns'
    <2>1. ~Busy(Runner)'
      BY <1>1, <1>2, <1>9 DEF Busy, At
    <2>2. \A q \in Processes : Repairs(q)' => q = p
      BY <1>9 DEF Repairs
    <2>3. \A q \in Processes : proc'[q].kind # "verdict"
      BY <1>8, <1>9
    <2>4. disk'.status = Selecting
      BY <1>1
    <2> QED
      BY <2>1, <2>2, <2>3, <2>4 DEF Turns
  <1>12. FilesInv'
    <2>1. At(Runner)' # "stopping" /\ Repairs(p)'
      BY <1>1, <1>2, <1>8, <1>9 DEF Repairs
    <2>2. Whole(disk)'
      BY <1>1, <1>2, WholeGrows DEF FilesInv, Whole
    <2> QED
      BY <1>1, <1>2, <2>1, <2>2 DEF FilesInv
  <1>13. CopyInv(p)' /\ WorkInv(p)'
    <2>1. mem'[p].candidate = None /\ mem'[p].status = Selecting
      BY <1>1, <1>4, <1>8 DEF Selectable
    <2>2. CopyInv(p)'
      BY <1>1, <1>8, <2>1 DEF CopyInv, Whole, WholeIn
    <2>3. Ordered(proc[p].kind, proc[p].todo)'
      <3>1. Ordered("repair", RepairProgram)'
        BY <1>1, RepairOrdered, OrderedStays DEF RepairProgram
      <3> QED
        BY <1>1, <1>8, <3>1 DEF Ordered, RepairProgram
    <2>4. Based(p)'
      BY <1>1, <1>4, <1>8, CoversGrows DEF Selectable, Based
    <2>5. RepairKnown(p)'
      <3>1. Role(p)' = "REPAIR"
        BY <1>8 DEF Role, RepairProgram
      <3> QED
        BY <1>1, <1>4, <1>8, <3>1 DEF RepairKnown, Selectable
    <2> QED
      BY <1>8, <2>2, <2>3, <2>4, <2>5 DEF WorkInv, Flying, InFlight
  <1>14. ASSUME NEW q \in Processes, q # p PROVE CopyInv(q)' /\ WorkInv(q)'
    <2>1. At(q)' \in {"idle", "over"}
      BY <1>9, <1>14
    <2> QED
      BY <2>1 DEF CopyInv, WorkInv, Working, Busy, At
  <1> QED
    BY <1>10, <1>11, <1>12, <1>13, <1>14 DEF CandidateInv

(* A step of the ledger, or of the canonical checkout: only what a commit   *)
(* that is being recorded waits for can change.                             *)
LEMMA QuietStep ==
  ASSUME CandidateInv, UNCHANGED <<job, tree, disk, mem, proc>>, CommitIds \subseteq CommitIds',
         \A q \in Processes : Checkpointing(q) => Checkpointing(q)'
  PROVE  CandidateInv'
  <1>1. Turns /\ FilesInv /\ \A q \in Processes : KindInv(q) /\ CopyInv(q) /\ WorkInv(q)
    BY DEF CandidateInv
  <1>2. Turns' /\ \A q \in Processes : KindInv(q)'
    BY <1>1 DEF Turns, KindInv, Busy, Repairs, At
  <1>3. \A s : /\ Whole(s) => WholeIn(s, CommitIds')
               /\ Selectable(s) => /\ s.candidate = None
                                   /\ s.review.outcome # "PASS" /\ s.review.content = tree'.content
                                   /\ Covers(s, tree'.head, CommitIds')
    BY WholeGrows, CoversGrows DEF Whole, Selectable
  <1>4. FilesInv'
    <2>1. Whole(disk)'
      BY <1>1, <1>3 DEF FilesInv, Whole
    <2>2. (Selectable(disk) => Selectable(disk)') /\ (Selectable(mem[Runner]) => Selectable(mem[Runner])')
      BY <1>3 DEF Selectable
    <2> QED
      BY <1>1, <2>1, <2>2 DEF FilesInv, Repairs, At
  <1>5. ASSUME NEW q \in Processes PROVE CopyInv(q)'
    <2>1. Whole(mem[q]) => Whole(mem[q])'
      BY <1>3 DEF Whole
    <2> QED
      BY <1>1, <2>1 DEF CopyInv, Working, Owns, Busy, At
  <1>6. ASSUME NEW q \in Processes PROVE WorkInv(q)'
    <2>1. Working(q)' = Working(q) /\ At(q)' = At(q) /\ Role(q)' = Role(q) /\ Repairs(q)' = Repairs(q)
      BY DEF Working, Owns, Busy, At, Role, Repairs
    <2>2. Ordered(proc[q].kind, proc[q].todo) => Ordered(proc[q].kind, proc[q].todo)'
      BY OrderedStays
    <2>3. (Based(q) => Based(q)') /\ (Watched(q) => Watched(q)')
      BY <2>1, BasedStays, WatchedStays
    <2>4. RepairKnown(q) => RepairKnown(q)'
      BY <2>1 DEF RepairKnown
    <2> QED
      BY <1>1, <2>1, <2>2, <2>3, <2>4 DEF WorkInv
  <1> QED
    BY <1>2, <1>4, <1>5, <1>6 DEF CandidateInv

LEMMA RecordedCommit ==
  ASSUME LedgerInv, NEW p \in Processes, LedgerStep(p),
         UNCHANGED <<tree, mem, proc>>, CommitIds \subseteq CommitIds',
         NEW q \in Processes, Checkpointing(q)
  PROVE  Checkpointing(q)'
  <1>1. /\ p \in Writers /\ q \in Writers /\ DOMAIN call = Writers /\ DOMAIN answer = Writers
        /\ scanned[p] # 0 => call[p] # None
    BY WriterAssumption DEF LedgerInv, LedgerTypeOK
  <1>2. /\ call' = call \/ call' = [call EXCEPT ![p] = None]
        /\ answer' = answer \/ \E a \in {"RECORDED", "ERROR"} : answer' = [answer EXCEPT ![p] = a]
    BY DEF LedgerStep, LockAndScan, LockFails, WriteSucceeds, WriteFails, Unlock
  <1>3. call'[q] = call[q] \/ call'[q] = None
    BY <1>1, <1>2
  <1>4. answer'[q] = answer[q] \/ q = p
    BY <1>1, <1>2
  <1>5. ASSUME answer'[q] = "RECORDED", answer[q] # "RECORDED" PROVE tree.head \in CommitIds'
    <2>1. q = p /\ WriteSucceeds(p)
      BY <1>1, <1>4, <1>5
      DEF LedgerStep, LockAndScan, LockFails, WriteSucceeds, WriteFails, Unlock
    <2>2. Entered(p) /\ call[p] = CommitEvent(tree.head)
      BY <1>1, <2>1 DEF WriteSucceeds, Entered, Extended, Checkpointing
    <2>3. call[p].type = "COMMIT_RECORDED" /\ call[p].id = tree.head
      BY <2>2 DEF CommitEvent
    <2> QED
      BY <1>1, <2>2, <2>3, EventsEntered DEF CommitIds
  <1>6. Covers(mem[q], tree.head - 1, CommitIds')
    BY CoversGrows DEF Checkpointing
  <1> QED
    BY <1>3, <1>5, <1>6 DEF Checkpointing, Role

LEMMA QuietCand ==
  ASSUME LedgerInv, JobInv, CandidateInv, CommitIds \subseteq CommitIds',
         \/ MainMoves
         \/ UNCHANGED vars
         \/ \E p \in Processes : LedgerStep(p) /\ UNCHANGED jobVars
  PROVE  CandidateInv'
  <1>1. UNCHANGED <<job, tree, disk, mem, proc>>
    BY DEF MainMoves, vars, jobVars
  <1>2. CASE UNCHANGED <<call, answer>>
    <2>1. \A q \in Processes : Checkpointing(q) => Checkpointing(q)'
      BY <1>1, <1>2, CoversGrows DEF Checkpointing, Role
    <2> QED
      BY <1>1, <2>1, QuietStep
  <1>3. ASSUME NEW p \in Processes, LedgerStep(p) PROVE CandidateInv'
    <2>1. \A q \in Processes : Checkpointing(q) => Checkpointing(q)'
      BY <1>1, <1>3, RecordedCommit
    <2> QED
      BY <1>1, <2>1, QuietStep
  <1> QED
    BY <1>2, <1>3 DEF MainMoves, vars, ledgerVars

LEMMA CandidateInvInit == Init => CandidateInv
  <1> SUFFICES ASSUME Init PROVE CandidateInv
    OBVIOUS
  <1>1. /\ job \in Shapes /\ tree = [head |-> 0, committed |-> 0, content |-> 0, paths |-> 0]
        /\ disk = NewState /\ mem[Runner] = NewState /\ Runner \in Processes
        /\ NewState.candidate = None /\ NewState.status = "RUNNING"
    BY DEF Init, Processes, NewState
  <1>2. PICK r : r = [Waiting EXCEPT !.at = "next", !.kind = "execute", !.todo = job.program]
    OBVIOUS
  <1>3. /\ r.at = "next" /\ r.kind = "execute" /\ r.todo = job.program
        /\ Waiting.at = "idle" /\ Waiting.kind = "none"
    BY <1>2 DEF Waiting
  <1>4. /\ proc[Runner] = r /\ \A q \in Processes : q # Runner => proc[q] = Waiting
    BY <1>1, <1>2 DEF Init
  <1>5. \A q \in Processes : KindInv(q)
    BY <1>3, <1>4 DEF KindInv, At
  <1>6. Turns
    BY <1>1, <1>3, <1>4 DEF Turns, Busy, Repairs, At, Selecting
  <1>7. FilesInv
    <2>1. tree \in Snapshots
      BY <1>1, BoundAssumption DEF Snapshots, Trees
    <2> QED
      BY <1>1, <1>3, <1>4, <2>1 DEF FilesInv, Whole, WholeIn, Selecting, At
  <1>8. Ordered("execute", job.program)
    <2>1. /\ job.program \in Seq(RolesOf("execute")) /\ Len(job.program) > 0
      BY <1>1, ProgramAssumption DEF RolesOf
    <2>2. \A i \in DOMAIN job.program :
            /\ job.program[i] \in RolesOf("execute")
            /\ job.program[i] \in {"REVIEW", "STAGES"} <=> i = Len(job.program)
            /\ job.type = "MULTI_SUBTASK" /\ job.program[i] \in {"SUBTASK", "IMPLEMENT"}
                 => CommitsNext(job.program, i + 1)
      BY <1>1, <2>1, ProgramAssumption
    <2> QED
      BY <2>1, <2>2 DEF Ordered, Ends, RolesOf, Implementers
  <1>9. CopyInv(Runner) /\ WorkInv(Runner)
    <2>1. Covers(mem[Runner], tree.head, CommitIds)
      BY <1>1 DEF Covers
    <2> QED
      BY <1>1, <1>3, <1>4, <1>8, <2>1
      DEF CopyInv, WorkInv, At, Whole, WholeIn, Based, Repairs, Flying, InFlight
  <1>10. ASSUME NEW q \in Processes, q # Runner PROVE CopyInv(q) /\ WorkInv(q)
    BY <1>3, <1>4, <1>10 DEF CopyInv, WorkInv, Working, Busy, At
  <1> QED
    BY <1>5, <1>6, <1>7, <1>9, <1>10 DEF CandidateInv

LEMMA CandidateInvNext ==
  ASSUME KeptTo, LedgerInv, JobInv, CandidateInv, [Next]_vars
  PROVE  CandidateInv'
  <1>1. CommitIds \subseteq CommitIds'
    BY CommitsGrow
  <1>2. ASSUME NEW p \in Processes, Invoke(p) PROVE CandidateInv'
    BY <1>1, <1>2, RefuseCand, AllocateCand, IntentCand, PlaceCand, RowCand, WorkCand DEF Invoke
  <1>3. ASSUME NEW p \in Processes, Advance(p) PROVE CandidateInv'
    BY <1>1, <1>3, PlanCand, TaskCand, RefuseCand, CommitTaskCand, CommitAnsweredCand, ReviewCand,
       RepairCand, DeltaCand, FinishCand, StartCand, DecideCand, DecisionCand
    DEF Advance
  <1>4. CASE \/ MainMoves \/ UNCHANGED vars
             \/ \E p \in Processes : LedgerStep(p) /\ UNCHANGED jobVars
    BY <1>1, <1>4, QuietCand
  <1> QED
    BY <1>2, <1>3, <1>4 DEF Next

\* What is offered to the human was seen by a review, every commit of it is a
\* recorded checkpoint (CandidateWhole): for every job shape execute builds, and
\* whatever adapters raise, as long as the three rules the code leaves to its
\* surroundings are kept to (no read-only node rewrites a file that is changed
\* already, no commit in a job without checkpoints, one repair cycle).
THEOREM CandidateWholeHolds ==
  ASSUME Unchecked \subseteq {"stray error"}
  PROVE  Spec => []CandidateWhole
  <1>1. KeptTo
    BY DEF KeptTo
  <1>2. Init => CandidateInv
    BY CandidateInvInit
  <1>3. LedgerInv /\ JobInv /\ CandidateInv /\ [Next]_vars => CandidateInv'
    BY <1>1, CandidateInvNext
  <1>4. CandidateInv => CandidateWhole
    BY DEF CandidateInv, FilesInv, Whole, WholeIn, Covers, CandidateWhole, CommitIds
  <1> QED
    BY <1>2, <1>3, <1>4, InvariantHolds, PTL DEF Spec

=============================================================================
