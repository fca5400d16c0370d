--------------------------- MODULE ExecutionLedger ---------------------------
(* The append-only event file of a run (execution_ledger.py): a per-run lock, *)
(* a scan for the next sequence, one write that may fail or be cut anywhere,  *)
(* and the newline that seals a damaged tail.  Whoever appends asks with Ask  *)
(* and goes on when it has its answer.                                        *)
EXTENDS Naturals, Sequences, SequencesExt

CONSTANTS
    Writers,    \* processes that append to this run's ledger
    Events,     \* what they append: [type, id, source]
    None,
    MaxFaults   \* writes that fail and processes that die

ASSUME NoEvent == None \notin Events
ASSUME FaultAssumption == MaxFaults \in Nat

VARIABLES
    lines,       \* the file: each line an event with its sequence, or Torn
    terminated,  \* whether the last line has its newline
    call,        \* the event each writer is appending, or None
    scanned,     \* the sequence a writer found under the lock, or 0
    answer,      \* what append told each writer: NONE, RECORDED or ERROR
    faults

ledgerVars == <<lines, terminated, call, scanned, answer, faults>>

Torn == [event |-> None, sequence |-> 0]
Lines == [event : Events, sequence : Nat] \cup {Torn}

LedgerInit ==
    /\ lines = << >>
    /\ terminated = TRUE
    /\ call = [w \in Writers |-> None]
    /\ scanned = [w \in Writers |-> 0]
    /\ answer = [w \in Writers |-> "NONE"]
    /\ faults = 0

\* _scan, line by line: a damaged line is kept and never interpreted.
parsed[i \in 0..Len(lines)] ==
    IF i = 0 THEN << >>
    ELSE IF lines[i] = Torn THEN parsed[i - 1] ELSE Append(parsed[i - 1], lines[i])

\* What readers see.
Readable == parsed[Len(lines)]

LastSequence ==
    LET sequences == {l.sequence : l \in Range(lines) \ {Torn}}
    IN  IF sequences = {} THEN 0 ELSE Max(sequences)

\* Part of the caller's step: it hands over an event and waits.
Ask(w, event) ==
    /\ call' = [call EXCEPT ![w] = event]
    /\ answer' = [answer EXCEPT ![w] = "NONE"]
    /\ UNCHANGED <<lines, terminated, scanned, faults>>

\* Part of the caller's step: it has read the answer.
Hear(w) ==
    /\ answer' = [answer EXCEPT ![w] = "NONE"]
    /\ UNCHANGED <<lines, terminated, call, scanned, faults>>

Locked == \E w \in Writers : scanned[w] # 0

\* The file lock, then the scan that allocates the sequence.
LockAndScan(w) ==
    /\ call[w] # None
    /\ scanned[w] = 0
    /\ ~Locked
    /\ scanned' = [scanned EXCEPT ![w] = LastSequence + 1]
    /\ UNCHANGED <<lines, terminated, call, answer, faults>>

LockFails(w) ==
    /\ call[w] # None
    /\ scanned[w] = 0
    /\ faults < MaxFaults
    /\ faults' = faults + 1
    /\ call' = [call EXCEPT ![w] = None]
    /\ answer' = [answer EXCEPT ![w] = "ERROR"]
    /\ UNCHANGED <<lines, terminated, scanned>>

ExtendedUnsealed(line) ==
    IF terminated THEN Append(lines, line) ELSE [lines EXCEPT ![Len(lines)] = Torn]

\* The file once `line` is written after what is there; an unterminated tail is
\* sealed by the newline the write starts with.
Extended(line) == Append(lines, line)

\* What os.write can leave: nothing, the sealing newline alone, a part of the
\* line, all of it but its newline, or all of it.
Written(w, line) ==
    \/ UNCHANGED <<lines, terminated>>
    \/ lines' = lines /\ terminated' = TRUE
    \/ lines' = Extended(Torn) /\ terminated' = FALSE
    \/ lines' = Extended(line) /\ terminated' \in BOOLEAN

Line(w) == [event |-> call[w], sequence |-> scanned[w]]

Unlock(w) ==
    /\ scanned' = [scanned EXCEPT ![w] = 0]
    /\ call' = [call EXCEPT ![w] = None]

WriteSucceeds(w) ==
    /\ scanned[w] # 0
    /\ lines' = Extended(Line(w))
    /\ terminated' = TRUE
    /\ Unlock(w)
    /\ answer' = [answer EXCEPT ![w] = "RECORDED"]
    /\ UNCHANGED faults

\* A short write, or an error of write, fsync or close.
WriteFails(w) ==
    /\ scanned[w] # 0
    /\ faults < MaxFaults
    /\ faults' = faults + 1
    /\ Written(w, Line(w))
    /\ Unlock(w)
    /\ answer' = [answer EXCEPT ![w] = "ERROR"]

\* Part of the death of a process: its lock goes, its write may be cut.
WriterDies(w) ==
    /\ faults < MaxFaults
    /\ faults' = faults + 1
    /\ IF scanned[w] = 0 THEN UNCHANGED <<lines, terminated>> ELSE Written(w, Line(w))
    /\ Unlock(w)
    /\ answer' = [answer EXCEPT ![w] = "NONE"]

LedgerStep(w) == LockAndScan(w) \/ LockFails(w) \/ WriteSucceeds(w) \/ WriteFails(w)

-----------------------------------------------------------------------------
(* Properties.                                                              *)

\* Every ledger variable has its type, and one writer at most is past the scan.
LedgerTypeOK ==
    /\ Range(lines) \subseteq Lines
    /\ terminated \in BOOLEAN
    /\ call \in [Writers -> Events \cup {None}]
    /\ scanned \in [Writers -> Nat]
    /\ \A w \in Writers : scanned[w] # 0 => call[w] # None
    /\ answer \in [Writers -> {"NONE", "RECORDED", "ERROR"}]
    /\ faults \in 0..MaxFaults

\* The ledger implements the abstract event log: whatever is torn, sealed,
\* refused or interrupted, readers see a log that only grows, numbered without
\* gaps, and RECORDED is never said of an event that is not in it.
Log == INSTANCE EventLog WITH log <- Readable
ImplementsLog == Log!Spec
=============================================================================
