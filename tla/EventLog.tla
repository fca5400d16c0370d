------------------------------ MODULE EventLog ------------------------------
(* What execution_ledger.py promises: a log that only grows, numbered from   *)
(* one without gaps, in which a request is written at most once.  An answer  *)
(* RECORDED means the event is in the log; an error says nothing, and a      *)
(* writer that dies gets no answer.                                          *)
EXTENDS Naturals, Sequences

CONSTANTS Writers, Events, None

VARIABLES
    log,     \* the events readers see, each with its sequence
    call,    \* the event each writer has asked to append, or None
    answer   \* what each writer was told last: NONE, RECORDED or ERROR

vars == <<log, call, answer>>

Init ==
    /\ log = << >>
    /\ call = [w \in Writers |-> None]
    /\ answer = [w \in Writers |-> "NONE"]

Ask(w) ==
    /\ call[w] = None
    /\ \E e \in Events : call' = [call EXCEPT ![w] = e]
    /\ answer' = [answer EXCEPT ![w] = "NONE"]
    /\ UNCHANGED log

Record(w) ==
    /\ call[w] # None
    /\ log' = Append(log, [event |-> call[w], sequence |-> Len(log) + 1])
    /\ call' = [call EXCEPT ![w] = None]
    /\ \E a \in {"NONE", "RECORDED", "ERROR"} : answer' = [answer EXCEPT ![w] = a]

Fail(w) ==
    /\ call[w] # None
    /\ call' = [call EXCEPT ![w] = None]
    /\ \E a \in {"NONE", "ERROR"} : answer' = [answer EXCEPT ![w] = a]
    /\ UNCHANGED log

Forget(w) ==
    /\ answer[w] # "NONE"
    /\ answer' = [answer EXCEPT ![w] = "NONE"]
    /\ UNCHANGED <<log, call>>

Next == \E w \in Writers : Ask(w) \/ Record(w) \/ Fail(w) \/ Forget(w)

Spec == Init /\ [][Next]_vars
=============================================================================
