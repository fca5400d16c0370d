--------------------------- MODULE PromotionGate ----------------------------
(***************************************************************************)
(* What the Human Gate promises, whatever the autonomous work before it    *)
(* was: a run offers one candidate, a human decides about that candidate   *)
(* ("human approves the exact candidate_id", AAW_AUTONOMOUS_ITERATIONS     *)
(* V0.2, section 9), and an integration starts only where the approved     *)
(* content is found.  It takes what the worktree holds, so the content is  *)
(* promised only while nobody changes it between the check and its use.    *)
(***************************************************************************)
EXTENDS Naturals, Sequences

CONSTANTS NoTree

VARIABLES tree,       \* the content of the worktree, as a version number
          offered,    \* the content offered to the human, or NoTree
          verdict,    \* open, APPROVED, REJECTED or PROMOTED
          promotion,  \* none, found (the approved content) or moved (since then)
          integrated  \* what was integrated, in order

vars == <<tree, offered, verdict, promotion, integrated>>

Init == /\ tree = 0 /\ offered = NoTree /\ verdict = "open"
        /\ promotion = "none" /\ integrated = <<>>

\* Executors, their orphans and people change the worktree at any time.
Change == /\ tree' > tree
          /\ promotion' = IF promotion = "none" THEN "none" ELSE "moved"
          /\ UNCHANGED <<offered, verdict, integrated>>

Offer == /\ offered = NoTree
         /\ verdict = "open"
         /\ offered' = tree
         /\ UNCHANGED <<tree, verdict, promotion, integrated>>

Approve == /\ offered # NoTree
           /\ verdict = "open"
           /\ verdict' = "APPROVED"
           /\ UNCHANGED <<tree, offered, promotion, integrated>>

\* A run may be rejected before it offers anything.
Reject == /\ verdict = "open"
          /\ verdict' = "REJECTED"
          /\ UNCHANGED <<tree, offered, promotion, integrated>>

\* The approved content is found in the worktree.
Check == /\ verdict = "APPROVED"
         /\ promotion = "none"
         /\ tree = offered
         /\ promotion' = "found"
         /\ UNCHANGED <<tree, offered, verdict, integrated>>

\* Integration may be started again, after another check, as long as its
\* outcome is not recorded.
Integrate == /\ verdict = "APPROVED"
             /\ promotion # "none"
             /\ promotion = "found" => tree = offered
             /\ promotion' = "none"
             /\ integrated' = Append(integrated, tree)
             /\ verdict' \in {"APPROVED", "PROMOTED"}
             /\ UNCHANGED <<tree, offered>>

\* A check is not used.
Lapse == /\ promotion # "none"
         /\ promotion' = "none"
         /\ UNCHANGED <<tree, offered, verdict, integrated>>

\* Promotion without an integrating promoter only records the candidate.
Record == /\ verdict = "APPROVED"
          /\ promotion = "none"
          /\ verdict' = "PROMOTED"
          /\ UNCHANGED <<tree, offered, promotion, integrated>>

Next == Change \/ Offer \/ Approve \/ Reject \/ Check \/ Integrate \/ Lapse \/ Record

Spec == Init /\ [][Next]_vars
=============================================================================
