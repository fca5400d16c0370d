------------------------------ MODULE RepairRun ------------------------------
(***************************************************************************)
(* autonomy_controller.py: one iteration from EXECUTE to its acceptance or *)
(* to the Human Gate, seen from the calls it makes.  The policy            *)
(* (autonomy_policy.py) prefers a profile for each call, the router ranks  *)
(* who may serve it, failures put providers into cooldown and move the     *)
(* call on, and a finding that survives a repair climbs the ladder, with a *)
(* line in repair_escalation_ledger.jsonl before the state is saved.       *)
(*                                                                         *)
(* What a call leaves on disk is ExecutionProtocol's subject; here it is   *)
(* dispatched, fails or answers.  Planning, packets and the read-only      *)
(* self-verifier make no difference and are left out.                      *)
(***************************************************************************)
EXTENDS ModelRouter, RepairLadder

CONSTANTS
  PolicyProfiles, \* AUTONOMY_ROLES.json policy_profiles
  Unrunnable,    \* profiles whose preflight fails
  MaxFailovers,  \* routing.max_failovers
  RepairLimit,   \* autonomy_bounds.max_repair_attempts
  LightReview,   \* is the iteration accepted provisionally by its REVIEW?
  Plans,         \* what a plan and the mandate may ask: [complexity, override]
  Keys,          \* finding keys
  Findings,      \* the sets of keys a check or a review may report ...
  FirstFindings, \* ... and report first
  FailureClasses,
  Snapshots,     \* what providers may report: pool -> limits
  Pauses,        \* how much time may pass at once
  MaxRepairs,    \* after how many repairs nothing is found any more
  MaxTroubles    \* how often anything of this, a failure or a crash may happen

Slots == PolicyProfiles

ASSUME RunAssumption ==
  /\ Unrunnable \subseteq Profiles /\ MaxFailovers \in Nat
  /\ RepairLimit \in Nat \ {0} /\ LightReview \in BOOLEAN
  /\ IsFiniteSet(Keys) /\ Findings \subseteq (SUBSET Keys) \ {{}}
  /\ MaxRepairs \in Nat /\ MaxTroubles \in Nat
  /\ \A slot \in {"implementer_default", "implementer_harder", "implementer_strong",
                  "implementer_capability_escalation", "primary_reviewer", "repair_default",
                  "repair_hard", "final_review_default", "final_review_hard",
                  "final_review_critical"} : Slots[slot] \in Profiles
  /\ EffortLadder \in Seq(Profiles)
  /\ {DifficultImplementer, Planner} \subseteq Profiles \cup {NoOne}
  /\ Pauses \subseteq Nat
  /\ \A snapshot \in Snapshots, pool \in Pools :
       IsFiniteSet(snapshot[pool]) /\ snapshot[pool] \subseteq Limits

VARIABLES
  \* autonomy_state.json
  phase,
  due,         \* the call the phase makes next
  router, lastPool,
  writers,     \* models of the listed execute and repair executions
  implementer, \* profile of the last execute
  repairs,     \* it["repairs"]
  ladder,      \* it["repair_ladder"]
  origin,      \* it["repair_origin"]: the findings, and the step to take
  escalations, \* it["repair_escalations"]
  retryOf,     \* the next dispatch replaces one that was interrupted or failed
  \* the process, the file, the world
  flight,      \* the call in flight
  file,        \* the lines of repair_escalation_ledger.jsonl
  plan,        \* the plan's complexity, and whether the mandate overrides it
  telemetry, now,
  spent        \* what the environment has used of its bound, by kind

state == <<phase, due, router, lastPool, writers, implementer, repairs, ladder, origin,
           escalations, retryOf>>
vars  == <<state, flight, file, plan, telemetry, now, spent>>

Effects == {"execute", "repair"}
Reviews == {"review", "final_review"}
Ended   == phase \in {"ACCEPTED", "AWAITING_HUMAN"}
NoFlight == [name |-> "none"]
HardLimit == 14    \* HARD_MAX_REPAIR_ATTEMPTS + 8

Spend(kind) ==
  /\ spent.ticks + spent.failures + spent.crashes + spent.turns < MaxTroubles
  /\ spent' = [spent EXCEPT ![kind] = @ + 1]

\* Findings stay what they were, or it is trouble that they turned.
Found(keys) ==
  /\ keys # {} => Len(repairs) < MaxRepairs
  /\ CASE keys \in {{}, origin.keys}                   -> UNCHANGED spent
       [] keys # {} /\ origin.keys = {}               -> keys \in FirstFindings /\ UNCHANGED spent
       [] keys \notin {{}, origin.keys} /\ origin.keys # {} -> Spend("turns")

Line(id, kind) == [id |-> id, kind |-> kind]

TypeOK ==
  /\ phase \in {"EXECUTE", "SELF_VERIFY", "REVIEW", "REPAIR", "FINAL_REVIEW", "ACCEPTED",
                "AWAITING_HUMAN"}
  /\ due \in Effects \cup Reviews \cup {"diagnose", "none"}
  /\ router \in [demoted : [Pools -> Nat \cup {None}], health : [HealthKeys -> Nat \cup {None}]]
  /\ lastPool \in Pools \cup {"none"}
  /\ writers \subseteq {Traits[p].model : p \in Profiles}
  /\ implementer \in Profiles \cup {NoOne}
  /\ \A i \in DOMAIN repairs : repairs[i].keys \subseteq Keys /\ repairs[i].stage \in StageNames
  /\ ladder.stage \in StageNames \cup {NoOne} /\ ladder.attempts \in 0..MaxAttempts
  /\ origin.keys \subseteq Keys
  /\ \A i \in DOMAIN escalations :
       escalations[i].disposition \in {"PENDING", "RESOLVED", "HUMAN_GATE"}
  /\ \A i \in DOMAIN file : file[i].kind \in {"ESCALATION", "RESULT", "RESOLVED", "HUMAN_GATE"}
  /\ retryOf \in BOOLEAN
  /\ flight.name \in Effects \cup Reviews \cup {"diagnose", "none"}

Init ==
  /\ phase = "EXECUTE" /\ due = "execute"
  /\ router = EmptyState /\ lastPool = "none"
  /\ writers = {} /\ implementer = NoOne
  /\ repairs = <<>> /\ ladder = NewLadder /\ origin = [keys |-> {}, step |-> NewLadder.step, id |-> 0]
  /\ escalations = <<>> /\ retryOf = FALSE
  /\ flight = NoFlight /\ file = <<>>
  /\ plan \in Plans
  /\ telemetry = [pool \in Pools |-> {}] /\ now = 0
  /\ spent = [ticks |-> 0, failures |-> 0, crashes |-> 0, turns |-> 0]

-----------------------------------------------------------------------------
\* The escalation ledger: every PENDING escalation gets a disposition, in the
\* state and as a line of the file.
Pending == {i \in DOMAIN escalations : escalations[i].disposition = "PENDING"}
Disposed(d) == [i \in DOMAIN escalations |->
                  IF escalations[i].disposition = "PENDING"
                  THEN [escalations[i] EXCEPT !.disposition = d] ELSE escalations[i]]
DispositionLines(d) ==
  LET Nth(n) == CHOOSE i \in Pending : Cardinality({j \in Pending : j < i}) = n - 1
  IN  [n \in 1..Cardinality(Pending) |-> Line(escalations[Nth(n)].id, d)]

\* Mutant: an escalation does not close the ledger.
EscalateSilently ==
  /\ phase' = "AWAITING_HUMAN" /\ due' = "none" /\ flight' = NoFlight
  /\ UNCHANGED <<escalations, file>>

\* _escalate
Escalate ==
  /\ phase' = "AWAITING_HUMAN" /\ due' = "none" /\ flight' = NoFlight
  /\ escalations' = Disposed("HUMAN_GATE")
  /\ file' = file \o DispositionLines("HUMAN_GATE")

-----------------------------------------------------------------------------
\* autonomy_policy: whom the policy prefers for a call.
SelectImplementation ==
  CASE plan.override -> Slots.implementer_capability_escalation
    [] ~plan.override /\ plan.complexity = "NORMAL" -> Slots.implementer_default
    [] ~plan.override /\ plan.complexity = "HARDER" -> Slots.implementer_harder
    [] OTHER -> Slots.implementer_strong

\* Work of the strong implementer is not handed to a weaker repairer; several
\* findings stand for blocking ones, a critical one is not told apart.
SelectRepair ==
  CASE /\ implementer = Slots.implementer_strong
       /\ implementer \notin {Slots.repair_default, Slots.repair_hard} -> implementer
    [] OTHER -> IF repairs # <<>> \/ Cardinality(origin.keys) > 1
                THEN Slots.repair_hard ELSE Slots.repair_default

\* risk stands for the paths touched, the severities and the uncertainty.
SelectFinalReview(risk) ==
  CASE risk = "CRITICAL" -> Slots.final_review_critical
    [] risk # "CRITICAL" /\ (\/ risk = "HARD" \/ Len(repairs) >= 2
                             \/ implementer = Slots.implementer_capability_escalation) ->
         Slots.final_review_hard
    [] OTHER -> Slots.final_review_default

Preferred(risk) ==
  CASE due = "execute"      -> SelectImplementation
    [] due = "review"       -> Slots.primary_reviewer
    [] due = "final_review" -> SelectFinalReview(risk)
    [] due = "diagnose"     -> origin.step.diagnoses
    [] due = "repair"       -> IF origin.step.profile = NoOne THEN SelectRepair
                                                              ELSE origin.step.profile

\* _task_class, for a plan that touches one area.
TaskClass == CASE plan.complexity = "NORMAL" -> "SMALL"
               [] plan.complexity = "HARDER" -> "LARGE"
               [] OTHER -> "VERY_LARGE"

\* The request _route makes: a reviewer must be of a model that wrote nothing.
Request(preferred, risk) ==
  [phase |-> due, task |-> TaskClass, critical |-> due = "final_review" /\ risk = "CRITICAL",
   minClass |-> IF due = "repair" /\ origin.step.profile # NoOne
                THEN Traits[origin.step.profile].class ELSE 0,
   preferred |-> preferred, current |-> lastPool,
   override |-> IF due = "execute" /\ plan.override THEN preferred ELSE "none",
   exclude |-> IF due \in Reviews THEN writers ELSE {}]

Risks == IF due = "final_review" THEN {"DEFAULT", "HARD", "CRITICAL"} ELSE {"DEFAULT"}

\* _call with _route.  An unrunnable preferred profile is not replaced.
Dispatch(decision) ==
  LET most == IF Len(decision.ranked) > MaxFailovers + 1 THEN MaxFailovers + 1
                                                         ELSE Len(decision.ranked)
  IN  /\ flight' = [name |-> due, ranked |-> SubSeq(decision.ranked, 1, most),
                    reason |-> decision.reason, retry |-> retryOf, tried |-> {},
                    verdict |-> "none", keys |-> {}]
      /\ retryOf' = FALSE
      /\ UNCHANGED <<phase, due, escalations, file>>

Route ==
  /\ due # "none" /\ flight = NoFlight
  /\ \E risk \in Risks : \E preferred \in {Preferred(risk)} :
       IF preferred \in Unrunnable
       THEN Escalate /\ UNCHANGED <<router, retryOf>>
       ELSE \E decision \in {RouteCall(Request(preferred, risk), telemetry, router, now)} :
              /\ router' = decision.router
              /\ IF decision.ranked = <<>> THEN Escalate /\ UNCHANGED retryOf
                                           ELSE Dispatch(decision)
  /\ UNCHANGED <<lastPool, writers, implementer, repairs, ladder, origin, plan, telemetry, now, spent>>

Server == Head(flight.ranked)
Running == flight # NoFlight /\ flight.verdict = "none"
Failover(retry) == flight' = [flight EXCEPT !.ranked = Tail(@), !.retry = retry,
                                            !.tried = @ \cup {Traits[Server].pool}]

\* _call_once: the preflight of an alternative fails; nothing is invoked.
RoleUnavailable ==
  /\ Running /\ Server \in Unrunnable
  /\ IF Len(flight.ranked) > 1
     THEN /\ router' = RecordFailure(router, Server, "UNAVAILABLE", now)
          /\ flight' = [flight EXCEPT !.ranked = Tail(@)]
          /\ UNCHANGED <<phase, due, escalations, file>>
     ELSE Escalate /\ UNCHANGED router
  /\ UNCHANGED <<lastPool, writers, implementer, repairs, ladder, origin, retryOf, plan,
                 telemetry, now, spent>>

\* Every dispatched execution is listed, also one that failed.
Listed ==
  /\ writers' = IF due \in Effects THEN writers \cup {Traits[Server].model} ELSE writers
  /\ implementer' = IF due = "execute" THEN Server ELSE implementer

\* ExecutorFailure: one retry, routed anew; else the provider cools down and
\* the next ranked profile is tried, if nothing was touched.
CallFails(class, retryable, touched) ==
  /\ Running /\ Server \notin Unrunnable
  /\ Spend("failures")
  /\ Listed
  /\ IF retryable /\ ~flight.retry
     THEN /\ retryOf' = TRUE /\ flight' = NoFlight
          /\ UNCHANGED <<router, phase, due, escalations, file>>
     ELSE /\ router' = RecordFailure(router, Traits[Server].pool, class, now)
          /\ UNCHANGED retryOf
          /\ IF Len(flight.ranked) > 1 /\ class # "none" /\ ~(touched /\ due \in Effects)
             THEN Failover(FALSE) /\ UNCHANGED <<phase, due, escalations, file>>
             ELSE Escalate
  /\ UNCHANGED <<lastPool, repairs, ladder, origin, plan, telemetry, now>>

\* A call returns: its provider is healthy.
Returns == /\ Running /\ Server \notin Unrunnable
           /\ lastPool' = Traits[Server].pool
           /\ router' = RecordSuccess(router, Traits[Server].pool)
           /\ Listed

\* The handler cannot use what was returned (no structure, a reused session,
\* a read-only call that changed the worktree).
AnswerRefused ==
  /\ Returns /\ Escalate
  /\ UNCHANGED <<repairs, ladder, origin, retryOf, plan, telemetry, now, spent>>

ExecuteAnswers ==
  /\ due = "execute" /\ Returns
  /\ phase' = "SELF_VERIFY" /\ due' = "none" /\ flight' = NoFlight
  /\ UNCHANGED <<repairs, ladder, origin, escalations, retryOf, file, plan, telemetry, now, spent>>

\* _diagnose is the first call of a REPAIR whose step names a diagnostician.
DiagnoseAnswers ==
  /\ due = "diagnose" /\ Returns
  /\ due' = "repair" /\ flight' = NoFlight
  /\ UNCHANGED <<phase, repairs, ladder, origin, escalations, retryOf, file, plan, telemetry,
                 now, spent>>

\* _do_repair; signals is whether the repair itself is evidence of progress.
RepairAnswers(signals) ==
  /\ due = "repair" /\ Returns
  /\ repairs' = Append(repairs, [stage |-> origin.step.stage, effort |-> ladder.effort,
                                 keys |-> origin.keys, profile |-> Server, signals |-> signals,
                                 id |-> origin.id, assessed |-> FALSE])
  /\ phase' = "SELF_VERIFY" /\ due' = "none" /\ flight' = NoFlight
  /\ UNCHANGED <<ladder, origin, escalations, retryOf, file, plan, telemetry, now, spent>>

\* The result of a review is recorded before the handler looks at it.
ReviewAnswers(verdict, keys) ==
  /\ due \in Reviews /\ Returns
  /\ verdict = "REPAIR" <=> keys # {}
  /\ flight' = [flight EXCEPT !.verdict = verdict, !.keys = keys]
  /\ Found(keys)
  /\ UNCHANGED <<phase, due, repairs, ladder, origin, escalations, retryOf, file, plan,
                 telemetry, now>>

-----------------------------------------------------------------------------
\* _begin_repair, up to the save: the assessment of the last repair, the next
\* rung, and what is appended to the ledger meanwhile.
LastRepair == repairs[Len(repairs)]
StandardRepairs == Cardinality({i \in DOMAIN repairs : repairs[i].stage = "CURRENT"})

\* Mutant: only the present ladder's attempts count.
AtLimitOfLadder(step) == step.stage = "CURRENT" /\ ladder.attempts > RepairLimit

\* E_REPAIR_LIMIT
AtLimit(step) == \/ step.stage = "CURRENT" /\ StandardRepairs >= RepairLimit
                 \/ Len(repairs) >= RepairLimit + Len(Stages) * MaxAttempts
                 \/ Len(repairs) >= HardLimit

Consequence(fresh, next, stops) ==
  LET known  == IF fresh THEN Disposed("RESOLVED") ELSE escalations
      told   == (IF repairs # <<>> /\ ~LastRepair.assessed /\ LastRepair.id # 0
                 THEN <<Line(LastRepair.id, "RESULT")>> ELSE <<>>)
                \o (IF fresh THEN DispositionLines("RESOLVED") ELSE <<>>)
      newId  == 1 + Cardinality({i \in DOMAIN file : file[i].kind = "ESCALATION"})
      climbs == ~stops /\ next.step.stage # "CURRENT"
  IN  [stops |-> stops, ladder |-> next, id |-> IF climbs THEN newId ELSE 0,
       escalations |-> IF climbs THEN Append(known, [id |-> newId, disposition |-> "PENDING"])
                       ELSE IF stops /\ ~fresh THEN Disposed("HUMAN_GATE") ELSE known,
       lines |-> told \o (IF climbs THEN <<Line(newId, "ESCALATION")>>
                          ELSE IF stops /\ ~fresh THEN DispositionLines("HUMAN_GATE") ELSE <<>>)]

Consider(keys) ==
  LET again == repairs # <<>>
      fresh == again /\ FullyNew(LastRepair.keys, keys)
      moved == again /\ ~fresh /\ Progressed(LastRepair.keys, keys, LastRepair.signals)
      next  == NextStep(IF fresh THEN NewLadder ELSE ladder, moved,
                        IF again THEN LastRepair.profile ELSE NoOne)
  IN  Consequence(fresh, next.ladder, next.action = "EXHAUSTED" \/ AtLimit(next.ladder.step))

BeginRepair(keys) ==
  \E found \in {Consider(keys)} :
    /\ repairs' = IF repairs = <<>> THEN repairs
                  ELSE [repairs EXCEPT ![Len(repairs)].assessed = TRUE]
    /\ ladder' = found.ladder
    /\ escalations' = found.escalations
    /\ file' = file \o found.lines
    /\ flight' = NoFlight
    /\ IF found.stops
       THEN phase' = "AWAITING_HUMAN" /\ due' = "none" /\ UNCHANGED origin
       ELSE /\ phase' = "REPAIR"
            /\ origin' = [keys |-> keys, step |-> found.ladder.step, id |-> found.id]
            /\ due' = IF found.ladder.step.diagnoses = NoOne THEN "repair" ELSE "diagnose"

Unmoved == <<router, lastPool, writers, implementer, retryOf, plan, telemetry, now>>

\* _do_self_verify: deterministic checks, then the next phase or a repair.
SelfVerify(failing) ==
  /\ phase = "SELF_VERIFY"
  /\ IF failing = {}
     THEN /\ phase' = "REVIEW" /\ due' = "review"
          /\ UNCHANGED <<repairs, ladder, origin, escalations, file, flight>>
     ELSE BeginRepair(failing)
  /\ Found(failing)
  /\ UNCHANGED Unmoved

Answered == flight # NoFlight /\ flight.verdict # "none"

\* _do_review and _do_final_review, after the call.
ReviewPasses ==
  /\ Answered /\ flight.verdict = "PASS" /\ phase = "REVIEW"
  /\ IF LightReview THEN phase' = "ACCEPTED" /\ due' = "none"
                    ELSE phase' = "FINAL_REVIEW" /\ due' = "final_review"
  /\ flight' = NoFlight
  /\ UNCHANGED <<repairs, ladder, origin, escalations, file, spent, Unmoved>>

FinalReviewPasses ==
  /\ Answered /\ flight.verdict = "PASS" /\ phase = "FINAL_REVIEW"
  /\ phase' = "ACCEPTED" /\ due' = "none" /\ flight' = NoFlight
  /\ escalations' = Disposed("RESOLVED")
  /\ file' = file \o DispositionLines("RESOLVED")
  /\ UNCHANGED <<repairs, ladder, origin, spent, Unmoved>>

ReviewRepairs == /\ Answered /\ flight.verdict = "REPAIR"
                 /\ BeginRepair(flight.keys)
                 /\ UNCHANGED <<spent, Unmoved>>

ReviewEscalates == /\ Answered /\ flight.verdict = "ESCALATE"
                   /\ Escalate
                   /\ UNCHANGED <<repairs, ladder, origin, spent, Unmoved>>

-----------------------------------------------------------------------------
\* The controller dies and resume takes over: lines of the ledger that were
\* appended since the last save stay in the file.
Crash == /\ Spend("crashes")
         /\ UNCHANGED <<router, lastPool, writers, implementer, repairs, ladder, origin, plan,
                        telemetry, now>>

\* E_INTERRUPTED: the phase may have changed the worktree.
CrashInEffects ==
  /\ phase \in {"EXECUTE", "REPAIR"} /\ flight # NoFlight
  /\ Crash /\ Escalate
  /\ UNCHANGED retryOf

\* A read-only call is made again, perhaps after it failed and the escalation
\* was half recorded.
CrashInReview ==
  /\ Running /\ due \in Reviews
  /\ Crash
  /\ file' \in {file, file \o DispositionLines("HUMAN_GATE")}
  /\ flight' = NoFlight /\ retryOf' = TRUE
  /\ UNCHANGED <<phase, due, escalations>>

\* A recorded result is adopted and handled again.
HandlerLines ==
  CASE flight.verdict = "REPAIR"   -> Consider(flight.keys).lines
    [] flight.verdict = "ESCALATE" -> DispositionLines("HUMAN_GATE")
    [] OTHER -> IF phase = "FINAL_REVIEW" THEN DispositionLines("RESOLVED") ELSE <<>>

CrashInHandler ==
  /\ Answered /\ HandlerLines # <<>>
  /\ Crash
  /\ file' = file \o HandlerLines
  /\ UNCHANGED <<phase, due, escalations, retryOf, flight>>

CrashInSelfVerify(failing) ==
  /\ phase = "SELF_VERIFY" /\ Consider(failing).lines # <<>>
  /\ Crash
  /\ file' = file \o Consider(failing).lines
  /\ UNCHANGED <<phase, due, escalations, retryOf, flight>>

\* The environment: reports are read when a call is routed, and calls take time.
Observe ==
  /\ due # "none" /\ flight = NoFlight
  /\ Spend("ticks")
  /\ \E snapshot \in Snapshots :
       telemetry' = [pool \in Pools |-> {[l EXCEPT !.observed = now] : l \in snapshot[pool]}]
  /\ UNCHANGED <<state, flight, file, plan, now>>
TimePasses ==
  /\ Running
  /\ Spend("ticks")
  /\ \E minutes \in Pauses : now' = now + minutes
  /\ UNCHANGED <<state, flight, file, plan, telemetry>>

Rest == Ended /\ UNCHANGED vars

Next ==
  \/ Route \/ RoleUnavailable \/ AnswerRefused \/ ExecuteAnswers \/ DiagnoseAnswers
  \/ \E class \in FailureClasses \cup {"none"}, retryable, touched \in BOOLEAN :
       CallFails(class, retryable, touched)
  \/ \E signals \in BOOLEAN : RepairAnswers(signals)
  \/ \E verdict \in {"PASS", "REPAIR", "ESCALATE"}, keys \in Findings \cup {{}} : ReviewAnswers(verdict, keys)
  \/ \E failing \in Findings \cup {{}} : SelfVerify(failing)
  \/ ReviewPasses \/ FinalReviewPasses \/ ReviewRepairs \/ ReviewEscalates
  \/ CrashInEffects \/ CrashInReview \/ CrashInHandler
  \/ \E failing \in Findings : CrashInSelfVerify(failing)
  \/ Observe \/ TimePasses \/ Rest

Spec == Init /\ [][Next]_vars

-----------------------------------------------------------------------------
\* Whoever reviews wrote nothing of the candidate: the model a review is
\* dispatched to, also as a failover, executed and repaired nothing, whatever
\* failed or was escalated before (_route's exclusion against the executions
\* that _call_once lists).
ReviewIndependent ==
  Running /\ due \in Reviews /\ Server \notin Unrunnable => Traits[Server].model \notin writers

\* Where a repair stands on the ladder.
Rung(r) == <<Place(r.stage), r.effort>>
Below(a, b) == \/ Rung(a)[1] < Rung(b)[1]
               \/ Rung(a)[1] = Rung(b)[1] /\ Rung(a)[2] < Rung(b)[2]

\* Repairs climb: while the findings are the same problem no repair is on a
\* lower rung than the one before, a rung is tried again only after progress and
\* MaxAttempts times at most, and plain repairs keep to the mandate's limit,
\* however the findings come and go.
RepairsClimb ==
  /\ \A i \in 1..(Len(repairs) - 1) :
       LET a == repairs[i]  b == repairs[i + 1]
       IN  \/ FullyNew(a.keys, b.keys)
           \/ Below(a, b)
           \/ Rung(a) = Rung(b) /\ Progressed(a.keys, b.keys, a.signals)
  /\ \A i \in DOMAIN repairs, j \in DOMAIN repairs :
       (/\ i < j
        /\ \A k \in i..(j - 1) : /\ Rung(repairs[k]) = Rung(repairs[j])
                                 /\ ~FullyNew(repairs[k].keys, repairs[k + 1].keys))
         => j - i < MaxAttempts
  /\ StandardRepairs <= RepairLimit

\* When the iteration is over the ledger tells the whole story: every
\* escalation has a disposition, the last line about it says the same, every
\* repair above the plain one belongs to an escalation, and only crashes left
\* escalations in the file that the state does not know.
ToldLast(id, disposition) ==
  \E n \in DOMAIN file :
    /\ file[n] = Line(id, disposition)
    /\ \A m \in DOMAIN file : m > n /\ file[m].id = id => file[m].kind \notin {"RESOLVED", "HUMAN_GATE"}
LedgerTold ==
  Ended =>
    LET known == {escalations[i].id : i \in DOMAIN escalations}
    IN  /\ \A i \in DOMAIN escalations :
             /\ escalations[i].disposition # "PENDING"
             /\ ToldLast(escalations[i].id, escalations[i].disposition)
        /\ \A i \in DOMAIN repairs : repairs[i].stage # "CURRENT" => repairs[i].id \in known
        /\ Cardinality({i \in DOMAIN file : file[i].kind = "ESCALATION" /\ file[i].id \notin known})
             <= spent.crashes
=============================================================================
