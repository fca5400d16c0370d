----------------------------- MODULE ModelRouter -----------------------------
(***************************************************************************)
(* model_router.py: which profiles may serve a call, and in which order.   *)
(*                                                                         *)
(* The policy names a preferred profile; the router keeps it while its     *)
(* provider has headroom, and otherwise ranks the profiles that pass every *)
(* hard filter.  What providers report is in tel, time is in minutes, and  *)
(* scores are in hundredths of a point.  The router's own state is         *)
(*   demoted[pool]  when quota moved work away from the pool,              *)
(*   health[key]    until when a pool or a profile is in cooldown,         *)
(* None standing for "not at all".  The branch for an operation in         *)
(* progress is left out: the controller never asks for it.                 *)
(***************************************************************************)
EXTENDS Integers, Sequences, FiniteSets

CONSTANT
  Routing  \* AUTONOMY_ROLES.json "routing": the profiles, each with its pool,
           \* model, trust, class, caps, cost, row (its place in the file) and
           \* rank (that of its name among the sorted ones), what a phase needs
           \* and the profiles declared unavailable

Traits      == Routing.profiles
Profiles    == DOMAIN Traits
PhaseCaps   == Routing.phase_capabilities
PhaseFloor  == Routing.phase_class_floor
Unavailable == Routing.unavailable

None == -1
Pools == {Traits[p].pool : p \in Profiles}
HealthKeys == Pools \cup Profiles

ASSUME TraitsAssumption ==
  /\ IsFiniteSet(Profiles)
  /\ \A p \in Profiles : /\ Traits[p].trust \in {"PRODUCTION", "SECONDARY", "EXPERIMENTAL", "DISABLED"}
                          /\ {Traits[p].class, Traits[p].cost, Traits[p].row, Traits[p].rank} \subseteq Nat
  /\ \A p, q \in Profiles : p # q => Traits[p].row # Traits[q].row /\ Traits[p].rank # Traits[q].rank
  /\ Unavailable \subseteq Profiles

\* What a provider reports of one of its limits.
Limits ==
  [model : STRING, certainty : {"EXACT", "ESTIMATED", "UNKNOWN"}, percent : 0..100 \cup {None},
   provenance : BOOLEAN, observed : Nat, resetsAt : Nat \cup {None}, blocked : BOOLEAN,
   lastReset : Nat \cup {None}]

\* DEFAULT_POLICY.
SoftThreshold == 10
ReservePercent == 5
NearReset == 20
ReturnThreshold == 25
StaleAfter == 30
UnknownAfter == 180
DemotionTTL == 300
SwitchPenalty == 1000
ReserveAllowed == {"review", "repair", "final_review", "diagnose"}
CooldownOf == [RATE_LIMIT |-> 15, TIMEOUT |-> 10, AUTH |-> 60, UNAVAILABLE |-> 5]
Rank == [SMALL |-> 1, MEDIUM |-> 2, LARGE |-> 3, VERY_LARGE |-> 4]
ClassFloor == Rank
Headroom == [SMALL |-> 0, MEDIUM |-> 0, LARGE |-> 5, VERY_LARGE |-> 15]
HalfPenalties == [SMALL |-> 1, MEDIUM |-> 2, LARGE |-> 3, VERY_LARGE |-> 4]

MaxOf(S) == CHOOSE x \in S : \A y \in S : x >= y

EmptyState == [demoted |-> [pool \in Pools |-> None], health |-> [key \in HealthKeys |-> None]]

-----------------------------------------------------------------------------
\* normalize_limit: a limit never says more than was measured, and less as the
\* measurement ages.
NormalLimit(l, now) ==
  LET age       == now - l.observed
      untrusted == \/ l.certainty = "UNKNOWN" \/ age > UnknownAfter
                   \/ l.certainty = "ESTIMATED" /\ ~l.provenance
  IN  [percent   |-> IF untrusted THEN None ELSE l.percent,
       certainty |-> CASE untrusted \/ (l.percent = None /\ ~l.blocked) -> "UNKNOWN"
                       [] ~untrusted /\ l.certainty = "EXACT" /\ age > StaleAfter -> "ESTIMATED"
                       [] OTHER -> l.certainty,
       resetsIn  |-> IF l.resetsAt = None THEN None ELSE MaxOf({0, l.resetsAt - now}),
       blocked   |-> l.blocked,
       lastReset |-> l.lastReset]

NoView == [percent |-> None, certainty |-> "UNKNOWN", resetsIn |-> None, blocked |-> FALSE,
           lastReset |-> None]

\* quota_view: the most restrictive limit that applies to the profile's model.
QuotaView(tel, p, now) ==
  LET limits  == {NormalLimit(l, now) : l \in {k \in tel[Traits[p].pool] :
                                                k.model \in {"any", Traits[p].model}}}
      blocked == {l \in limits : l.blocked}
      known   == {l \in limits : l.percent # None}
      Binding == CASE blocked # {} -> CHOOSE l \in blocked : \A k \in blocked : l.resetsIn >= k.resetsIn
                   [] blocked = {} /\ known # {} ->
                        CHOOSE l \in known : \A k \in known :
                          \/ l.percent < k.percent
                          \/ l.percent = k.percent /\ (l.certainty = "EXACT" \/ k.certainty # "EXACT")
                   [] OTHER -> NoView
  IN  [Binding EXCEPT !.percent = IF blocked # {} THEN None ELSE @,
                      !.lastReset = MaxOf({None} \cup {l.lastReset : l \in limits})]

\* zone_for
ZoneOf(view, task) ==
  CASE view.blocked -> "EXHAUSTED"
    [] ~view.blocked /\ view.percent = None -> "UNKNOWN"
    [] ~view.blocked /\ view.percent = 0 /\ view.certainty = "EXACT" -> "EXHAUSTED"
    [] ~view.blocked /\ view.percent \in 0..ReservePercent
         /\ ~(view.percent = 0 /\ view.certainty = "EXACT") -> "RESERVE"
    [] OTHER -> IF view.percent < SoftThreshold + Headroom[task] THEN "LOW" ELSE "NORMAL"

-----------------------------------------------------------------------------
\* record_failure, record_success and _health_block.
RecordFailure(state, key, class, now) ==
  IF class \in DOMAIN CooldownOf THEN [state EXCEPT !.health[key] = now + CooldownOf[class]]
                                 ELSE state
RecordSuccess(state, pool) == [state EXCEPT !.health[pool] = None]
Cooling(state, key, now) == state.health[key] > now

\* _return_confirmed, for the view of the pool's first profile.
Returned(state, pool, tel, now) ==
  LET first == CHOOSE p \in Profiles : /\ Traits[p].pool = pool
                                       /\ \A q \in Profiles : Traits[q].pool = pool
                                                                => Traits[p].row <= Traits[q].row
      view  == QuotaView(tel, first, now)
      since == state.demoted[pool]
  IN  \/ view.percent >= ReturnThreshold
      \/ view.lastReset > since
      \/ now - since >= DemotionTTL /\ view.percent = None

ClearReturned(state, tel, now) ==
  [state EXCEPT !.demoted = [pool \in Pools |->
     IF @[pool] # None /\ Returned(state, pool, tel, now) THEN None ELSE @[pool]]]

\* demote; an older demotion stands.
Demote(state, pool, now) ==
  IF state.demoted[pool] = None THEN [state EXCEPT !.demoted[pool] = now] ELSE state

-----------------------------------------------------------------------------
\* A request is [phase, task, critical, minClass, preferred, current, override,
\* exclude]: current is the pool of the last call, exclude a set of models.
Floor(req) == MaxOf({ClassFloor[req.task], PhaseFloor[req.phase], req.minClass})

\* Mutant: independence is not a filter.
PassesUnfiltered(req, p) ==
  /\ Traits[p].trust # "DISABLED" /\ (p \notin Unavailable \/ p = req.preferred)
  /\ PhaseCaps[req.phase] \subseteq Traits[p].caps
  /\ Traits[p].class >= Floor(req)

\* _filters, without provider health and quota.  The preferred profile passed
\* its preflight before the router was asked; the others are taken on trust.
Passes(req, p) ==
  /\ Traits[p].trust # "DISABLED" /\ (p \notin Unavailable \/ p = req.preferred)
  /\ Traits[p].model \notin req.exclude
  /\ PhaseCaps[req.phase] \subseteq Traits[p].caps
  /\ Traits[p].class >= Floor(req)
  /\ Traits[p].trust = "EXPERIMENTAL" =>
       /\ req.phase \in {"execute", "repair", "self_verify", "diagnose"}
       /\ req.task \in {"SMALL", "MEDIUM"} /\ ~req.critical
  /\ Traits[p].trust = "SECONDARY" => ~(req.critical /\ req.phase = "final_review")

Runnable(state, p, now) == ~Cooling(state, Traits[p].pool, now) /\ ~Cooling(state, p, now)

\* Evaluated candidates: what the decision looks at, for every profile.
Candidates(req, tel, state, now) ==
  LET Evaluated(p, view) == [id |-> p, view |-> view, zone |-> ZoneOf(view, req.task),
                             eligible |-> /\ Passes(req, p) /\ Runnable(state, p, now)
                                          /\ ZoneOf(view, req.task) # "EXHAUSTED"]
  IN  {Evaluated(p, QuotaView(tel, p, now)) : p \in Profiles}

\* score_candidate
Score(req, c) ==
  LET t       == Traits[c.id]
      gap     == t.class - Traits[req.preferred].class
      half    == HalfPenalties[req.task]
      percent == c.view.percent * CASE c.view.certainty = "EXACT" -> 30
                                    [] c.view.certainty = "ESTIMATED" -> 18
                                    [] OTHER -> 0
  IN  (IF gap > 0 THEN -1500 * gap ELSE 4000 * gap)
    + (CASE t.trust = "PRODUCTION" -> 2000 [] t.trust = "SECONDARY" -> 800
         [] t.trust = "EXPERIMENTAL" -> -1000 [] OTHER -> 0)
    + (CASE c.zone = "LOW" -> -6000 [] c.zone = "RESERVE" -> -12000 [] OTHER -> 0)
    + (IF c.view.percent = None THEN 0 ELSE percent)
    + (IF c.zone \in {"LOW", "RESERVE"} /\ c.view.resetsIn \in 0..NearReset THEN 500 ELSE 0)
    - (IF req.current # "none" /\ t.pool # req.current THEN (SwitchPenalty * half) \div 2 ELSE 0)
    - ((t.cost - 10) * 50 * half)
    + (IF c.id = req.preferred THEN 1500 ELSE 0)

InRowOrder(S) ==
  [i \in 1..Cardinality(S) |->
     CHOOSE p \in S : Cardinality({q \in S : Traits[q].row < Traits[p].row}) = i - 1]

\* ranked_alternatives
ByScore(req, S) ==
  LET scored == {[id |-> c.id, score |-> Score(req, c)] : c \in S}
      Before(a) == {b \in scored : \/ b.score > a.score
                                   \/ b.score = a.score /\ Traits[b.id].rank < Traits[a.id].rank}
  IN  [i \in 1..Cardinality(scored) |-> (CHOOSE a \in scored : Cardinality(Before(a)) = i - 1).id]

Usable(req, c) == c.eligible /\ (c.zone = "RESERVE" => req.phase \in ReserveAllowed)

Alternatives(req, candidates, state) ==
  {c \in candidates : /\ c.id # req.preferred
                      /\ Usable(req, c)
                      /\ state.demoted[Traits[c.id].pool] = None}

\* The alternatives with more headroom than the preferred profile.
Better(pref, alternatives) ==
  {c \in alternatives :
     \/ c.zone = "NORMAL"
     \/ /\ None \notin {c.view.percent, pref.view.percent}
        /\ c.view.percent > pref.view.percent
        /\ c.zone \notin {"RESERVE", "LOW"}}

Feasible(req, state, now) == /\ req.override # "none"
                             /\ Traits[req.override].trust # "DISABLED"
                             /\ Runnable(state, req.override, now)

Decision(ranked, reason, state) == [ranked |-> ranked, reason |-> reason, router |-> state]

\* Steps 2 to 5 of route: the policy's choice and the quota of its provider.
RouteByQuota(req, candidates, state, now) ==
  LET pref   == CHOOSE c \in candidates : c.id = req.preferred
      pool   == Traits[req.preferred].pool
      held   == state.demoted[pool] # None
      zone   == IF held /\ pref.zone \in {"NORMAL", "UNKNOWN"} THEN "LOW" ELSE pref.zone
      usable == Alternatives(req, candidates, state)
      others == ByScore(req, usable)
      better == ByScore(req, Better(pref, usable))
      moved  == Demote(state, pool, now)
      stays  == /\ ~held /\ pref.view.resetsIn \in 0..NearReset /\ req.task = "SMALL"
                /\ req.current \in {"none", pool}
      Stay(reason) == Decision(<<req.preferred>> \o others, reason, state)
      Leave(reason, after) ==
        Decision(others, IF others = <<>> THEN "NO_ELIGIBLE_PROFILE" ELSE reason, after)
  IN  CASE ~pref.eligible ->
             Leave("PREFERRED_INELIGIBLE", IF pref.zone = "EXHAUSTED" THEN moved ELSE state)
        [] pref.eligible /\ zone \in {"NORMAL", "UNKNOWN"} -> Stay("QUOTA_OK")
        [] pref.eligible /\ zone = "LOW" /\ stays -> Stay("NEAR_RESET_STAY")
        [] pref.eligible /\ zone = "LOW" /\ ~stays /\ better # <<>> ->
             Decision(better \o <<req.preferred>>
                        \o ByScore(req, usable \ Better(pref, usable)),
                      "QUOTA_LOW_ALTERNATIVE", moved)
        [] pref.eligible /\ zone = "LOW" /\ ~stays /\ better = <<>> -> Stay("NO_BETTER")
        [] pref.eligible /\ zone = "RESERVE" ->
             IF req.phase \in ReserveAllowed
             THEN Decision(<<req.preferred>> \o others, "RESERVE_ALLOWED", moved)
             ELSE Leave("RESERVE_SWITCH", moved)

\* route, with its manual override first.
RouteCall(req, tel, state, now) ==
  LET candidates == Candidates(req, tel, state, now)
      eligible   == {c.id : c \in {d \in candidates : d.eligible}}
  IN  IF Feasible(req, state, now)
      THEN Decision(<<req.override>> \o InRowOrder(eligible \ {req.override}), "MANUAL_OVERRIDE", state)
      ELSE RouteByQuota(req, candidates, ClearReturned(state, tel, now), now)
=============================================================================
