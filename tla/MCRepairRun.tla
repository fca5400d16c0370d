----------------------------- MODULE MCRepairRun -----------------------------
(***************************************************************************)
(* RepairRun with profiles, policy and ladder as AUTONOMY_ROLES.json ships *)
(* them; the aliases of a profile already listed are left out.             *)
(***************************************************************************)
EXTENDS RepairRun

Judging == {"planning", "structured_output", "code_read", "review"}
AllCaps == Judging \cup {"code_edit", "shell"}
Profile(pool, model, trust, class, caps, cost, row, rank) ==
  [pool |-> pool, model |-> model, trust |-> trust, class |-> class, caps |-> caps,
   cost |-> cost, row |-> row, rank |-> rank]
Codex(model, class, caps, cost, row, rank) ==
  Profile("openai-codex", model, "PRODUCTION", class, caps, cost, row, rank)
Claude(model, class, cost, row, rank) ==
  Profile("anthropic-claude", model, "PRODUCTION", class, AllCaps, cost, row, rank)

MCTraits ==
  [GPT6_LUNA_HIGH       |-> Codex("gpt-6-luna", 4, AllCaps, 10, 0, 3),
   GPT6_LUNA_VERY_HIGH  |-> Codex("gpt-6-luna", 4, AllCaps, 10, 1, 5),
   GPT6_LUNA_MAX        |-> Codex("gpt-6-luna", 4, AllCaps, 10, 2, 4),
   SOL_6_1_LIGHT        |-> Codex("gpt-6.1-sol", 3, Judging, 6, 3, 9),
   SOL_5_6_LIGHT        |-> Codex("gpt-5.6-sol", 3, Judging, 6, 4, 8),
   SONNET_5_5_MEDIUM    |-> Claude("sonnet-5.5", 4, 13, 5, 11),
   OPUS_5_5_HIGH        |-> Claude("opus-5.5", 5, 20, 6, 6),
   OPUS_5_5_MEDIUM      |-> Claude("opus-5.5", 5, 20, 7, 7),
   ANTIGRAVITY_FREE     |-> Profile("google-antigravity", "antigravity-free", "EXPERIMENTAL", 2,
                                    {"code_edit", "shell", "structured_output", "code_read"}, 5, 8, 2),
   SOL_6_1_MEDIUM       |-> Codex("gpt-6.1-sol", 5, AllCaps, 12, 9, 10),
   AGY_GEMINI_3_1_PRO   |-> Profile("google-antigravity", "gemini-3.1-pro", "SECONDARY", 4,
                                    AllCaps, 8, 10, 1)]

MCPhaseCaps ==
  [execute      |-> {"code_edit", "shell", "structured_output"},
   repair       |-> {"code_edit", "shell", "structured_output"},
   review       |-> {"review", "structured_output", "code_read"},
   final_review |-> {"review", "structured_output", "code_read"},
   diagnose     |-> {"code_read", "structured_output"}]
MCPhaseFloor == [execute |-> 0, repair |-> 0, review |-> 3, final_review |-> 3, diagnose |-> 0]

MCRouting ==
  [profiles |-> MCTraits, phase_capabilities |-> MCPhaseCaps, phase_class_floor |-> MCPhaseFloor,
   unavailable |-> {"AGY_GEMINI_3_1_PRO"}]

MCPolicyProfiles ==
  [implementer_default |-> "GPT6_LUNA_HIGH", implementer_harder |-> "GPT6_LUNA_VERY_HIGH",
   implementer_strong |-> "SOL_6_1_MEDIUM", implementer_capability_escalation |-> "SONNET_5_5_MEDIUM",
   primary_reviewer |-> "SOL_6_1_LIGHT",
   repair_default |-> "GPT6_LUNA_VERY_HIGH", repair_hard |-> "GPT6_LUNA_MAX",
   final_review_default |-> "SOL_5_6_LIGHT", final_review_hard |-> "SONNET_5_5_MEDIUM",
   final_review_critical |-> "OPUS_5_5_MEDIUM"]

MCRepairEscalation ==
  [stages |-> <<"CURRENT", "EFFORT_UP", "DIFFICULT_IMPLEMENTER", "PLANNER_DIAGNOSIS">>,
   max_effort_steps |-> 0, max_attempts_per_stage |-> 2,
   effort_ladder |-> <<"GPT6_LUNA_HIGH", "GPT6_LUNA_VERY_HIGH", "GPT6_LUNA_MAX">>,
   difficult_implementer |-> "SOL_6_1_MEDIUM", planner |-> "OPUS_5_5_HIGH"]

\* What the providers may report.
Percent(n, certainty) ==
  {[model |-> "any", certainty |-> certainty, percent |-> n, provenance |-> TRUE, observed |-> 0,
    resetsAt |-> None, blocked |-> FALSE, lastReset |-> None]}
Blocked(until) ==
  {[model |-> "any", certainty |-> "EXACT", percent |-> None, provenance |-> TRUE, observed |-> 0,
    resetsAt |-> until, blocked |-> TRUE, lastReset |-> None]}
Report(codex, claude) == [pool \in {t.pool : t \in {MCTraits[p] : p \in DOMAIN MCTraits}} |->
  CASE pool = "openai-codex" -> codex [] pool = "anthropic-claude" -> claude [] OTHER -> {}]

Plan(complexity, override) == [complexity |-> complexity, override |-> override]
MCPlans == {Plan("NORMAL", FALSE), Plan("SIGNIFICANTLY_DIFFICULT", FALSE), Plan("NORMAL", TRUE)}

MCSnapshots ==
  {Report(Percent(8, "EXACT"), Percent(60, "ESTIMATED")),
   Report(Percent(4, "EXACT"), {}),
   Report(Blocked(200), Percent(3, "EXACT"))}
=============================================================================
