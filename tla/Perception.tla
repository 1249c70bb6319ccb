----------------------------- MODULE Perception -----------------------------
(***************************************************************************)
(* The live perception cycle: plan one observation from what is known,     *)
(* execute it, charge it, plan again (control/src/perception*.rs, the      *)
(* planner, engine and token-budget crates, chromium_runtime.rs and the    *)
(* desktop's visual packet).  The order of the candidates comes from       *)
(* floating-point scores and is left open.                                 *)
(***************************************************************************)
EXTENDS Integers, FiniteSets

CONSTANTS PerceptionBudgets,   \* records [latency, tokens, regions, spawns]
          MaxPerceptionSteps, MaxPerceptionPages

ASSUME PerceptionAssumption ==
  /\ {MaxPerceptionSteps, MaxPerceptionPages} \subseteq Nat \ {0}
  /\ PerceptionBudgets \subseteq [latency : Nat, tokens : Nat, regions : Nat, spawns : Nat]

VARIABLES perc,        \* the running cycle
          percWorld,   \* what the daemon retains and the page shows
          percBase     \* page version in the desktop's visual baseline, 0 if none

percVars == <<perc, percWorld, percBase>>

Usage(l, t, r, c) == [latency |-> l, tokens |-> t, regions |-> r, spawns |-> c]
ZeroUsage == Usage(0, 0, 0, 0)
Plus(u, v) == [d \in DOMAIN u |-> u[d] + v[d]]

IdleCycle == [phase |-> "idle", req |-> "none", spent |-> ZeroUsage, forecast |-> ZeroUsage,
              visual |-> FALSE, evidenced |-> FALSE, left |-> 0, reason |-> "none", over |-> FALSE,
              browsers |-> 0, out |-> "none"]

PerceptionInit ==
  /\ perc = IdleCycle
  /\ percWorld = [events |-> {}, retained |-> {}, probed |-> {}, route |-> "none", page |-> 1]
  /\ percBase = 0

\* An error response carries nothing of the cycle but its code.
Failure(out) == [IdleCycle EXCEPT !.phase = "done", !.out = out]

Answer(out) ==
  /\ perc' = IF out = "no_op" THEN [perc EXCEPT !.phase = "done", !.out = out] ELSE Failure(out)
  /\ UNCHANGED <<percWorld, percBase>>

----------------------------------------------------------------------------
(* Planning.                                                               *)

\* diagnose_live: what the retained window leaves unknown, after
\* append_retained_snapshot_observations lent it the retained snapshot.
diagnose_live ==
  LET seen == percWorld.events \cup percWorld.retained
  IN (IF "semantic" \in seen THEN {} ELSE {"state"})
     \cup (IF "layout" \in seen THEN {} ELSE {"visual"})
     \cup (IF percWorld.events \cap {"network", "console"} # {} THEN {"cause"} ELSE {})

\* authoritative_chromium_compatibility: a probe of the route shown now; a
\* session whose window holds no route has none.
chromium_satisfied == percWorld.route # "none" /\ percWorld.route \in percWorld.probed

derive_signals ==
  LET unknown == diagnose_live \ (IF perc.visual THEN {"visual"} ELSE {})
  IN [deep |-> perc.req.deep,
      insufficient |-> unknown # {},
      browser |-> perc.req.compat /\ unknown \cap {"state", "visual"} = {} /\ ~chromium_satisfied]

derive_candidates ==
  LET unknown == diagnose_live
  IN (IF "state" \in unknown THEN {[kind |-> "snapshot", usage |-> Usage(120, 120, 0, 0)]} ELSE {})
     \cup (IF "visual" \in unknown /\ ~perc.visual
             THEN {[kind |-> "region", usage |-> Usage(300, 180, 1, 0)]} ELSE {})
     \cup (IF "network" \in percWorld.events
             THEN {[kind |-> "network", usage |-> Usage(160, 220, 0, 0)]} ELSE {})
     \cup (IF "console" \in percWorld.events
             THEN {[kind |-> "console", usage |-> Usage(120, 180, 0, 0)]} ELSE {})
     \cup (IF derive_signals.browser
             THEN {[kind |-> "chromium", usage |-> Usage(500, 200, 0, 1)]} ELSE {})

\* A browser is escalated to for its own reason only.
perception_escalation_reason(kind) ==
  IF kind = "chromium" THEN (IF derive_signals.browser THEN "browser" ELSE "none")
  ELSE IF derive_signals.deep THEN "deep"
  ELSE IF derive_signals.insufficient THEN "insufficient"
  ELSE IF derive_signals.browser THEN "browser"
  ELSE "none"

exceeded_dimensions(budget, usage) == {d \in DOMAIN budget : usage[d] > budget[d]}

evaluate_perception_budget(budget, usage, reason) ==
  exceeded_dimensions(budget, usage) = {} \/ reason # "none"

\* The candidates plan_budgeted_perception_cycle_with_usage may return.
Admissible ==
  {c \in derive_candidates :
     evaluate_perception_budget(perc.req.budget, Plus(perc.spent, c.usage),
                                perception_escalation_reason(c.kind))}

\* selected_engine and choose_engine_authorized: a browser needs a plan whose
\* cumulative usage is one spawn.
choose_engine_authorized(c) == c.kind = "chromium" => Plus(perc.spent, c.usage).spawns = 1

Clock(late) == [perc EXCEPT !.over = perc.over \/ late,
                            !.spent.latency = IF perc.over \/ late THEN perc.req.budget.latency + 1 ELSE @]

\* build_live_perception_plan_with_usage_and_visual_satisfaction: the next
\* observation, a denial of the governor, or the engine's refusal.
plan_observation ==
  /\ perc.phase = "plan" /\ perc.left > 0
  /\ \E c \in Admissible :
       \/ /\ choose_engine_authorized(c)
          /\ perc' = [perc EXCEPT !.phase = c.kind, !.forecast = Plus(perc.spent, c.usage),
                                  !.reason = perception_escalation_reason(c.kind)]
          /\ UNCHANGED <<percWorld, percBase>>
       \/ ~choose_engine_authorized(c) /\ Answer("engine_admission_failed")
       \/ c.kind = "chromium" /\ Answer("resource_denied")

\* Nothing to plan: a completed cycle, or one whose budget rejected the rest.
plan_is_empty ==
  /\ perc.phase = "plan" /\ perc.left > 0 /\ Admissible = {}
  /\ Answer(IF derive_candidates # {} THEN "budget_exhausted"
            ELSE IF evaluate_perception_budget(perc.req.budget, perc.spent, perc.reason) THEN "no_op"
            ELSE "budget_exceeded")

step_limit_response == perc.phase = "plan" /\ perc.left = 0 /\ Answer("step_limit")

----------------------------------------------------------------------------
(* Executing.                                                              *)

\* The tail of the loop body: the charge is judged under the reason that
\* admitted the step; the clock may have run past the budget meanwhile.
charge(r, usage, late) ==
  LET spent == [usage EXCEPT !.latency = IF r.over \/ late THEN r.req.budget.latency + 1 ELSE 0]
      done  == [r EXCEPT !.spent = spent, !.forecast = ZeroUsage, !.over = r.over \/ late, !.left = r.left - 1, !.phase = "plan"]
  IN IF evaluate_perception_budget(r.req.budget, spent, r.reason)
       THEN done ELSE Failure("budget_exceeded")

\* acquire_fresh_semantic_snapshot: complete_action inserts the evidence
\* before the waiter sees the result, a payload that does not project too.
acquire_fresh_semantic_snapshot ==
  /\ perc.phase = "snapshot"
  /\ \/ Answer("snapshot_timeout")
     \/ \E valid, late \in BOOLEAN :
          /\ percWorld' = [percWorld EXCEPT !.retained = {"semantic", "layout"}]
          /\ perc' = IF valid THEN charge(perc, perc.forecast, late)
                     ELSE Failure("invalid_snapshot")
          /\ UNCHANGED percBase

\* capture_visual_packet_authorized: the changed regions against the private
\* baseline, and the target's regions when the request names one; an
\* unchanged page without a target yields no image.  The baseline moves once
\* the selected evidence is registered, whether or not the daemon still waits.
capture_visual_packet_authorized ==
  IF percBase # percWorld.page \/ perc.req.target THEN "images" ELSE "metadata_only"

\* Mutant: an answer is enough, whatever evidence it names.
any_answer_is_evidence(fresh) == TRUE

\* has_matching_native_visual_evidence: every named evidence is native, of
\* this viewport and revision, and not older than the request.
has_matching_native_visual_evidence(fresh) ==
  capture_visual_packet_authorized = "images" /\ fresh

\* The region capture: the native executor answers, fails or is too late.
execute_region_capture ==
  /\ perc.phase = "region"
  /\ \/ Answer("resource_denied")
     \/ /\ percBase' \in {percBase, percWorld.page}
        /\ perc' = Failure("native_timeout")
        /\ UNCHANGED percWorld
     \/ \E fresh, late \in BOOLEAN, tokens \in {0, 180} :
          /\ percBase' = percWorld.page
          /\ UNCHANGED percWorld
          /\ perc' = IF has_matching_native_visual_evidence(fresh)
               THEN charge([perc EXCEPT !.visual = TRUE,
                                        !.evidenced = fresh /\ capture_visual_packet_authorized = "images"],
                           Plus(perc.spent, Usage(0, tokens, 1, 0)), late)
               ELSE Failure("evidence_missing")

\* execute_compatibility_probe: one headless browser with a throw-away
\* profile, killed at its deadline; its evidence names the route it loaded,
\* the one the page shows when the probe starts.
execute_compatibility_probe ==
  /\ perc.phase = "chromium"
  /\ \/ \E out \in {"executor_unavailable", "resource_denied", "browser_failed"} : Answer(out)
     \/ \E late \in BOOLEAN :
          /\ percWorld' = [percWorld EXCEPT !.probed = @ \cup
                             {IF percWorld.route = "none" THEN "base" ELSE percWorld.route}]
          /\ perc' = charge([perc EXCEPT !.browsers = @ + 1],
                            Plus(perc.spent, Usage(0, 0, 0, 1)), late)
          /\ UNCHANGED percBase

\* The cycle has no executor for the other observations.
executor_unavailable_response ==
  perc.phase \in {"network", "console"} /\ Answer("executor_unavailable")

----------------------------------------------------------------------------
(* Requests and the page.                                                  *)

execute_live_perception_cycle ==
  /\ perc.phase \in {"idle", "done"}
  /\ \E deep, compat, target \in BOOLEAN, budget \in PerceptionBudgets :
       perc' = [IdleCycle EXCEPT !.phase = "plan", !.left = MaxPerceptionSteps,
                  !.req = [deep |-> deep, compat |-> compat, target |-> target, budget |-> budget]]
  /\ UNCHANGED <<percWorld, percBase>>

\* Events arrive and push older ones out; the page renders and navigates;
\* retained evidence beyond the last 64 is no longer looked at.
page_observed ==
  /\ \/ \E ev \in {{}, {"semantic", "layout"}, {"network", "console"}} :
          percWorld' = [percWorld EXCEPT !.events = ev]
     \/ \E r \in {"r1", "r2"} : percWorld' = [percWorld EXCEPT !.route = r]
     \/ percWorld.page < MaxPerceptionPages /\ percWorld' = [percWorld EXCEPT !.page = @ + 1]
     \/ percWorld' = [percWorld EXCEPT !.retained = {}]
  /\ percWorld' # percWorld
  /\ UNCHANGED <<perc, percBase>>

\* The latency of the next plan is the time that has passed.
time_passes ==
  /\ perc.phase = "plan" /\ ~perc.over
  /\ perc' = Clock(TRUE)
  /\ UNCHANGED <<percWorld, percBase>>

PerceptionNext ==
  \/ execute_live_perception_cycle \/ plan_observation \/ plan_is_empty \/ step_limit_response
  \/ acquire_fresh_semantic_snapshot \/ execute_region_capture \/ execute_compatibility_probe
  \/ executor_unavailable_response \/ page_observed \/ time_passes

PerceptionSpec == PerceptionInit /\ [][PerceptionNext]_percVars

----------------------------------------------------------------------------
(* Properties.                                                             *)

PerceptionTypeOK ==
  /\ perc.left \in 0..MaxPerceptionSteps
  /\ percWorld.page \in 1..MaxPerceptionPages
  /\ percBase \in 0..MaxPerceptionPages

\* A cycle starts one browser at most, although the route may change under
\* it and its own suspicion authorizes any overrun of the budget.
OneBrowserPerCycle == perc.browsers <= 1

\* A cycle counts its visual question as answered only on fresh, matching
\* native evidence: the answer of an older request never satisfies it.
VisualAnswerIsEvidence == perc.visual => perc.evidenced

\* A cycle that reports completion overran its budget only under a reason,
\* and charged every browser it started.
CompletedCyclesAreCharged ==
  perc.out = "no_op" =>
    /\ perc.spent.spawns = perc.browsers
    /\ exceeded_dimensions(perc.req.budget, perc.spent) # {} => perc.reason # "none"

\* A cycle claims no evidence and no thrift that it did not have.
CyclesAreHonest == VisualAnswerIsEvidence /\ OneBrowserPerCycle /\ CompletedCyclesAreCharged

=============================================================================
