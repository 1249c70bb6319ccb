--------------------------- MODULE RepairVerdicts ---------------------------
(***************************************************************************)
(* What a verification of a fix concludes from what it saw.                *)
(* apps/desktop/src-tauri/src/trusted_verify.rs compares the page before   *)
(* and after, crates/verification/src/autonomous.rs builds the receipts on *)
(* the shadow preflight, crates/contracts/src/autonomous.rs evaluates the  *)
(* contracts on partial evidence and crates/mutation/src/autonomous.rs     *)
(* runs the mutation challenges.                                           *)
(*                                                                         *)
(* The functions are pure; a step chooses an input and the invariants      *)
(* compare the results with what the input really was.                     *)
(***************************************************************************)
EXTENDS Integers, FiniteSets

VARIABLES
  vCase,   \* a fix: the page before and after, the frames, the shadow, the time
  vFacts   \* a page and the evidence about it, for the contracts

verdictVars == <<vCase, vFacts>>

-----------------------------------------------------------------------------
(***************************************************************************)
(* The comparison of the page before and after.                            *)
(***************************************************************************)
Fields == {"name", "geometry", "interactive"}

\* build_semantic_baseline: the selected node must be the only one with its
\* reference; the fingerprints are the errors and failed requests of the page.
build_semantic_baseline(page) ==
  IF page.nodes = 1 THEN [ok |-> TRUE, fields |-> [f \in Fields |-> page.fields[f]],
                          errors |-> page.errors, failures |-> page.failures]
                    ELSE [ok |-> FALSE]

compare_semantic_projection(before, after) ==
  {f \in Fields : before.fields[f] # after.fields[f]}

\* compare_issue_fingerprints: an error that happens more often, a new failure.
compare_issue_fingerprints(before, after) ==
  (IF after.errors > before.errors THEN {"new_console_error"} ELSE {})
  \cup (IF after.failures \subseteq before.failures THEN {} ELSE {"new_network_failure"})

\* target_union_pixels and crop_rgba: whether pixels of the target changed is
\* known only when both rectangles are known and overlap the viewport.
TargetChanged(frames) ==
  CASE frames.pixels = "target" /\ frames.rects -> {TRUE}
    [] frames.pixels # "target" /\ frames.rects -> {FALSE}
    [] OTHER -> {}

\* assess_visual_change: nothing is known without two frames of one viewport, and
\* every changed area is a region.
assess_visual_change(frames) ==
  IF frames.kind # "both" THEN [viewport |-> {}, target |-> {}, regions |-> 0]
  ELSE [viewport |-> {frames.pixels # "same"}, target |-> TargetChanged(frames),
        regions  |-> IF frames.pixels = "same" THEN 0 ELSE 1]

\* classify_verification_status.
classify_verification_status(changes, regressions, visual, scope, lost) ==
  IF regressions # {} \/ lost THEN "regression_signal"
  ELSE IF changes # {} \/ TRUE \in visual.target THEN "change_observed"
  ELSE IF scope = "semantic_visual" /\ (visual.viewport = {} \/ TRUE \in visual.viewport)
    THEN "inconclusive"
  ELSE "no_observable_change"

\* The observation verify_fix_change makes of a case, and hands on.
Observed(k) ==
  LET before  == build_semantic_baseline(k.before)
      after   == build_semantic_baseline(k.after)
      lost    == before.fields["interactive"] /\ ~after.fields["interactive"]
      changes == compare_semantic_projection(before, after)
      found   == compare_issue_fingerprints(before, after)
      visual  == assess_visual_change(k.frames)
      scope   == IF k.frames.kind = "none" THEN "semantic_only" ELSE "semantic_visual"
  IN  [status    |-> classify_verification_status(changes, found, visual, scope, lost),
       changed   |-> changes # {} \/ TRUE \in visual.target,
       signals   |-> found \cup (IF lost THEN {"target_became_non_interactive"} ELSE {}),
       regions   |-> visual.regions,
       intime    |-> k.intime]

-----------------------------------------------------------------------------
(***************************************************************************)
(* Contracts on partial evidence.                                          *)
(***************************************************************************)
\* Evidence is an item [stale, tainted, guessed, facts, complete]; the facts of an
\* item are selectors and issue codes, complete the domains it exhausts.
compile_fact_payload(item) == [facts |-> item.facts, complete |-> item.complete]

\* compile_runtime_facts: stale, tainted and non-authoritative items are left out.
compile_runtime_facts(evidence) ==
  LET used == {compile_fact_payload(i) : i \in {e \in evidence :
                 ~e.stale /\ ~e.tainted /\ ~e.guessed}}
  IN  [facts    |-> UNION {p.facts : p \in used},
       complete |-> UNION {p.complete : p \in used}]

\* A contract [kind, fact]; evaluate takes the facts for the whole truth.
evaluate(contract, facts) ==
  LET holds == CASE contract.kind = "exists" -> contract.fact \in facts
                 [] contract.kind = "not_exists" -> contract.fact \notin facts
                 [] contract.kind = "no_issue_code" -> contract.fact \notin facts
  IN  IF holds THEN "pass" ELSE "fail"

Domain(contract) == IF contract.kind = "no_issue_code" THEN "issue_codes" ELSE "selectors"

\* decisive_partial_result: one fact settles the contract, whatever else is unknown.
decisive_partial_result(contract, live) ==
  IF contract.fact \notin live.facts THEN {}
  ELSE {IF contract.kind = "exists" THEN "pass" ELSE "fail"}

\* evaluate_live_contract, without an approved exception.
evaluate_live_contract(contract, live) ==
  IF decisive_partial_result(contract, live) # {}
    THEN CHOOSE v \in decisive_partial_result(contract, live) : TRUE
  ELSE IF Domain(contract) \notin live.complete THEN "unknown"
  ELSE evaluate(contract, live.facts)

\* predicates_conflict: contracts of one scope that no page satisfies.
predicates_conflict(a, b) ==
  a.fact = b.fact /\ {a.kind, b.kind} = {"exists", "not_exists"}

\* compile_autonomous_subset: nothing is evaluated when two contracts conflict.
compile_autonomous_subset(contracts) ==
  IF \E a, b \in contracts : predicates_conflict(a, b) THEN {} ELSE contracts

\* evaluate_compiled_contracts, for contracts that are all hard.
evaluate_compiled_contracts(contracts, live) ==
  [hard_failures |-> {k \in contracts : evaluate_live_contract(k, live) = "fail"},
   hard_unknowns |-> {k \in contracts : evaluate_live_contract(k, live) = "unknown"}]

RegressionCodes == {"new_console_error", "new_network_failure", "target_became_non_interactive"}

\* production_contract_summary: the reviewed change was observed (a metric, unknown
\* while the status is inconclusive) and no regression code is present.
production_contract_summary(o) ==
  LET codes == {[kind |-> "no_issue_code", fact |-> x] : x \in RegressionCodes}
      live  == [facts |-> o.signals, complete |-> {"issue_codes"}]
      rest  == evaluate_compiled_contracts(compile_autonomous_subset(codes), live)
  IN  [hard_failures |-> rest.hard_failures
         \cup (IF o.status \in {"no_observable_change", "regression_signal"}
                 THEN {[kind |-> "metric", fact |-> "observable_change"]} ELSE {}),
       hard_unknowns |-> rest.hard_unknowns
         \cup (IF o.status = "inconclusive"
                 THEN {[kind |-> "metric", fact |-> "observable_change"]} ELSE {})]

-----------------------------------------------------------------------------
(***************************************************************************)
(* Mutation challenges, on the synthetic state of the selected target.     *)
(***************************************************************************)
SyntheticState == [geometry |-> 0, name |-> "action"]
ProductionChallenges ==
  {[operator |-> "shift", expected |-> {"geometry_changed"}],
   [operator |-> "remove_accessible_name", expected |-> {"name_changed"}]}

\* wave9_policy_allows, under the default policy: overlays yes, network faults no.
wave9_policy_allows(case) ==
  case.expected # {} /\ case.operator \notin {"force_http_status", "force_timeout"}

apply_operator(state, operator) ==
  CASE operator = "shift" -> [state EXCEPT !.geometry = 1]
    [] operator = "remove_accessible_name" -> [state EXCEPT !.name = "none"]
    [] OTHER -> state

\* execute_mutation_challenge with the two detectors, and evaluate_mutation.
execute_mutation_challenge(case) ==
  LET after     == apply_operator(SyntheticState, case.operator)
      triggered == {d \in {"geometry_changed", "name_changed"} :
                      IF d = "geometry_changed" THEN after.geometry # SyntheticState.geometry
                                                ELSE after.name # SyntheticState.name}
  IN  IF ~wave9_policy_allows(case) THEN (IF case.expected = {} THEN "invalid" ELSE "skipped_unsafe")
      ELSE IF case.expected \cap triggered # {} THEN "killed" ELSE "survived"

production_mutation_challenges == {execute_mutation_challenge(c) : c \in ProductionChallenges}

-----------------------------------------------------------------------------
(***************************************************************************)
(* Receipts.                                                               *)
(***************************************************************************)
\* bind_production_affected_state: one route and one reference, with neither a
\* complete dependency graph nor a known denominator.
bind_production_affected_state ==
  [targets |-> {"route", "reference"}, states |-> {"route+reference"},
   denominator_known |-> FALSE, dependency_graph_complete |-> FALSE]

\* compile_affected_state_plan and build_plan: why the plan is incomplete.  The one
\* combination of the two dimensions is never truncated.
build_plan(input) ==
  [targets |-> input.targets, states |-> input.states,
   denominator_known |-> input.denominator_known,
   incomplete |-> ~input.dependency_graph_complete \/ ~input.denominator_known]

\* plan_partial_revalidation without a known universe.
plan_partial_revalidation(plan) ==
  [state_keys |-> plan.states,
   complete_claim_allowed |-> plan.denominator_known /\ ~plan.incomplete]

\* ShadowWorkspace::proof and cleanup of the preflight of the case.
ShadowProof(k) == [unchanged |-> k.shadow = "unchanged", proven |-> k.shadow = "unchanged"]

\* What changed, as build_production_observation_receipt names it.
ActualTargets(o) ==
  (IF o.changed THEN {"route", "reference"} ELSE {})
  \cup (IF o.regions > 0 THEN {"visual_region"} ELSE {})
  \cup o.signals

\* compare_predicted_actual: what was not seen is inconclusive unless the
\* observation is complete.
compare_predicted_actual(predicted, actual, complete) ==
  [unexpected   |-> actual \ predicted,
   inconclusive |-> IF complete THEN {} ELSE predicted \ actual]

\* VerificationResourceBudget::within_budget and VerificationCleanupProof::complete.
WithinBudget(o) == o.intime
CleanupComplete(proof) == proof.unchanged

\* Flag(x, b) is the reason x when b holds.
Flag(x, b) == IF b THEN {x} ELSE {}

\* The verdict of a receipt: what rejects it comes first.
Verdict(rejected, inconclusive) ==
  IF rejected THEN "rejected" ELSE IF inconclusive THEN "inconclusive" ELSE "verified"

\* build_autonomous_receipt: the reasons, and the verdict computed apart from them.
build_autonomous_receipt(o, proof, plan) ==
  LET contracts  == production_contract_summary(o)
      impact     == compare_predicted_actual(plan.targets, ActualTargets(o), o.status # "inconclusive")
      mutations  == production_mutation_challenges
      revalidate == plan_partial_revalidation(plan)
      rejected   == ~proof.unchanged \/ contracts.hard_failures # {} \/ ~CleanupComplete(proof)
      inconclusive == \/ contracts.hard_unknowns # {} \/ mutations # {"killed"}
                      \/ impact.unexpected # {} \/ impact.inconclusive # {}
                      \/ ~revalidate.complete_claim_allowed
                      \/ ~plan.denominator_known \/ plan.incomplete
                      \/ ~WithinBudget(o) \/ ~proof.proven
  IN  [contracts |-> contracts, impact |-> impact, mutations |-> mutations, proof |-> proof,
       verdict |-> Verdict(rejected, inconclusive),
       reasons |-> Flag("worktree", ~proof.unchanged) \cup Flag("containment", ~proof.proven)
                   \cup Flag("hard_failures", contracts.hard_failures # {})
                   \cup Flag("hard_unknowns", contracts.hard_unknowns # {})
                   \cup Flag("mutations", mutations # {"killed"})
                   \cup Flag("unexpected", impact.unexpected # {})
                   \cup Flag("inconclusive", impact.inconclusive # {})
                   \cup Flag("coverage", ~revalidate.complete_claim_allowed)
                   \cup Flag("denominator", ~plan.denominator_known)
                   \cup Flag("incomplete", plan.incomplete)
                   \cup Flag("budget", ~WithinBudget(o))
                   \cup Flag("cleanup", ~CleanupComplete(proof))]

\* Mutant: impact outside the prediction is reported and not counted.
bounded_ignoring_unexpected(o, receipt) ==
  LET rejected == \/ o.status \in {"no_observable_change", "regression_signal"}
                  \/ receipt.contracts.hard_failures # {} \/ ~CleanupComplete(receipt.proof)
      inconclusive == ~o.changed \/ o.status = "inconclusive" \/ ~WithinBudget(o)
                      \/ ~receipt.proof.proven \/ receipt.impact.inconclusive # {}
  IN  [verdict |-> Verdict(rejected, inconclusive),
       reasons |-> Flag("target", ~o.changed) \cup Flag("status", o.status # "change_observed")
                   \cup Flag("unexpected", receipt.impact.unexpected # {})
                   \cup Flag("budget", ~WithinBudget(o))
                   \cup Flag("containment", ~receipt.proof.proven)
                   \cup Flag("cleanup", ~CleanupComplete(receipt.proof))]

\* build_bounded_target_verification: the claim about the selected target on the
\* current route, which the open scope of the plan does not weaken.
build_bounded_target_verification(o, receipt) ==
  LET rejected == \/ o.status \in {"no_observable_change", "regression_signal"}
                  \/ receipt.contracts.hard_failures # {} \/ ~CleanupComplete(receipt.proof)
      inconclusive == \/ ~o.changed \/ o.status = "inconclusive"
                      \/ receipt.contracts.hard_unknowns # {} \/ receipt.mutations # {"killed"}
                      \/ ~receipt.proof.proven \/ ~WithinBudget(o)
                      \/ receipt.impact.unexpected # {} \/ receipt.impact.inconclusive # {}
  IN  [verdict |-> Verdict(rejected, inconclusive),
       reasons |-> Flag("target", ~o.changed) \cup Flag("status", o.status # "change_observed")
                   \cup Flag("hard_failures", receipt.contracts.hard_failures # {})
                   \cup Flag("hard_unknowns", receipt.contracts.hard_unknowns # {})
                   \cup Flag("mutations", receipt.mutations # {"killed"})
                   \cup Flag("containment", ~receipt.proof.proven)
                   \cup Flag("cleanup", ~CleanupComplete(receipt.proof))
                   \cup Flag("budget", ~WithinBudget(o))
                   \cup Flag("unexpected", receipt.impact.unexpected # {})
                   \cup Flag("inconclusive", receipt.impact.inconclusive # {})]

\* build_production_observation_receipt, a set of at most one receipt: without a
\* shadow proof there is none.
build_production_observation_receipt(k) ==
  IF k.shadow = "unavailable" THEN {}
  ELSE LET o == Observed(k)
           r == build_autonomous_receipt(o, ShadowProof(k), build_plan(bind_production_affected_state))
       IN  {[receipt |-> r, bounded |-> build_bounded_target_verification(o, r)]}

\* validate_wave9_verified_handoff: what a receipt must say to authorise a change.
validate_wave9_verified_handoff(r) ==
  /\ r.verdict = "verified" /\ CleanupComplete(r.proof) /\ r.proof.proven
  /\ r.contracts.hard_failures = {} /\ r.contracts.hard_unknowns = {}
  /\ "survived" \notin r.mutations
  /\ r.impact.unexpected = {} /\ r.impact.inconclusive = {}

-----------------------------------------------------------------------------
ExaminedPages == [nodes : {1, 2}, fields : [Fields -> BOOLEAN], errors : 0..1,
          failures : SUBSET {"/api"}]
BeforePage == [nodes |-> 1, fields |-> [f \in Fields |-> f = "interactive"],
               errors |-> 0, failures |-> {}]
Frames == [kind : {"none", "before", "both"}, pixels : {"same", "target", "elsewhere"},
           rects : BOOLEAN]
Cases == [before : {BeforePage, [BeforePage EXCEPT !.errors = 1, !.failures = {"/api"}]},
          after : ExaminedPages, frames : Frames,
          shadow : {"unavailable", "unchanged", "changed"}, intime : BOOLEAN]

Truths == SUBSET {"panel", "code"}
Items(truth) == {i \in [stale : BOOLEAN, tainted : {FALSE}, guessed : BOOLEAN,
                        facts : SUBSET {"panel", "code"}, complete : SUBSET {"selectors", "issue_codes"}] :
                   \* an item that is current and observed tells the truth
                   ~i.stale /\ ~i.guessed =>
                     /\ i.facts \subseteq truth
                     /\ "selectors" \in i.complete => ("panel" \in truth => "panel" \in i.facts)
                     /\ "issue_codes" \in i.complete => ("code" \in truth => "code" \in i.facts)}
Contracts == {[kind |-> "exists", fact |-> "panel"], [kind |-> "not_exists", fact |-> "panel"],
              [kind |-> "no_issue_code", fact |-> "code"]}

VerdictInit == vCase = {} /\ vFacts = {}

verify_a_case == (\E k \in Cases : vCase' = {k}) /\ UNCHANGED vFacts
weigh_evidence ==
  /\ \E t \in Truths : \E i, j \in Items(t) : vFacts' = {[truth |-> t, evidence |-> {i, j}]}
  /\ UNCHANGED vCase

\* One input is judged at a time.
VerdictNext == vCase = {} /\ vFacts = {} /\ (verify_a_case \/ weigh_evidence)

VerdictSpec == VerdictInit /\ [][VerdictNext]_verdictVars

-----------------------------------------------------------------------------
\* The receipts of the case in hand, when its target can still be selected.
Receipts(k) == IF build_semantic_baseline(k.after).ok THEN build_production_observation_receipt(k)
                                                      ELSE {}

\* A fix reported as verified for its target really changed the target and nothing
\* else: no error or failure that was not there before, still interactive, no pixel
\* changed unless the page itself says so, the real worktree untouched, in time.
VerifiedFixIsSound ==
  \A k \in vCase : \A r \in Receipts(k) :
    r.bounded.verdict = "verified" =>
      /\ k.after.fields # k.before.fields
      /\ k.after.fields["interactive"] \/ ~k.before.fields["interactive"]
      /\ k.after.errors <= k.before.errors /\ k.after.failures \subseteq k.before.failures
      /\ k.frames.kind = "both" => k.frames.pixels = "same"
      /\ k.shadow = "unchanged" /\ k.intime

\* Each receipt explains itself: the reasons and the verdict are computed apart,
\* and a verdict other than verified has a reason while a verified one has none.
\* Only a receipt whose verdict is verified passes the handoff.
ReceiptsExplainThemselves ==
  \A k \in vCase : \A r \in Receipts(k) :
    /\ (r.receipt.verdict = "verified") = (r.receipt.reasons = {})
    /\ (r.bounded.verdict = "verified") = (r.bounded.reasons = {})
    /\ validate_wave9_verified_handoff(r.receipt) => r.bounded.verdict = "verified"

\* Contracts judged on partial evidence are never wrong: whatever is not unknown is
\* what the whole page would have said.
ContractVerdictsAreSound ==
  \A x \in vFacts : \A k \in Contracts :
    evaluate_live_contract(k, compile_runtime_facts(x.evidence))
      \in {"unknown", evaluate(k, x.truth)}

\* What the repair says of a fix and of a contract is so, and explained.
VerdictsAreSound == VerifiedFixIsSound /\ ReceiptsExplainThemselves /\ ContractVerdictsAreSound
=============================================================================
