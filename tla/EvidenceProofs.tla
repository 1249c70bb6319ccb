---------------------------- MODULE EvidenceProofs ----------------------------
(***************************************************************************)
(* Proofs about what an observation, an effect and a repair are worth: the *)
(* perception cycle (Perception), the Windows provider (WindowsUia), the   *)
(* trusted repair (Repair), its verdicts (RepairVerdicts) and its edits    *)
(* (FixEdits), the headless gate (Headless), and the semantic contracts of *)
(* consequential actions (Postconditions).                                 *)
(***************************************************************************)
EXTENDS Perception, WindowsUia, Repair, RepairVerdicts, FixEdits, Headless, Postconditions,
        FiniteSetTheorems, SequenceTheorems, WellFoundedInduction, TLAPS

-----------------------------------------------------------------------------
(* The perception cycle.                                                   *)

Usages == [latency : Nat, tokens : Nat, regions : Nat, spawns : Nat]
Requests == [deep : BOOLEAN, compat : BOOLEAN, target : BOOLEAN, budget : PerceptionBudgets]
Executing == {"snapshot", "region", "network", "console", "chromium"}

Codes == {"none", "no_op", "engine_admission_failed", "resource_denied", "budget_exhausted",
          "budget_exceeded", "step_limit", "snapshot_timeout", "invalid_snapshot", "native_timeout",
          "evidence_missing", "executor_unavailable", "browser_failed"}

\* What the fields of a cycle hold.
Cycles ==
  [phase : {"idle", "plan", "done"} \cup Executing, req : Requests \cup {"none"},
   spent : Usages, forecast : Usages, visual : BOOLEAN, evidenced : BOOLEAN,
   left : 0..MaxPerceptionSteps, reason : {"none", "deep", "insufficient", "browser"},
   over : BOOLEAN, browsers : Nat, out : Codes]

CycleTyped ==
  /\ perc \in Cycles
  /\ perc.phase \in Executing \cup {"plan"} => perc.req \in Requests
  /\ perc.phase \in Executing => perc.left > 0

\* The world around it.
WorldTyped ==
  /\ percWorld \in [events : SUBSET {"semantic", "layout", "network", "console"},
                    retained : SUBSET {"semantic", "layout"}, probed : SUBSET {"base", "r1", "r2"},
                    route : {"none", "r1", "r2"}, page : 1..MaxPerceptionPages]
  /\ percBase \in 0..MaxPerceptionPages

\* A browser is charged when it was started, neither earlier nor later; the
\* forecast of a snapshot, which becomes its charge, counts none; and a plan for
\* a browser is admitted by the engine only while none was charged.
BrowsersAreCharged ==
  /\ perc.spent.spawns = perc.browsers
  /\ perc.phase = "snapshot" => perc.forecast.spawns = perc.spent.spawns
  /\ perc.phase = "chromium" => perc.spent.spawns = 0

\* Only a cycle that is over has an answer.
AnswersAreLast == perc.out # "none" => perc.phase = "done"

CycleInv ==
  /\ CycleTyped /\ WorldTyped /\ BrowsersAreCharged /\ AnswersAreLast
  /\ CyclesAreHonest
\* Adding up usage, one dimension at a time.
LEMMA PlusUsage ==
  ASSUME NEW u \in Usages, NEW l \in Nat, NEW t \in Nat, NEW r \in Nat, NEW c \in Nat
  PROVE  /\ Plus(u, Usage(l, t, r, c)) \in Usages
         /\ Plus(u, Usage(l, t, r, c)).spawns = u.spawns + c
<1>1. DOMAIN u = {"latency", "tokens", "regions", "spawns"}
  BY DEF Usages
<1>2. Plus(u, Usage(l, t, r, c))
        = [latency |-> u.latency + l, tokens |-> u.tokens + t,
           regions |-> u.regions + r, spawns |-> u.spawns + c]
  BY <1>1 DEF Plus, Usage, Usages
<1> QED
  BY <1>2 DEF Usages

\* A captured region adds no spawn.
LEMMA RegionUsage ==
  ASSUME NEW u \in Usages, NEW t \in {0, 180}
  PROVE  Plus(u, Usage(0, t, 1, 0)) \in Usages /\ Plus(u, Usage(0, t, 1, 0)).spawns = u.spawns
<1>1. PICK zero \in Nat : zero = 0
  OBVIOUS
<1>2. PICK one \in Nat : one = 1
  OBVIOUS
<1>3. PICK tokens \in Nat : tokens = t
  OBVIOUS
<1>4. /\ Plus(u, Usage(zero, tokens, one, zero)) \in Usages
      /\ Plus(u, Usage(zero, tokens, one, zero)).spawns = u.spawns + zero
  BY PlusUsage
<1>5. u.spawns \in Nat
  BY DEF Usages
<1> QED
  BY <1>1, <1>2, <1>3, <1>4, <1>5

\* One browser adds one spawn.
LEMMA ProbeUsage ==
  ASSUME NEW u \in Usages
  PROVE  Plus(u, Usage(0, 0, 0, 1)) \in Usages /\ Plus(u, Usage(0, 0, 0, 1)).spawns = u.spawns + 1
<1>1. PICK zero \in Nat : zero = 0
  OBVIOUS
<1>2. PICK one \in Nat : one = 1
  OBVIOUS
<1>3. /\ Plus(u, Usage(zero, zero, zero, one)) \in Usages
      /\ Plus(u, Usage(zero, zero, zero, one)).spawns = u.spawns + one
  BY PlusUsage
<1> QED
  BY <1>1, <1>2, <1>3

\* Every candidate is one of five kinds, of a known usage.
LEMMA CandidateShape ==
  ASSUME NEW c \in derive_candidates
  PROVE  /\ c.kind \in Executing
         /\ c.usage \in Usages
         /\ c.usage.spawns = (IF c.kind = "chromium" THEN 1 ELSE 0)
         /\ \A u \in Usages : /\ Plus(u, c.usage) \in Usages
                              /\ Plus(u, c.usage).spawns = u.spawns + c.usage.spawns
<1>1. PICK k \in Executing, l \in Nat, t \in Nat, r \in Nat, n \in {0, 1} :
        c = [kind |-> k, usage |-> Usage(l, t, r, n)] /\ n = (IF k = "chromium" THEN 1 ELSE 0)
  <2>1. \/ c = [kind |-> "snapshot", usage |-> Usage(120, 120, 0, 0)]
        \/ c = [kind |-> "region", usage |-> Usage(300, 180, 1, 0)]
        \/ c = [kind |-> "network", usage |-> Usage(160, 220, 0, 0)]
        \/ c = [kind |-> "console", usage |-> Usage(120, 180, 0, 0)]
        \/ c = [kind |-> "chromium", usage |-> Usage(500, 200, 0, 1)]
    BY DEF derive_candidates
  <2> QED
    BY <2>1 DEF Executing
<1>2. c.usage \in Usages /\ c.usage.spawns = n
  BY <1>1 DEF Usage, Usages
<1>3. \A u \in Usages : /\ Plus(u, c.usage) \in Usages
                        /\ Plus(u, c.usage).spawns = u.spawns + c.usage.spawns
  <2> SUFFICES ASSUME NEW u \in Usages
               PROVE  Plus(u, c.usage) \in Usages /\ Plus(u, c.usage).spawns = u.spawns + c.usage.spawns
    OBVIOUS
  <2>1. c.usage = Usage(l, t, r, n) /\ n \in Nat
    BY <1>1
  <2>2. Plus(u, Usage(l, t, r, n)) \in Usages /\ Plus(u, Usage(l, t, r, n)).spawns = u.spawns + n
    BY <2>1, PlusUsage
  <2> QED
    BY <1>2, <2>1, <2>2
<1> QED
  BY <1>1, <1>2, <1>3

\* An error response is a cycle that is over and claims nothing.
LEMMA FailureIsHonest ==
  ASSUME PerceptionAssumption, NEW out \in Codes \ {"no_op"}, perc' = Failure(out), WorldTyped'
  PROVE  CycleInv'
<1>1. perc' = [phase |-> "done", req |-> "none", spent |-> ZeroUsage, forecast |-> ZeroUsage,
               visual |-> FALSE, evidenced |-> FALSE, left |-> 0, reason |-> "none", over |-> FALSE,
               browsers |-> 0, out |-> out]
  BY DEF Failure, IdleCycle
<1>2. ZeroUsage \in Usages /\ ZeroUsage.spawns = 0
  BY DEF ZeroUsage, Usage, Usages
<1>3. CycleTyped'
  BY <1>1, <1>2 DEF CycleTyped, Cycles, Codes, Executing, PerceptionAssumption
<1>4. BrowsersAreCharged' /\ AnswersAreLast'
  BY <1>1, <1>2 DEF BrowsersAreCharged, AnswersAreLast
<1> QED
  BY <1>1, <1>2, <1>3, <1>4
  DEF CycleInv, CyclesAreHonest, OneBrowserPerCycle, VisualAnswerIsEvidence, CompletedCyclesAreCharged

\* The tail of the loop body: a charged step leaves a cycle that plans again.
LEMMA ChargedCycle ==
  ASSUME PerceptionAssumption, NEW r \in Cycles, NEW bill \in Usages, NEW over \in BOOLEAN,
         r.req \in Requests, r.left > 0, r.out = "none",
         r.visual => r.evidenced, bill.spawns = r.browsers, r.browsers <= 1,
         perc' = [r EXCEPT !.spent = bill, !.forecast = ZeroUsage,
                           !.over = over, !.left = r.left - 1, !.phase = "plan"],
         WorldTyped'
  PROVE  CycleInv'
<1>2. perc' = [phase |-> "plan", req |-> r.req, spent |-> bill, forecast |-> ZeroUsage,
               visual |-> r.visual, evidenced |-> r.evidenced, left |-> r.left - 1,
               reason |-> r.reason, over |-> over, browsers |-> r.browsers, out |-> r.out]
  BY DEF Cycles
<1>3. ZeroUsage \in Usages
  BY DEF ZeroUsage, Usage, Usages
<1>4. r.left - 1 \in 0..MaxPerceptionSteps
  BY PerceptionAssumption DEF PerceptionAssumption, Cycles
<1>5. perc' \in Cycles
  BY <1>2, <1>3, <1>4 DEF Cycles
<1>6. /\ perc'.spent = bill /\ perc'.browsers = r.browsers /\ perc'.out = "none"
      /\ perc'.phase = "plan" /\ perc'.req = r.req
      /\ perc'.visual => perc'.evidenced
  <2>1. perc'.spent = bill
    BY <1>2
  <2>5. perc'.out = "none"
    BY <1>2
  <2>4. perc'.browsers = r.browsers
    BY <1>2
  <2>2. perc'.phase = "plan" /\ perc'.req = r.req
    BY <1>2
  <2>3. perc'.visual => perc'.evidenced
    BY <1>2
  <2> QED
    BY <2>1, <2>2, <2>3, <2>4, <2>5
<1>7. CycleTyped'
  BY <1>5, <1>6 DEF CycleTyped, Executing
<1>8. BrowsersAreCharged' /\ AnswersAreLast'
  BY <1>6 DEF BrowsersAreCharged, AnswersAreLast
<1>9. VisualAnswerIsEvidence' /\ OneBrowserPerCycle' /\ CompletedCyclesAreCharged'
  BY <1>6 DEF OneBrowserPerCycle, VisualAnswerIsEvidence, CompletedCyclesAreCharged
<1> QED
  BY <1>7, <1>8, <1>9 DEF CycleInv, CyclesAreHonest

\* charge: the spawns are those of the usage, whatever the clock says, and a
\* charge the budget does not allow ends the cycle.
LEMMA ChargeIsHonest ==
  ASSUME PerceptionAssumption, NEW r \in Cycles, NEW usage \in Usages, NEW late \in BOOLEAN,
         r.req \in Requests, r.left > 0, r.out = "none",
         r.visual => r.evidenced, usage.spawns = r.browsers, r.browsers <= 1,
         perc' = charge(r, usage, late), WorldTyped'
  PROVE  CycleInv'
<1> DEFINE over    == r.over \/ late
           latency == IF over THEN r.req.budget.latency + 1 ELSE 0
<1>1. r.req.budget.latency \in Nat
  BY PerceptionAssumption DEF Requests, PerceptionAssumption
<1>2. latency \in Nat /\ over \in BOOLEAN
  BY <1>1
<1>3. \/ perc' = Failure("budget_exceeded")
      \/ perc' = [r EXCEPT !.spent = [usage EXCEPT !.latency = latency], !.forecast = ZeroUsage,
                           !.over = over, !.left = r.left - 1, !.phase = "plan"]
  BY DEF charge
<1> HIDE DEF over, latency
<1> DEFINE bill == [usage EXCEPT !.latency = latency]
<1>4. bill \in Usages /\ bill.spawns = usage.spawns
  BY <1>2 DEF Usages
<1>5. \/ perc' = Failure("budget_exceeded")
      \/ perc' = [r EXCEPT !.spent = bill, !.forecast = ZeroUsage,
                           !.over = over, !.left = r.left - 1, !.phase = "plan"]
  BY <1>3
<1> HIDE DEF bill
<1> QED
  BY <1>2, <1>4, <1>5, FailureIsHonest, ChargedCycle DEF Codes

\* Answer: an error of any kind, or a cycle that is completed.
LEMMA AnswerIsHonest ==
  ASSUME PerceptionAssumption, CycleInv, perc.req \in Requests, NEW out \in Codes, Answer(out),
         out = "no_op" =>
           (exceeded_dimensions(perc.req.budget, perc.spent) # {} => perc.reason # "none")
  PROVE  CycleInv'
<1>1. WorldTyped'
  BY DEF Answer, CycleInv, WorldTyped
<1>2. CASE out # "no_op"
  BY <1>1, <1>2, FailureIsHonest DEF Answer
<1>3. CASE out = "no_op"
  <2>1. perc' = [perc EXCEPT !.phase = "done", !.out = "no_op"]
    BY <1>3 DEF Answer
  <2>2. CycleTyped'
    BY <2>1 DEF CycleInv, CycleTyped, Cycles, Codes, Executing
  <2>3. /\ perc'.spent = perc.spent /\ perc'.browsers = perc.browsers /\ perc'.visual = perc.visual
        /\ perc'.evidenced = perc.evidenced /\ perc'.reason = perc.reason /\ perc'.req = perc.req
        /\ perc'.phase = "done"
    BY <2>1 DEF CycleInv, CycleTyped, Cycles
  <2>4. BrowsersAreCharged' /\ AnswersAreLast'
    BY <2>3 DEF CycleInv, BrowsersAreCharged, AnswersAreLast
  <2>5. CompletedCyclesAreCharged'
    BY <1>3, <2>3 DEF CycleInv, BrowsersAreCharged, CompletedCyclesAreCharged, exceeded_dimensions
  <2> QED
    BY <1>1, <2>2, <2>3, <2>4, <2>5
    DEF CycleInv, CyclesAreHonest, OneBrowserPerCycle, VisualAnswerIsEvidence
<1> QED
  BY <1>2, <1>3
\* Planning: the candidate that is executed, or the answer there is none.
LEMMA PlanKeepsCycles ==
  ASSUME PerceptionAssumption, CycleInv, plan_observation
  PROVE  CycleInv'
<1>1. /\ perc \in Cycles /\ perc.phase = "plan" /\ perc.left > 0 /\ perc.req \in Requests
      /\ perc.spent \in Usages
  BY DEF plan_observation, CycleInv, CycleTyped, Cycles
<1>2. PICK c \in Admissible :
        \/ /\ choose_engine_authorized(c)
           /\ perc' = [perc EXCEPT !.phase = c.kind, !.forecast = Plus(perc.spent, c.usage),
                                   !.reason = perception_escalation_reason(c.kind)]
           /\ UNCHANGED <<percWorld, percBase>>
        \/ ~choose_engine_authorized(c) /\ Answer("engine_admission_failed")
        \/ c.kind = "chromium" /\ Answer("resource_denied")
  BY DEF plan_observation
<1>3. c \in derive_candidates
  BY DEF Admissible
<1>4. CASE Answer("engine_admission_failed") \/ Answer("resource_denied")
  BY <1>1, <1>4, AnswerIsHonest DEF Codes
<1>5. CASE /\ choose_engine_authorized(c)
           /\ perc' = [perc EXCEPT !.phase = c.kind, !.forecast = Plus(perc.spent, c.usage),
                                   !.reason = perception_escalation_reason(c.kind)]
           /\ UNCHANGED <<percWorld, percBase>>
  <2> DEFINE kind == c.kind
             plan == Plus(perc.spent, c.usage)
             why  == perception_escalation_reason(c.kind)
  <2>1. /\ kind \in Executing /\ plan \in Usages
        /\ plan.spawns = perc.spent.spawns + (IF kind = "chromium" THEN 1 ELSE 0)
    BY <1>1, <1>3, CandidateShape
  <2>2. why \in {"none", "deep", "insufficient", "browser"}
    BY DEF perception_escalation_reason
  <2>3. kind = "chromium" => plan.spawns = 1
    BY <1>5 DEF choose_engine_authorized
  <2>4. perc' = [perc EXCEPT !.phase = kind, !.forecast = plan, !.reason = why]
    BY <1>5
  <2> HIDE DEF kind, plan, why
  <2>5. /\ perc'.phase = kind /\ perc'.forecast = plan /\ perc'.spent = perc.spent
        /\ perc'.browsers = perc.browsers /\ perc'.out = perc.out /\ perc'.left = perc.left
        /\ perc'.req = perc.req
    BY <1>1, <2>4 DEF Cycles
  <2>6. perc' \in Cycles
    BY <1>1, <2>1, <2>2, <2>4 DEF Cycles
  <2>7. CycleTyped'
    BY <1>1, <2>5, <2>6 DEF CycleTyped
  <2>8. WorldTyped'
    BY <1>5 DEF CycleInv, WorldTyped
  <2>9. perc.spent.spawns \in Nat /\ perc.spent.spawns = perc.browsers /\ perc.out = "none"
    BY <1>1 DEF CycleInv, BrowsersAreCharged, AnswersAreLast, Usages
  <2>10. BrowsersAreCharged' /\ AnswersAreLast'
    BY <2>1, <2>3, <2>5, <2>9 DEF BrowsersAreCharged, AnswersAreLast
  <2>11. perc'.visual => perc'.evidenced
    BY <1>1, <2>4 DEF CycleInv, CyclesAreHonest, VisualAnswerIsEvidence, Cycles
  <2> QED
    BY <2>5, <2>7, <2>8, <2>9, <2>10, <2>11
    DEF CycleInv, CyclesAreHonest, OneBrowserPerCycle, VisualAnswerIsEvidence, CompletedCyclesAreCharged
<1> QED
  BY <1>2, <1>4, <1>5

\* A cycle in one of its steps.
LEMMA StepShape ==
  ASSUME PerceptionAssumption, CycleInv, perc.phase \in Executing \cup {"plan"}
  PROVE  /\ perc \in Cycles /\ perc.req \in Requests /\ perc.out = "none"
         /\ perc.spent \in Usages /\ perc.forecast \in Usages /\ perc.browsers \in Nat
         /\ perc.spent.spawns = perc.browsers /\ perc.browsers <= 1
         /\ perc.visual => perc.evidenced
         /\ perc.phase \in Executing => perc.left > 0
BY DEF CycleInv, CycleTyped, Cycles, Executing, BrowsersAreCharged, AnswersAreLast,
       CyclesAreHonest, OneBrowserPerCycle, VisualAnswerIsEvidence

\* A plan that is empty completes the cycle only within the budget or a reason.
LEMMA EmptyPlanKeepsCycles ==
  ASSUME PerceptionAssumption, CycleInv, plan_is_empty \/ step_limit_response
  PROVE  CycleInv'
<1>1. perc.phase = "plan"
  BY DEF plan_is_empty, step_limit_response
<1>2. perc.req \in Requests
  BY <1>1, StepShape
<1>3. CASE step_limit_response
  BY <1>2, <1>3, AnswerIsHonest DEF step_limit_response, Codes
<1>4. CASE plan_is_empty
  <2> DEFINE allowed == evaluate_perception_budget(perc.req.budget, perc.spent, perc.reason)
  <2>1. \/ Answer("budget_exhausted") \/ Answer("budget_exceeded")
        \/ allowed /\ Answer("no_op")
    BY <1>4 DEF plan_is_empty
  <2>2. allowed => (exceeded_dimensions(perc.req.budget, perc.spent) # {} => perc.reason # "none")
    BY DEF evaluate_perception_budget
  <2> QED
    BY <1>2, <2>1, <2>2, AnswerIsHonest DEF Codes
<1> QED
  BY <1>3, <1>4

\* The evidence a snapshot leaves behind.
LEMMA SnapshotKeepsCycles ==
  ASSUME PerceptionAssumption, CycleInv, acquire_fresh_semantic_snapshot
  PROVE  CycleInv'
<1>1. perc.phase = "snapshot"
  BY DEF acquire_fresh_semantic_snapshot
<1>2. /\ perc \in Cycles /\ perc.req \in Requests /\ perc.out = "none" /\ perc.left > 0
      /\ perc.forecast \in Usages /\ perc.browsers <= 1
      /\ perc.visual => perc.evidenced
      /\ perc.forecast.spawns = perc.browsers
  BY <1>1, StepShape DEF Executing, CycleInv, BrowsersAreCharged
<1>3. CASE Answer("snapshot_timeout")
  BY <1>2, <1>3, AnswerIsHonest DEF Codes
<1>4. ASSUME NEW valid \in BOOLEAN, NEW late \in BOOLEAN,
             percWorld' = [percWorld EXCEPT !.retained = {"semantic", "layout"}],
             perc' = IF valid THEN charge(perc, perc.forecast, late) ELSE Failure("invalid_snapshot"),
             UNCHANGED percBase
      PROVE  CycleInv'
  <2>1. WorldTyped'
    BY <1>4 DEF CycleInv, WorldTyped
  <2>2. CASE valid
    <3>1. perc' = charge(perc, perc.forecast, late)
      BY <1>4, <2>2
    <3> QED
      BY <1>2, <2>1, <3>1, ChargeIsHonest
  <2>3. CASE ~valid
    <3>1. perc' = Failure("invalid_snapshot")
      BY <1>4, <2>3
    <3> QED
      BY <2>1, <3>1, FailureIsHonest DEF Codes
  <2> QED
    BY <2>2, <2>3
<1> QED
  BY <1>3, <1>4 DEF acquire_fresh_semantic_snapshot

\* A visual question counts as answered on matching, fresh evidence.
RegionOutcome(fresh, late, tokens) ==
  IF has_matching_native_visual_evidence(fresh)
    THEN charge([perc EXCEPT !.visual = TRUE,
                             !.evidenced = fresh /\ capture_visual_packet_authorized = "images"],
                Plus(perc.spent, Usage(0, tokens, 1, 0)), late)
    ELSE Failure("evidence_missing")

\* A region that was captured is evidence of the page it was captured from.
LEMMA RegionKeepsCycles ==
  ASSUME PerceptionAssumption, CycleInv, execute_region_capture
  PROVE  CycleInv'
<1>1. perc.phase = "region"
  BY DEF execute_region_capture
<1>2. /\ perc \in Cycles /\ perc.req \in Requests /\ perc.out = "none" /\ perc.left > 0
      /\ perc.spent \in Usages /\ perc.browsers \in Nat /\ perc.browsers <= 1
      /\ perc.spent.spawns = perc.browsers
  BY <1>1, StepShape DEF Executing
<1>3. CASE Answer("resource_denied")
  BY <1>2, <1>3, AnswerIsHonest DEF Codes
<1>4. CASE percBase' \in {percBase, percWorld.page} /\ perc' = Failure("native_timeout")
           /\ UNCHANGED percWorld
  <2>1. WorldTyped'
    BY <1>4, PerceptionAssumption DEF CycleInv, WorldTyped, PerceptionAssumption
  <2> QED
    BY <1>4, <2>1, FailureIsHonest DEF Codes
<1>5. ASSUME NEW fresh \in BOOLEAN, NEW late \in BOOLEAN, NEW tokens \in {0, 180},
             percBase' = percWorld.page, UNCHANGED percWorld,
             perc' = RegionOutcome(fresh, late, tokens)
      PROVE  CycleInv'
  <2>1. WorldTyped'
    BY <1>5, PerceptionAssumption DEF CycleInv, WorldTyped, PerceptionAssumption
  <2>2. CASE has_matching_native_visual_evidence(fresh)
    <3> DEFINE r == [perc EXCEPT !.visual = TRUE, !.evidenced = TRUE]
               usage == Plus(perc.spent, Usage(0, tokens, 1, 0))
    <3>1. (fresh /\ capture_visual_packet_authorized = "images") = TRUE
      BY <2>2 DEF has_matching_native_visual_evidence
    <3>2. perc' = charge(r, usage, late)
      BY <1>5, <2>2, <3>1 DEF RegionOutcome
    <3>3. usage \in Usages /\ usage.spawns = perc.browsers
      <4>1. usage \in Usages /\ usage.spawns = perc.spent.spawns
        BY <1>2, RegionUsage
      <4> HIDE DEF usage
      <4> QED
        BY <1>2, <4>1
    <3>4. /\ r \in Cycles /\ r.req = perc.req /\ r.left = perc.left /\ r.out = perc.out
          /\ r.browsers = perc.browsers /\ r.evidenced
      BY <1>2 DEF Cycles
    <3> HIDE DEF r, usage
    <3> QED
      BY <1>2, <2>1, <3>2, <3>3, <3>4, ChargeIsHonest
  <2>3. CASE ~has_matching_native_visual_evidence(fresh)
    <3>1. perc' = Failure("evidence_missing")
      BY <1>5, <2>3 DEF RegionOutcome
    <3> QED
      BY <2>1, <3>1, FailureIsHonest DEF Codes
  <2> QED
    BY <2>2, <2>3
<1>6. CASE \E fresh, late \in BOOLEAN, tokens \in {0, 180} :
             /\ percBase' = percWorld.page
             /\ UNCHANGED percWorld
             /\ perc' = IF has_matching_native_visual_evidence(fresh)
                  THEN charge([perc EXCEPT !.visual = TRUE,
                                           !.evidenced = fresh /\ capture_visual_packet_authorized = "images"],
                              Plus(perc.spent, Usage(0, tokens, 1, 0)), late)
                  ELSE Failure("evidence_missing")
  <2>1. PICK fresh \in BOOLEAN, late \in BOOLEAN, tokens \in {0, 180} :
             /\ percBase' = percWorld.page
             /\ UNCHANGED percWorld
             /\ perc' = IF has_matching_native_visual_evidence(fresh)
                  THEN charge([perc EXCEPT !.visual = TRUE,
                                           !.evidenced = fresh /\ capture_visual_packet_authorized = "images"],
                              Plus(perc.spent, Usage(0, tokens, 1, 0)), late)
                  ELSE Failure("evidence_missing")
    BY <1>6
  <2>2. perc' = RegionOutcome(fresh, late, tokens)
    BY <2>1 DEF RegionOutcome
  <2> QED
    BY <1>5, <2>1, <2>2
<1> QED
  BY <1>3, <1>4, <1>6 DEF execute_region_capture

\* The one browser of a cycle is charged as one spawn.
LEMMA ProbeKeepsCycles ==
  ASSUME PerceptionAssumption, CycleInv, execute_compatibility_probe
  PROVE  CycleInv'
<1>1. perc.phase = "chromium"
  BY DEF execute_compatibility_probe
<1>2. /\ perc \in Cycles /\ perc.req \in Requests /\ perc.out = "none" /\ perc.left > 0
      /\ perc.spent \in Usages /\ perc.spent.spawns = 0 /\ perc.browsers = 0
      /\ perc.visual => perc.evidenced
  BY <1>1, StepShape DEF Executing, CycleInv, BrowsersAreCharged
<1>3. ASSUME NEW out \in {"executor_unavailable", "resource_denied", "browser_failed"}, Answer(out)
      PROVE  CycleInv'
  BY <1>2, <1>3, AnswerIsHonest DEF Codes
<1>4. ASSUME NEW late \in BOOLEAN,
             percWorld' = [percWorld EXCEPT !.probed = @ \cup
                             {IF percWorld.route = "none" THEN "base" ELSE percWorld.route}],
             perc' = charge([perc EXCEPT !.browsers = @ + 1],
                            Plus(perc.spent, Usage(0, 0, 0, 1)), late),
             UNCHANGED percBase
      PROVE  CycleInv'
  <2>1. WorldTyped'
    <3> DEFINE loaded == IF percWorld.route = "none" THEN "base" ELSE percWorld.route
    <3>1. loaded \in {"base", "r1", "r2"}
      BY DEF CycleInv, WorldTyped
    <3>2. percWorld' = [percWorld EXCEPT !.probed = @ \cup {loaded}]
      BY <1>4
    <3> HIDE DEF loaded
    <3> QED
      BY <1>4, <3>1, <3>2 DEF CycleInv, WorldTyped
  <2> DEFINE r == [perc EXCEPT !.browsers = @ + 1]
             usage == Plus(perc.spent, Usage(0, 0, 0, 1))
  <2>2. usage \in Usages /\ usage.spawns = 1
    <3>1. usage \in Usages /\ usage.spawns = perc.spent.spawns + 1
      BY <1>2, ProbeUsage
    <3> HIDE DEF usage
    <3> QED
      BY <1>2, <3>1
  <2>3. r \in Cycles
    BY <1>2 DEF Cycles
  <2>4. /\ r.req = perc.req /\ r.left = perc.left /\ r.out = perc.out /\ r.browsers = 1
        /\ r.visual => r.evidenced
    BY <1>2 DEF Cycles
  <2>5. perc' = charge(r, usage, late)
    BY <1>4
  <2> HIDE DEF r, usage
  <2> QED
    BY <1>2, <2>1, <2>2, <2>3, <2>4, <2>5, ChargeIsHonest
<1> QED
  BY <1>3, <1>4 DEF execute_compatibility_probe

\* The latency of the next plan moves the clock only.
LEMMA TimeKeepsCycles ==
  ASSUME PerceptionAssumption, CycleInv, time_passes
  PROVE  CycleInv'
<1>1. perc.phase = "plan" /\ UNCHANGED <<percWorld, percBase>>
  BY DEF time_passes
<1>2. perc \in Cycles /\ perc.req \in Requests /\ perc.spent \in Usages
  BY <1>1, StepShape
<1> DEFINE latency == perc.req.budget.latency + 1
           bill    == [perc.spent EXCEPT !.latency = latency]
<1>3. latency \in Nat
  BY <1>2, PerceptionAssumption DEF Requests, PerceptionAssumption
<1>4. perc' = [perc EXCEPT !.over = TRUE, !.spent = bill]
  BY <1>1, <1>2 DEF time_passes, Clock, Cycles
<1> HIDE DEF latency
<1>5. bill \in Usages /\ bill.spawns = perc.spent.spawns
  BY <1>2, <1>3 DEF Usages
<1> HIDE DEF bill
<1>6. perc' \in Cycles
  BY <1>2, <1>4, <1>5 DEF Cycles
<1>7. /\ perc'.phase = "plan" /\ perc'.spent = bill /\ perc'.browsers = perc.browsers
      /\ perc'.req = perc.req /\ perc'.out = perc.out
  BY <1>1, <1>2, <1>4 DEF Cycles
<1>8. perc'.visual => perc'.evidenced
  BY <1>2, <1>4 DEF CycleInv, CyclesAreHonest, VisualAnswerIsEvidence, Cycles
<1>9. CycleTyped' /\ WorldTyped'
  BY <1>1, <1>2, <1>6, <1>7 DEF CycleInv, CycleTyped, WorldTyped, Executing
<1>10. BrowsersAreCharged' /\ AnswersAreLast' /\ perc.out = "none" /\ perc.browsers <= 1
  BY <1>1, <1>5, <1>7 DEF CycleInv, BrowsersAreCharged, AnswersAreLast, CyclesAreHonest, OneBrowserPerCycle
<1> QED
  BY <1>7, <1>8, <1>9, <1>10
  DEF CycleInv, CyclesAreHonest, OneBrowserPerCycle, VisualAnswerIsEvidence, CompletedCyclesAreCharged

\* A new request starts a cycle from nothing.
LEMMA RequestKeepsCycles ==
  ASSUME PerceptionAssumption, CycleInv, execute_live_perception_cycle
  PROVE  CycleInv'
<1>1. PICK req \in Requests :
        perc' = [IdleCycle EXCEPT !.phase = "plan", !.left = MaxPerceptionSteps, !.req = req]
  BY DEF execute_live_perception_cycle, Requests
<1>2. perc' = [phase |-> "plan", req |-> req, spent |-> ZeroUsage, forecast |-> ZeroUsage,
               visual |-> FALSE, evidenced |-> FALSE, left |-> MaxPerceptionSteps,
               reason |-> "none", over |-> FALSE, browsers |-> 0, out |-> "none"]
  BY <1>1 DEF IdleCycle
<1>3. ZeroUsage \in Usages /\ ZeroUsage.spawns = 0
  BY DEF ZeroUsage, Usage, Usages
<1>4. CycleTyped'
  BY <1>2, <1>3, PerceptionAssumption DEF CycleTyped, Cycles, Codes, Executing, PerceptionAssumption
<1>5. WorldTyped'
  BY DEF execute_live_perception_cycle, CycleInv, WorldTyped
<1> QED
  BY <1>2, <1>3, <1>4, <1>5
  DEF CycleInv, BrowsersAreCharged, AnswersAreLast, CyclesAreHonest, OneBrowserPerCycle,
      VisualAnswerIsEvidence, CompletedCyclesAreCharged

\* The page moves under the cycle; the cycle holds on to what it has.
LEMMA PageKeepsCycles ==
  ASSUME PerceptionAssumption, CycleInv, page_observed
  PROVE  CycleInv'
<1>1. WorldTyped'
  BY PerceptionAssumption DEF page_observed, CycleInv, WorldTyped, PerceptionAssumption
<1>2. UNCHANGED perc
  BY DEF page_observed
<1> QED
  BY <1>1, <1>2
  DEF CycleInv, CycleTyped, BrowsersAreCharged, AnswersAreLast, CyclesAreHonest, OneBrowserPerCycle,
      VisualAnswerIsEvidence, CompletedCyclesAreCharged, exceeded_dimensions

\* The inductive invariant of the perception cycle.
LEMMA CyclesInvariant == PerceptionSpec => []CycleInv
<1>1. PerceptionInit => CycleInv
  <2> SUFFICES ASSUME PerceptionInit PROVE CycleInv
    OBVIOUS
  <2>1. perc = [phase |-> "idle", req |-> "none", spent |-> ZeroUsage, forecast |-> ZeroUsage,
                visual |-> FALSE, evidenced |-> FALSE, left |-> 0, reason |-> "none", over |-> FALSE,
                browsers |-> 0, out |-> "none"]
    BY DEF PerceptionInit, IdleCycle
  <2>2. ZeroUsage \in Usages /\ ZeroUsage.spawns = 0
    BY DEF ZeroUsage, Usage, Usages
  <2>3. CycleTyped
    BY <2>1, <2>2, PerceptionAssumption DEF CycleTyped, Cycles, Codes, Executing, PerceptionAssumption
  <2>4. WorldTyped
    BY PerceptionAssumption DEF PerceptionInit, WorldTyped, PerceptionAssumption
  <2> QED
    BY <2>1, <2>2, <2>3, <2>4
    DEF CycleInv, BrowsersAreCharged, AnswersAreLast, CyclesAreHonest, OneBrowserPerCycle,
        VisualAnswerIsEvidence, CompletedCyclesAreCharged
<1>2. CycleInv /\ [PerceptionNext]_percVars => CycleInv'
  <2> SUFFICES ASSUME CycleInv, [PerceptionNext]_percVars PROVE CycleInv'
    OBVIOUS
  <2>1. CASE execute_live_perception_cycle
    BY <2>1, RequestKeepsCycles, PerceptionAssumption
  <2>2. CASE plan_observation
    BY <2>2, PlanKeepsCycles, PerceptionAssumption
  <2>3. CASE plan_is_empty \/ step_limit_response
    BY <2>3, EmptyPlanKeepsCycles, PerceptionAssumption
  <2>4. CASE acquire_fresh_semantic_snapshot
    BY <2>4, SnapshotKeepsCycles, PerceptionAssumption
  <2>5. CASE execute_region_capture
    BY <2>5, RegionKeepsCycles, PerceptionAssumption
  <2>6. CASE execute_compatibility_probe
    BY <2>6, ProbeKeepsCycles, PerceptionAssumption
  <2>7. CASE executor_unavailable_response
    <3>1. perc.req \in Requests
      BY <2>7, StepShape, PerceptionAssumption DEF executor_unavailable_response, Executing
    <3> QED
      BY <2>7, <3>1, AnswerIsHonest, PerceptionAssumption DEF executor_unavailable_response, Codes
  <2>8. CASE page_observed
    BY <2>8, PageKeepsCycles, PerceptionAssumption
  <2>9. CASE time_passes
    BY <2>9, TimeKeepsCycles, PerceptionAssumption
  <2>10. CASE UNCHANGED percVars
    BY <2>10
    DEF CycleInv, CycleTyped, WorldTyped, BrowsersAreCharged, AnswersAreLast, CyclesAreHonest,
        OneBrowserPerCycle, VisualAnswerIsEvidence, CompletedCyclesAreCharged, exceeded_dimensions,
        percVars
  <2> QED
    BY <2>1, <2>2, <2>3, <2>4, <2>5, <2>6, <2>7, <2>8, <2>9, <2>10 DEF PerceptionNext
<1> QED
  BY <1>1, <1>2, PTL DEF PerceptionSpec

\* For every set of budgets and however long a cycle runs: it counts its visual
\* question as answered on fresh native evidence only, it starts one browser at
\* most, and when it reports completion every browser it started is charged and
\* an overrun of the budget has its reason (perception_executor.rs, the planner's
\* budget and the engine's choice).
THEOREM CyclesStayHonest == PerceptionSpec => [](CyclesAreHonest /\ PerceptionTypeOK)
<1>1. CycleInv => CyclesAreHonest /\ PerceptionTypeOK
  BY DEF CycleInv, CycleTyped, Cycles, WorldTyped, PerceptionTypeOK
<1> QED
  BY <1>1, CyclesInvariant, PTL

-----------------------------------------------------------------------------
(* The Windows provider.                                                   *)

WinEarly == {"none", "refreshed", "planned", "confirmed", "preflighted", "sealed", "prepared", "armed"}
WinStages == WinEarly \cup {"executing", "answered", "not_dispatched", "linearized", "observed",
                            "failed", "done"}
WinStates == WinDebt \cup {"none", "intent", "authorized", "known_not", "verified", "committed"}

WinTyped ==
  /\ winBoot \in Nat /\ winCuts \in Nat
  /\ winWorker \in [health : {"healthy", "poisoned"}, cut : Nat, busy : WinActions \cup {NoWinAction}]
  /\ winStage \in [WinActions -> WinStages]
  /\ winPlan \in [WinActions -> [op : WinOperations, cut : Nat, seen : Nat, provider : Nat]]
  /\ winJournal \in [WinActions -> WinStates]
  /\ winHit \in [WinActions -> Seq(Nat)]
  /\ winScope \subseteq WinActions /\ winLate \subseteq WinActions /\ winObserved \subseteq WinActions

\* A call is outstanding while the worker holds it or an earlier process left it
\* in the target.  An action that did not get to the worker yet has no effect and
\* no observation; an outstanding call is the action's first, its request has
\* not heard of it, and no outcome was observed.
CallsAreFirst ==
  \A a \in WinActions :
    /\ winStage[a] \in WinEarly => winHit[a] = <<>> /\ a \notin winObserved
    /\ winWorker.busy = a =>
         winStage[a] \in {"executing", "failed"} /\ a \notin winLate
           /\ winHit[a] = <<>> /\ a \notin winObserved
    /\ a \in winLate => winStage[a] = "failed" /\ winHit[a] = <<>> /\ a \notin winObserved

\* What the journal held when this process started was planned by an earlier one
\* and is not planned again.
LineagesAreOld ==
  \A a \in WinActions :
    /\ winJournal[a] # "none" => winStage[a] # "none"
    /\ winPlan[a].provider <= winBoot
    /\ a \in winScope => winStage[a] # "none" /\ winPlan[a].provider < winBoot

WinInv == WinTyped /\ CallsAreFirst /\ LineagesAreOld

\* A request that moves on, and nothing else of the calls does.
LEMMA StageMoves ==
  ASSUME WinInv, NEW a \in WinActions, NEW to \in WinStages,
         winStage' = [winStage EXCEPT ![a] = to],
         winStage[a] \notin {"executing", "failed"},
         to # "none", to \in WinEarly => winStage[a] \in WinEarly,
         winWorker'.busy = winWorker.busy,
         winLate' = winLate, winHit' = winHit, winObserved' = winObserved
  PROVE  CallsAreFirst'
<1> SUFFICES ASSUME NEW b \in WinActions
             PROVE  /\ winStage'[b] \in WinEarly => winHit[b] = <<>> /\ b \notin winObserved
                    /\ winWorker.busy = b =>
                         winStage'[b] \in {"executing", "failed"} /\ b \notin winLate
                           /\ winHit[b] = <<>> /\ b \notin winObserved
                    /\ b \in winLate => winStage'[b] = "failed" /\ winHit[b] = <<>> /\ b \notin winObserved
  BY DEF CallsAreFirst
<1>1. CASE b = a
  <2>1. winStage'[b] = to
    BY <1>1 DEF WinInv, WinTyped
  <2> QED
    BY <1>1, <2>1 DEF WinInv, CallsAreFirst
<1>2. CASE b # a
  <2>1. winStage'[b] = winStage[b]
    BY <1>2 DEF WinInv, WinTyped
  <2> QED
    BY <2>1 DEF WinInv, CallsAreFirst
<1> QED
  BY <1>1, <1>2

\* Nothing of the calls changes.
LEMMA CallsUnchanged ==
  ASSUME WinInv, winStage' = winStage, winWorker'.busy = winWorker.busy,
         winLate' = winLate, winHit' = winHit, winObserved' = winObserved
  PROVE  CallsAreFirst'
BY DEF WinInv, CallsAreFirst

\* A request that moves on leaves the lineages as they are, if it was begun.
LEMMA LineageMoves ==
  ASSUME WinInv, winStage' \in [WinActions -> WinStages],
         \A b \in WinActions : winStage'[b] = "none" => winStage[b] = "none",
         \A b \in WinActions : winJournal'[b] = winJournal[b] \/ winStage'[b] # "none",
         \A b \in WinActions : winPlan'[b].provider = winPlan[b].provider,
         winBoot' = winBoot, winScope' = winScope
  PROVE  LineagesAreOld'
<1> SUFFICES ASSUME NEW b \in WinActions
             PROVE  /\ winJournal'[b] # "none" => winStage'[b] # "none"
                    /\ winPlan'[b].provider <= winBoot
                    /\ b \in winScope => winStage'[b] # "none" /\ winPlan'[b].provider < winBoot
  BY DEF LineagesAreOld
<1> QED
  BY DEF WinInv, LineagesAreOld

\* The steps of a request between plan and hand-over, and after the worker's
\* answer: the stage and the journal move, the plan's binding stays.
LEMMA RequestSteps ==
  ASSUME WinInv, NEW a \in WinActions, NEW from \in WinStages \ {"none", "executing", "failed"},
         NEW to \in WinStages \ {"none"}, Step(a, from, to), to \in WinEarly => from \in WinEarly,
         \/ winJournal' = winJournal
         \/ \E state \in WinStates : winJournal' = [winJournal EXCEPT ![a] = state],
         winWorker' = winWorker, winCuts' = winCuts, winPlan' = winPlan,
         winBoot' = winBoot, winScope' = winScope, winLate' = winLate,
         winHit' = winHit, winObserved' = winObserved
  PROVE  WinInv'
<1>1. winStage[a] = from /\ winStage' = [winStage EXCEPT ![a] = to]
  BY DEF Step
<1>2. WinTyped'
  BY <1>1 DEF WinInv, WinTyped
<1>3. CallsAreFirst'
  BY <1>1, StageMoves
<1>4. \A b \in WinActions : winStage'[b] = IF b = a THEN to ELSE winStage[b]
  BY <1>1 DEF WinInv, WinTyped
<1>5. \A b \in WinActions : winJournal'[b] = winJournal[b] \/ b = a
  BY DEF WinInv, WinTyped
<1>6. LineagesAreOld'
  BY <1>2, <1>4, <1>5, LineageMoves DEF WinTyped
<1> QED
  BY <1>2, <1>3, <1>6 DEF WinInv

\* The worker finishes the command it holds, with an effect or without.
LEMMA AnswerKeepsCalls ==
  ASSUME WinInv, NEW a \in WinActions, winWorker.busy = a,
         NEW answer \in {"answered", "failed", "not_dispatched"}, NEW hit \in Seq(Nat),
         Answered(a, answer, hit)
  PROVE  WinInv' /\ winHit' = [winHit EXCEPT ![a] = hit] /\ winHit[a] = <<>> /\ a \notin winObserved
<1>1. /\ winStage[a] \in {"executing", "failed"} /\ a \notin winLate
      /\ winHit[a] = <<>> /\ a \notin winObserved
  BY DEF WinInv, CallsAreFirst
<1>2. winHit' = [winHit EXCEPT ![a] = hit]
  BY <1>1 DEF Answered, WinInv, WinTyped
<1>3. /\ winWorker' = [winWorker EXCEPT !.busy = NoWinAction]
      /\ UNCHANGED <<winCuts, winPlan, winJournal, winBoot, winScope, winLate, winObserved>>
  BY DEF Answered, winBootVars
<1>4. PICK to \in {"answered", "failed", "not_dispatched"} : winStage' = [winStage EXCEPT ![a] = to]
  BY <1>1 DEF Answered, WinInv, WinTyped
<1>5. WinTyped'
  BY <1>2, <1>3, <1>4 DEF WinInv, WinTyped, WinStages
<1>6. winWorker'.busy = NoWinAction /\ NoWinAction \notin WinActions
  BY <1>3, WinConstants DEF WinInv, WinTyped, WinConstants, NoWinAction
<1>7. CallsAreFirst'
  <2> SUFFICES ASSUME NEW b \in WinActions
               PROVE  /\ winStage'[b] \in WinEarly => winHit'[b] = <<>> /\ b \notin winObserved
                      /\ b \in winLate =>
                           winStage'[b] = "failed" /\ winHit'[b] = <<>> /\ b \notin winObserved
    BY <1>3, <1>6 DEF CallsAreFirst
  <2>1. CASE b = a
    BY <1>1, <1>4, <2>1 DEF WinInv, WinTyped, WinEarly
  <2>2. CASE b # a
    <3>1. winStage'[b] = winStage[b] /\ winHit'[b] = winHit[b]
      BY <1>2, <1>4, <2>2 DEF WinInv, WinTyped
    <3> QED
      BY <3>1 DEF WinInv, CallsAreFirst
  <2> QED
    BY <2>1, <2>2
<1>8. \A b \in WinActions : winStage'[b] = IF b = a THEN to ELSE winStage[b]
  BY <1>4 DEF WinInv, WinTyped
<1>9. LineagesAreOld'
  BY <1>3, <1>5, <1>8, LineageMoves DEF WinTyped
<1> QED
  BY <1>1, <1>2, <1>5, <1>7, <1>9 DEF WinInv

\* A command goes to the worker: the request is past every early stage.
LEMMA HandOverKeepsCalls ==
  ASSUME WinInv, NEW a \in WinActions, NEW op, HandToWorker(a, op)
  PROVE  WinInv'
<1>1. /\ winStage[a] = "armed" /\ winStage' = [winStage EXCEPT ![a] = "executing"]
      /\ winWorker' = [winWorker EXCEPT !.busy = a] /\ winWorker.busy = NoWinAction
      /\ UNCHANGED <<winCuts, winPlan, winJournal, winBoot, winScope, winLate, winHit, winObserved>>
  BY DEF HandToWorker, Step, WorkerReady, winBootVars, winHistoryVars
<1>2. winHit[a] = <<>> /\ a \notin winObserved /\ a \notin winLate
  BY <1>1 DEF WinInv, CallsAreFirst, WinEarly
<1>3. WinTyped'
  BY <1>1 DEF WinInv, WinTyped, WinStages
<1>4. \A b \in WinActions : winStage'[b] = IF b = a THEN "executing" ELSE winStage[b]
  BY <1>1 DEF WinInv, WinTyped
<1>5. winWorker'.busy = a
  BY <1>1 DEF WinInv, WinTyped
<1>6. CallsAreFirst'
  <2> SUFFICES ASSUME NEW b \in WinActions
               PROVE  /\ winStage'[b] \in WinEarly => winHit[b] = <<>> /\ b \notin winObserved
                      /\ a = b =>
                           winStage'[b] \in {"executing", "failed"} /\ b \notin winLate
                             /\ winHit[b] = <<>> /\ b \notin winObserved
                      /\ b \in winLate =>
                           winStage'[b] = "failed" /\ winHit[b] = <<>> /\ b \notin winObserved
    BY <1>1, <1>5 DEF CallsAreFirst
  <2> QED
    BY <1>2, <1>4 DEF WinInv, CallsAreFirst, WinEarly
<1>7. LineagesAreOld'
  BY <1>1, <1>3, <1>4, LineageMoves DEF WinTyped
<1> QED
  BY <1>3, <1>6, <1>7 DEF WinInv

\* A snapshot replaces the elements the worker retains, not its command.
LEMMA SnapshotShape ==
  ASSUME WinInv, snapshot
  PROVE  /\ winCuts' \in Nat /\ winCuts' = winCuts + 1
         /\ winWorker' \in [health : {"healthy", "poisoned"}, cut : Nat,
                            busy : WinActions \cup {NoWinAction}]
         /\ winWorker'.busy = winWorker.busy
<1>1. winCuts' = winCuts + 1 /\ winWorker' = [winWorker EXCEPT !.cut = winCuts + 1]
  BY DEF snapshot
<1>2. winCuts \in Nat /\ winWorker \in [health : {"healthy", "poisoned"}, cut : Nat,
                                       busy : WinActions \cup {NoWinAction}]
  BY DEF WinInv, WinTyped
<1> QED
  BY <1>1, <1>2

\* Observation alone: the worker may take a cut, the requests stay where they are.
LEMMA ObservationKeepsCalls ==
  ASSUME WinInv,
         snapshot \/ UNCHANGED <<winCuts, winWorker>>,
         UNCHANGED <<winStage, winPlan, winJournal, winBoot, winScope, winLate, winHistoryVars>>
  PROVE  WinInv'
<1>1. /\ winCuts' \in Nat
      /\ winWorker' \in [health : {"healthy", "poisoned"}, cut : Nat,
                         busy : WinActions \cup {NoWinAction}]
      /\ winWorker'.busy = winWorker.busy
  BY SnapshotShape DEF WinInv, WinTyped
<1>2. WinTyped'
  BY <1>1 DEF WinInv, WinTyped, winHistoryVars
<1>3. CallsAreFirst'
  BY <1>1, CallsUnchanged DEF winHistoryVars
<1>4. LineagesAreOld'
  BY DEF WinInv, LineagesAreOld
<1> QED
  BY <1>2, <1>3, <1>4 DEF WinInv

\* A plan binds the element to a cut of its own and to this process.
LEMMA RefreshKeepsCalls ==
  ASSUME WinInv, NEW a \in WinActions, refresh_uia_action_evidence(a)
  PROVE  WinInv'
<1>1. PICK to \in {"refreshed", "failed"} : Step(a, "none", to)
  BY DEF refresh_uia_action_evidence
<1>2. PICK op \in WinOperations :
        winPlan' = [winPlan EXCEPT ![a] = [op |-> op, cut |-> winCuts + 1, seen |-> NoCut,
                                           provider |-> winBoot]]
  BY DEF refresh_uia_action_evidence
<1>3. snapshot /\ UNCHANGED <<winJournal, winBoot, winScope, winLate, winHit, winObserved>>
  BY DEF refresh_uia_action_evidence, winBootVars, winHistoryVars
<1>4. winStage[a] = "none" /\ winStage' = [winStage EXCEPT ![a] = to]
  BY <1>1 DEF Step
<1>5. /\ winCuts' \in Nat
      /\ winWorker' \in [health : {"healthy", "poisoned"}, cut : Nat,
                         busy : WinActions \cup {NoWinAction}]
      /\ winWorker'.busy = winWorker.busy
  BY <1>3, SnapshotShape
<1>6. WinTyped'
  <2>1. winStage' \in [WinActions -> WinStages]
    BY <1>4 DEF WinInv, WinTyped, WinStages, WinEarly
  <2>2. [op |-> op, cut |-> winCuts + 1, seen |-> NoCut, provider |-> winBoot]
          \in [op : WinOperations, cut : Nat, seen : Nat, provider : Nat]
    BY DEF WinInv, WinTyped, NoCut
  <2>3. winPlan' \in [WinActions -> [op : WinOperations, cut : Nat, seen : Nat, provider : Nat]]
    BY <1>2, <2>2 DEF WinInv, WinTyped
  <2> QED
    BY <1>3, <1>5, <2>1, <2>3 DEF WinInv, WinTyped
<1>7. CallsAreFirst'
  BY <1>3, <1>4, <1>5, StageMoves DEF WinStages, WinEarly
<1>8. LineagesAreOld'
  <2> SUFFICES ASSUME NEW b \in WinActions
               PROVE  /\ winJournal[b] # "none" => winStage'[b] # "none"
                      /\ winPlan'[b].provider <= winBoot
                      /\ b \in winScope => winStage'[b] # "none" /\ winPlan'[b].provider < winBoot
    BY <1>3 DEF LineagesAreOld
  <2>1. CASE b = a
    <3>1. winStage'[b] # "none" /\ winPlan'[b].provider = winBoot /\ b \notin winScope
      BY <1>2, <1>4, <2>1 DEF WinInv, WinTyped, LineagesAreOld
    <3> QED
      BY <3>1 DEF WinInv, WinTyped
  <2>2. CASE b # a
    <3>1. winStage'[b] = winStage[b] /\ winPlan'[b] = winPlan[b]
      BY <1>2, <1>4, <2>2 DEF WinInv, WinTyped
    <3> QED
      BY <3>1 DEF WinInv, LineagesAreOld
  <2> QED
    BY <2>1, <2>2
<1> QED
  BY <1>6, <1>7, <1>8 DEF WinInv

\* A request that fails, or whose caller left, may leave its call with the worker.
LEMMA FailureKeepsCalls ==
  ASSUME WinInv,
         \A b \in WinActions : winStage'[b] = winStage[b]
                                 \/ (winStage[b] # "none" /\ winStage'[b] = "failed"),
         winStage' \in [WinActions -> WinStages],
         winWorker' = winWorker \/ winWorker' = [winWorker EXCEPT !.health = "poisoned"],
         UNCHANGED <<winCuts, winPlan, winJournal, winBoot, winScope, winLate, winHit, winObserved>>
  PROVE  WinInv'
<1>1. WinTyped' /\ winWorker'.busy = winWorker.busy
  BY DEF WinInv, WinTyped
<1>2. CallsAreFirst'
  <2> SUFFICES ASSUME NEW b \in WinActions
               PROVE  /\ winStage'[b] \in WinEarly => winHit[b] = <<>> /\ b \notin winObserved
                      /\ winWorker.busy = b =>
                           winStage'[b] \in {"executing", "failed"} /\ b \notin winLate
                             /\ winHit[b] = <<>> /\ b \notin winObserved
                      /\ b \in winLate =>
                           winStage'[b] = "failed" /\ winHit[b] = <<>> /\ b \notin winObserved
    BY <1>1 DEF CallsAreFirst
  <2> QED
    BY DEF WinInv, CallsAreFirst, WinEarly
<1>3. LineagesAreOld'
  BY LineageMoves
<1> QED
  BY <1>1, <1>2, <1>3 DEF WinInv

\* An outcome is observed once the executor's receipt is linearized, and no call
\* is outstanding then.
LEMMA CaptureKeepsCalls ==
  ASSUME WinInv, NEW a \in WinActions, capture_postcondition_observation(a)
  PROVE  WinInv'
<1>1. /\ winStage[a] = "linearized" /\ winStage' = [winStage EXCEPT ![a] = "observed"]
      /\ snapshot /\ winPlan' = [winPlan EXCEPT ![a].seen = winCuts + 1]
      /\ winObserved' = winObserved \cup {a}
      /\ UNCHANGED <<winJournal, winBoot, winScope, winLate, winHit>>
  BY DEF capture_postcondition_observation, Step, winBootVars
<1>2. /\ winCuts' \in Nat
      /\ winWorker' \in [health : {"healthy", "poisoned"}, cut : Nat,
                         busy : WinActions \cup {NoWinAction}]
      /\ winWorker'.busy = winWorker.busy
  BY <1>1, SnapshotShape
<1>3. WinTyped'
  <2>1. winStage' \in [WinActions -> WinStages]
    BY <1>1 DEF WinInv, WinTyped, WinStages
  <2>2. winPlan' \in [WinActions -> [op : WinOperations, cut : Nat, seen : Nat, provider : Nat]]
    <3> DEFINE bound == [winPlan[a] EXCEPT !.seen = winCuts + 1]
    <3>1. bound \in [op : WinOperations, cut : Nat, seen : Nat, provider : Nat]
      <4>1. /\ winPlan[a] \in [op : WinOperations, cut : Nat, seen : Nat, provider : Nat]
            /\ winCuts + 1 \in Nat
        BY DEF WinInv, WinTyped
      <4> QED
        BY <4>1
    <3>2. winPlan' = [winPlan EXCEPT ![a] = bound]
      BY <1>1
    <3> HIDE DEF bound
    <3> QED
      BY <3>1, <3>2 DEF WinInv, WinTyped
  <2> QED
    BY <1>1, <1>2, <2>1, <2>2 DEF WinInv, WinTyped
<1>4. \A b \in WinActions : /\ winStage'[b] = IF b = a THEN "observed" ELSE winStage[b]
                            /\ winPlan'[b].provider = winPlan[b].provider
  BY <1>1 DEF WinInv, WinTyped
<1>5. CallsAreFirst'
  <2> SUFFICES ASSUME NEW b \in WinActions
               PROVE  /\ winStage'[b] \in WinEarly => winHit[b] = <<>> /\ b \notin winObserved \cup {a}
                      /\ winWorker.busy = b =>
                           winStage'[b] \in {"executing", "failed"} /\ b \notin winLate
                             /\ winHit[b] = <<>> /\ b \notin winObserved \cup {a}
                      /\ b \in winLate =>
                           winStage'[b] = "failed" /\ winHit[b] = <<>> /\ b \notin winObserved \cup {a}
    BY <1>1, <1>2 DEF CallsAreFirst
  <2> QED
    BY <1>1, <1>4 DEF WinInv, CallsAreFirst, WinEarly
<1>6. LineagesAreOld'
  BY <1>1, <1>3, <1>4, LineageMoves DEF WinTyped
<1> QED
  BY <1>3, <1>5, <1>6 DEF WinInv

\* A restart: the worker's command goes on in the target, its request failed, and
\* what the journal holds was planned by the process that is gone.
LEMMA RestartKeepsCalls ==
  ASSUME WinInv, restart_daemon
  PROVE  WinInv'
<1>1. /\ winBoot' = winBoot + 1
      /\ winLate' = winLate \cup ({winWorker.busy} \ {NoWinAction})
      /\ winScope' = {a \in WinActions : winJournal[a] # "none"}
      /\ winWorker' = FreshWorker
      /\ winStage' = [a \in WinActions |-> IF winStage[a] = "none" THEN "none" ELSE "failed"]
      /\ UNCHANGED <<winCuts, winPlan, winJournal, winHit, winObserved>>
  BY DEF restart_daemon, winHistoryVars
<1>2. WinTyped'
  BY <1>1 DEF WinInv, WinTyped, WinStages, WinEarly, FreshWorker, NoCut
<1>3. CallsAreFirst'
  <2> SUFFICES ASSUME NEW b \in WinActions
               PROVE  /\ winStage'[b] \in WinEarly => winHit[b] = <<>> /\ b \notin winObserved
                      /\ NoWinAction # b
                      /\ b \in winLate' =>
                           winStage'[b] = "failed" /\ winHit[b] = <<>> /\ b \notin winObserved
    BY <1>1 DEF CallsAreFirst, FreshWorker
  <2>1. NoWinAction # b
    BY WinConstants DEF WinConstants, NoWinAction
  <2>2. b \in winLate' => b \in winLate \/ b = winWorker.busy
    BY <1>1
  <2>3. winStage'[b] = IF winStage[b] = "none" THEN "none" ELSE "failed"
    BY <1>1
  <2> QED
    BY <2>1, <2>2, <2>3 DEF WinInv, CallsAreFirst, WinEarly
<1>4. LineagesAreOld'
  <2> SUFFICES ASSUME NEW b \in WinActions
               PROVE  /\ winJournal[b] # "none" => winStage'[b] # "none"
                      /\ winPlan[b].provider <= winBoot + 1
                      /\ winJournal[b] # "none" => winStage'[b] # "none" /\ winPlan[b].provider < winBoot + 1
    BY <1>1 DEF LineagesAreOld
  <2>1. winBoot \in Nat /\ winPlan[b].provider \in Nat /\ winPlan[b].provider <= winBoot
    BY DEF WinInv, WinTyped, LineagesAreOld
  <2>2. winJournal[b] # "none" => winStage'[b] # "none"
    BY <1>1 DEF WinInv, LineagesAreOld
  <2> QED
    BY <2>1, <2>2
<1> QED
  BY <1>2, <1>3, <1>4 DEF WinInv

\* A call an earlier process left behind takes effect.
LEMMA LateKeepsCalls ==
  ASSUME WinInv, NEW a \in WinActions, late_effect(a)
  PROVE  /\ WinInv'
         /\ winHit' = [winHit EXCEPT ![a] = <<winPlan[a].cut>>] /\ winHit[a] = <<>> /\ a \notin winObserved
<1>1. /\ a \in winLate /\ winLate' = winLate \ {a}
      /\ UNCHANGED <<winCuts, winWorker, winStage, winPlan, winJournal, winBoot, winScope, winObserved>>
  BY DEF late_effect, winActionVars
<1>2. winStage[a] = "failed" /\ winHit[a] = <<>> /\ a \notin winObserved /\ winWorker.busy # a
  BY <1>1 DEF WinInv, CallsAreFirst
<1>3. winHit' = [winHit EXCEPT ![a] = <<winPlan[a].cut>>]
  BY <1>2 DEF late_effect, WinInv, WinTyped
<1>4. WinTyped'
  <2>1. <<winPlan[a].cut>> \in Seq(Nat)
    BY DEF WinInv, WinTyped
  <2> QED
    BY <1>1, <1>3, <2>1 DEF WinInv, WinTyped
<1>5. CallsAreFirst'
  <2> SUFFICES ASSUME NEW b \in WinActions
               PROVE  /\ winStage[b] \in WinEarly => winHit'[b] = <<>> /\ b \notin winObserved
                      /\ winWorker.busy = b =>
                           winStage[b] \in {"executing", "failed"} /\ b \notin winLate'
                             /\ winHit'[b] = <<>> /\ b \notin winObserved
                      /\ b \in winLate' =>
                           winStage[b] = "failed" /\ winHit'[b] = <<>> /\ b \notin winObserved
    BY <1>1 DEF CallsAreFirst
  <2>1. CASE b = a
    BY <1>1, <1>2, <2>1 DEF WinEarly
  <2>2. CASE b # a
    <3>1. winHit'[b] = winHit[b]
      BY <1>3, <2>2 DEF WinInv, WinTyped
    <3> QED
      BY <1>1, <3>1 DEF WinInv, CallsAreFirst
  <2> QED
    BY <2>1, <2>2
<1>6. LineagesAreOld'
  BY <1>1 DEF WinInv, LineagesAreOld
<1> QED
  BY <1>2, <1>3, <1>4, <1>5, <1>6 DEF WinInv

\* Boot recovery: no debt of the scope bears the incarnation of this process, so
\* the drain observes nothing (README.md, Where code and text disagree).
LEMMA RecoveryKeepsCalls ==
  ASSUME WinInv, recover_newly_attached_boot_debt
  PROVE  WinInv'
<1>1. recovery_bindings_for_attachment = {}
  <2>1. \A a \in winScope : winPlan[a].provider # winBoot
    BY DEF WinInv, WinTyped, LineagesAreOld
  <2> QED
    BY <2>1 DEF recovery_bindings_for_attachment
<1>2. ObservationRequired(recovery_bindings_for_attachment) = {}
  BY <1>1 DEF ObservationRequired
<1>3. winObserved' = winObserved
  BY <1>2 DEF recover_newly_attached_boot_debt
<1>4. winJournal' = winJournal
  <2>1. winJournal' = [a \in WinActions |-> winJournal[a]]
    BY <1>1 DEF recover_newly_attached_boot_debt
  <2> QED
    BY <2>1 DEF WinInv, WinTyped
<1>5. UNCHANGED <<winCuts, winWorker, winStage, winPlan, winJournal, winBoot, winScope, winLate,
                  winHistoryVars>>
  BY <1>3, <1>4 DEF recover_newly_attached_boot_debt, winHistoryVars
<1> QED
  BY <1>5, ObservationKeepsCalls

\* Every step keeps the invariant, and the effect of a step, if any, is the first
\* of its action, on the cut that was confirmed, before any observation.
EffectAllowed(a) ==
  winHit'[a] # winHit[a] =>
    winHit[a] = <<>> /\ winHit'[a] = <<winPlan[a].cut>> /\ a \notin winObserved

\* A step without an effect is allowed.
LEMMA NoEffectAllowed ==
  ASSUME winHit' = winHit
  PROVE  \A a \in WinActions : EffectAllowed(a)
BY DEF EffectAllowed

\* The first effect of an action, by the boot that planned it, is allowed.
LEMMA OneEffectAllowed ==
  ASSUME WinInv, NEW a \in WinActions, winHit[a] = <<>>, a \notin winObserved,
         NEW hit \in {<<>>, <<winPlan[a].cut>>}, winHit' = [winHit EXCEPT ![a] = hit]
  PROVE  \A b \in WinActions : EffectAllowed(b)
<1> SUFFICES ASSUME NEW b \in WinActions PROVE EffectAllowed(b)
  OBVIOUS
<1>1. winHit'[b] = IF b = a THEN hit ELSE winHit[b]
  BY DEF WinInv, WinTyped
<1> QED
  BY <1>1 DEF EffectAllowed

\* Every step of one action, from its plan to its outcome, keeps the invariant.
LEMMA ActionStepKeeps ==
  ASSUME WinInv, NEW a \in WinActions, WinActionStep(a)
  PROVE  WinInv' /\ \A b \in WinActions : EffectAllowed(b)
<1>1. CASE dispatch_pattern(a) \/ dispatch_set_value(a) \/ dispatch_verified_input(a) \/ worker_refuses(a)
  <2>1. winWorker.busy = a
    BY <1>1 DEF dispatch_pattern, dispatch_set_value, dispatch_verified_input, worker_refuses
  <2>2. PICK answer \in {"answered", "failed", "not_dispatched"}, hit \in {<<>>, <<winPlan[a].cut>>} :
          Answered(a, answer, hit)
    BY <1>1
    DEF dispatch_pattern, dispatch_set_value, dispatch_verified_input, worker_refuses, exact_retained_element
  <2>3. hit \in Seq(Nat)
    <3>1. winPlan[a].cut \in Nat
      BY DEF WinInv, WinTyped
    <3>2. <<winPlan[a].cut>> \in Seq(Nat) /\ <<>> \in Seq(Nat)
      BY <3>1
    <3> QED
      BY <3>2
  <2>4. WinInv' /\ winHit' = [winHit EXCEPT ![a] = hit] /\ winHit[a] = <<>> /\ a \notin winObserved
    BY <2>1, <2>2, <2>3, AnswerKeepsCalls
  <2> QED
    BY <2>4, OneEffectAllowed
<1>2. CASE refresh_uia_action_evidence(a)
  <2>1. winHit' = winHit
    BY <1>2 DEF refresh_uia_action_evidence, winHistoryVars
  <2> QED
    BY <1>2, <2>1, RefreshKeepsCalls, NoEffectAllowed
<1>3. CASE plan_windows_consequential_action(a) \/ plan_windows_consequential_set_value(a)
  <2>1. PICK to \in {"planned", "failed"} :
          /\ Step(a, "refreshed", to)
          /\ \/ winJournal' = [winJournal EXCEPT ![a] = "intent"]
             \/ winJournal' = [winJournal EXCEPT ![a] = winJournal[a]]
          /\ UNCHANGED <<winObservationVars, winCuts, winWorker, winPlan, winBootVars, winHistoryVars>>
    BY <1>3 DEF plan_windows_consequential_action, plan_windows_consequential_set_value, Admit
  <2>2. winJournal[a] \in WinStates /\ "intent" \in WinStates
    BY DEF WinInv, WinTyped, WinStates
  <2>3. \E state \in WinStates : winJournal' = [winJournal EXCEPT ![a] = state]
    BY <2>1, <2>2
  <2>4. WinInv' /\ winHit' = winHit
    BY <2>1, <2>3, RequestSteps DEF WinStages, WinEarly, winBootVars, winHistoryVars
  <2> QED
    BY <2>4, NoEffectAllowed
<1>4. CASE \/ confirm_windows_consequential_action(a) \/ execute_verified_canonical_uia_action(a)
           \/ arm_uia_dispatch_execution(a)
  <2>1. PICK from \in {"planned", "confirmed", "prepared"}, to \in {"confirmed", "preflighted", "armed"} :
          /\ Step(a, from, to)
          /\ UNCHANGED <<winObservationVars, winCuts, winWorker, winPlan, winJournal, winBootVars,
                         winHistoryVars>>
    BY <1>4 DEF confirm_windows_consequential_action, execute_verified_canonical_uia_action,
                arm_uia_dispatch_execution
  <2>2. WinInv' /\ winHit' = winHit
    BY <2>1, RequestSteps DEF WinStages, WinEarly, winBootVars, winHistoryVars
  <2> QED
    BY <2>2, NoEffectAllowed
<1>5. CASE seal_uia_dispatch(a) \/ prepare_uia_dispatch(a)
  <2>1. PICK from \in {"preflighted", "sealed"}, to \in {"sealed", "prepared", "failed"},
             state \in {"authorized", "prepared"} :
          /\ Step(a, from, to)
          /\ winJournal' = [winJournal EXCEPT ![a] = state]
          /\ UNCHANGED <<winObservationVars, winCuts, winWorker, winPlan, winBootVars, winHistoryVars>>
    BY <1>5 DEF seal_uia_dispatch, prepare_uia_dispatch, Durable
  <2>2. state \in WinStates
    BY DEF WinStates, WinDebt
  <2>3. WinInv' /\ winHit' = winHit
    BY <2>1, <2>2, RequestSteps DEF WinStages, WinEarly, winBootVars, winHistoryVars
  <2> QED
    BY <2>3, NoEffectAllowed
<1>6. CASE \/ execute_armed_uia_set_value_dispatch(a) \/ execute_armed_uia_verified_input(a)
           \/ execute_armed_uia_dispatch(a)
  <2>1. PICK op \in WinOperations : HandToWorker(a, op)
    BY <1>6 DEF execute_armed_uia_set_value_dispatch, execute_armed_uia_verified_input,
                execute_armed_uia_dispatch, WinOperations
  <2>2. winHit' = winHit
    BY <2>1 DEF HandToWorker, winHistoryVars
  <2> QED
    BY <2>1, <2>2, HandOverKeepsCalls, NoEffectAllowed
<1>7. CASE request_fails(a)
  <2>1. /\ winStage[a] \in WinPipeline /\ winStage' = [winStage EXCEPT ![a] = "failed"]
        /\ UNCHANGED <<winCuts, winWorker, winPlan, winJournal, winBoot, winScope, winLate, winHit,
                       winObserved>>
    BY <1>7 DEF request_fails, winBootVars, winHistoryVars
  <2>2. /\ winStage' \in [WinActions -> WinStages]
        /\ \A b \in WinActions : winStage'[b] = winStage[b]
                                   \/ (winStage[b] # "none" /\ winStage'[b] = "failed")
    BY <2>1 DEF WinInv, WinTyped, WinStages, WinPipeline
  <2> QED
    BY <2>1, <2>2, FailureKeepsCalls, NoEffectAllowed
<1>8. CASE record_dispatch_linearized(a)
  <2>1. PICK from \in {"answered", "not_dispatched"}, to \in {"linearized", "done"},
             state \in {"possibly", "known_not"} :
          /\ Step(a, from, to)
          /\ winJournal' = [winJournal EXCEPT ![a] = state]
          /\ UNCHANGED <<winObservationVars, winCuts, winWorker, winPlan, winBootVars, winHistoryVars>>
    BY <1>8 DEF record_dispatch_linearized, Durable
  <2>2. state \in WinStates
    BY DEF WinStates, WinDebt
  <2>3. WinInv' /\ winHit' = winHit
    BY <2>1, <2>2, RequestSteps DEF WinStages, WinEarly, winBootVars, winHistoryVars
  <2> QED
    BY <2>3, NoEffectAllowed
<1>9. CASE capture_postcondition_observation(a)
  <2>1. winHit' = winHit
    BY <1>9 DEF capture_postcondition_observation
  <2> QED
    BY <1>9, <2>1, CaptureKeepsCalls, NoEffectAllowed
<1>10. CASE complete_uia_dispatch_verification(a) \/ verify_set_value(a)
  <2>1. PICK state \in {"unverified", "verified", "committed"} :
          /\ Step(a, "observed", "done")
          /\ winJournal' = [winJournal EXCEPT ![a] = state]
          /\ UNCHANGED <<winObservationVars, winCuts, winWorker, winPlan, winBootVars, winHistoryVars>>
    BY <1>10 DEF complete_uia_dispatch_verification, verify_set_value, Durable
  <2>2. state \in WinStates
    BY DEF WinStates, WinDebt
  <2>3. WinInv' /\ winHit' = winHit
    BY <2>1, <2>2, RequestSteps DEF WinStages, WinEarly, winBootVars, winHistoryVars
  <2> QED
    BY <2>3, NoEffectAllowed
<1>11. CASE late_effect(a)
  BY <1>11, LateKeepsCalls, OneEffectAllowed
<1> QED
  BY <1>1, <1>2, <1>3, <1>4, <1>5, <1>6, <1>7, <1>8, <1>9, <1>10, <1>11 DEF WinActionStep

\* Every step of the provider, its worker and its target keeps the invariant.
LEMMA WinStepKeeps ==
  ASSUME WinInv, [WinNext]_winVars
  PROVE  WinInv' /\ \A a \in WinActions : EffectAllowed(a)
<1>1. CASE \E a \in WinActions : WinActionStep(a)
  BY <1>1, ActionStepKeeps
<1>2. CASE worker_times_out
  <2>1. /\ winStage' \in [WinActions -> WinStages]
        /\ \A b \in WinActions : winStage'[b] = winStage[b]
                                   \/ (winStage[b] # "none" /\ winStage'[b] = "failed")
    BY <1>2 DEF worker_times_out, WinInv, WinTyped, WinStages
  <2>2. /\ winWorker' = [winWorker EXCEPT !.health = "poisoned"]
        /\ UNCHANGED <<winCuts, winPlan, winJournal, winBoot, winScope, winLate, winHit, winObserved>>
    BY <1>2 DEF worker_times_out, winBootVars, winHistoryVars
  <2> QED
    BY <2>1, <2>2, FailureKeepsCalls, NoEffectAllowed
<1>3. CASE \/ push_event \/ attach \/ attach_failed \/ drain_once \/ release
           \/ realize_virtualized_item_and_refresh
  <2>1. /\ snapshot \/ UNCHANGED <<winCuts, winWorker>>
        /\ UNCHANGED <<winStage, winPlan, winJournal, winBoot, winScope, winLate, winHistoryVars>>
    <3>1. CASE push_event
      BY <3>1 DEF push_event, winActionVars, winBootVars
    <3>2. CASE attach
      BY <3>2 DEF attach, winActionVars
    <3>3. CASE attach_failed
      BY <3>3 DEF attach_failed, winActionVars, winBootVars
    <3>4. CASE drain_once
      BY <3>4 DEF drain_once, winActionVars, winBootVars
    <3>5. CASE release
      BY <3>5 DEF release, winBootVars
    <3>6. CASE realize_virtualized_item_and_refresh
      BY <3>6 DEF realize_virtualized_item_and_refresh, winActionVars, winBootVars
    <3> QED
      BY <1>3, <3>1, <3>2, <3>3, <3>4, <3>5, <3>6
  <2> QED
    BY <2>1, ObservationKeepsCalls, NoEffectAllowed DEF winHistoryVars
<1>4. CASE restart_daemon
  BY <1>4, RestartKeepsCalls, NoEffectAllowed DEF restart_daemon, winHistoryVars
<1>5. CASE recover_newly_attached_boot_debt
  BY <1>5, RecoveryKeepsCalls, NoEffectAllowed DEF recover_newly_attached_boot_debt
<1>6. CASE UNCHANGED winVars
  <2>1. UNCHANGED <<winCuts, winWorker, winStage, winPlan, winJournal, winBoot, winScope, winLate,
                    winHistoryVars>>
    BY <1>6 DEF winVars, winActionVars, winBootVars
  <2> QED
    BY <2>1, ObservationKeepsCalls, NoEffectAllowed DEF winHistoryVars
<1> QED
  BY <1>1, <1>2, <1>3, <1>4, <1>5, <1>6 DEF WinNext

\* The inductive invariant of the Windows provider.
LEMMA WinInvariant == WinSpec => []WinInv
<1>1. WinInit => WinInv
  <2> SUFFICES ASSUME WinInit PROVE WinInv
    OBVIOUS
  <2>1. WinTyped
    BY DEF WinInit, WinTyped, WinStages, WinEarly, WinStates, WinOperations, FreshWorker, NoCut, NoWinAction
  <2>2. CallsAreFirst
    BY WinConstants DEF WinInit, CallsAreFirst, WinConstants, FreshWorker, NoWinAction
  <2>3. LineagesAreOld
    BY DEF WinInit, LineagesAreOld
  <2> QED
    BY <2>1, <2>2, <2>3 DEF WinInv
<1>2. WinInv /\ [WinNext]_winVars => WinInv'
  BY WinStepKeeps
<1> QED
  BY <1>1, <1>2, PTL DEF WinSpec

\* For every set of actions and however often callbacks, drains, timeouts and
\* restarts come between: an effect acts on an element of the cut the person
\* confirmed, once per action, and never after an outcome was observed
\* (uia_worker's retained elements, the executor and the recovery).
THEOREM EffectsStayConfirmedAndFirst == WinSpec => EffectsAreConfirmedAndFirst
<1>1. WinInv /\ [WinNext]_winVars =>
        [\A a \in WinActions : winHit'[a] # winHit[a] =>
           winHit[a] = <<>> /\ winHit'[a] = <<winPlan[a].cut>> /\ a \notin winObserved]_winVars
  BY WinStepKeeps DEF EffectAllowed
<1> QED
  BY <1>1, WinInvariant, PTL DEF WinSpec, EffectsAreConfirmedAndFirst

-----------------------------------------------------------------------------
(* The trusted repair.                                                     *)

CallSteps == {"idle", "preflight", "approved", "waiting", "held", "minted", "written", "moved", "replaced"}
\* A call that begin_apply let through, and one that holds the apply gate.
Begun == {"waiting", "held", "minted", "written", "moved", "replaced"}
Holding == {"held", "minted", "written", "moved", "replaced"}

RepairTyped ==
  /\ rFile \in Contents \cup {"missing"}
  /\ rBackup \in [Fixes -> Contents \cup {"none"}]
  /\ rProposal \in [Fixes -> ProposalStates]
  /\ rPreimage \in [Fixes -> Contents \cup {"none"}]
  /\ rCall \in [ApplyCalls -> [step : CallSteps, fix : Fixes \cup {"none"},
                               seen : Contents \cup {"missing", "none"}, revision : 0..RepairRevisions]]
  /\ rGate \in ApplyCalls \cup {"free"}
  /\ rRecord \in [Fixes -> RecordStates] /\ rDisk \subseteq Fixes
  /\ rStore \in BOOLEAN /\ rBoots \in 1..MaxRepairBoots
  /\ rPage \in {"home", "away", "moved"} /\ rRevision \in 1..RepairRevisions
  /\ rRaced \subseteq rSaved /\ rSaved \subseteq Edits
  /\ rRetired \subseteq Fixes /\ rVerified \subseteq Fixes

\* Calls and proposals: a call is about a fix, one that was let through is the
\* only one of its proposal, which is being applied, and one that went past the
\* checks holds the gate.
CallsAreExclusive ==
  \A c \in ApplyCalls :
    /\ rCall[c].step # "idle" => rCall[c].fix \in Fixes /\ rProposal[rCall[c].fix] \notin {"none", "asked"}
    /\ rCall[c].step \in Begun =>
         /\ rProposal[rCall[c].fix] = "applying"
         /\ \A d \in ApplyCalls : rCall[d].step \in Begun /\ rCall[d].fix = rCall[c].fix => d = c
    /\ rCall[c].step \in Holding => rGate = c

\* The transaction of a call whose source is moved aside: what is at the source
\* is a save that raced it or its own postimage, and the backup is the preimage
\* once the postimage is written.
TransactionIsKnown ==
  \A c \in ApplyCalls :
    LET f == rCall[c].fix IN
    /\ rCall[c].step = "moved" => rFile \in {"missing"} \cup rRaced /\ rBackup[f] # "none"
    /\ rCall[c].step = "replaced" =>
         rFile \in {f} \cup rRaced /\ rBackup[f] = rPreimage[f] /\ rBackup[f] # "none"

\* A baseline that was stored is on disk until it is retired: for a fix whose
\* call is past the minting, and for every postimage in the source or a backup.
BaselinesAreStored ==
  /\ \A c \in ApplyCalls : rCall[c].step \in Holding \ {"held"} => rCall[c].fix \in rDisk \cup rRetired
  /\ \A f \in Fixes : rFile = f => f \in rDisk \cup rRetired
  /\ \A f, g \in Fixes : rBackup[g] = f => f \in rDisk \cup rRetired

\* A fix that has or had a record is not minted another one.
RecordsAreMintedOnce ==
  /\ \A f \in Fixes : rRecord[f] # "none" \/ f \in rDisk \cup rRetired =>
       /\ rProposal[f] \in {"applying", "gone"}
       /\ \A c \in ApplyCalls : rCall[c].fix = f => rCall[c].step \notin {"waiting", "held"}
  /\ rVerified \subseteq rRetired

RepairInv ==
  /\ RepairTyped /\ CallsAreExclusive /\ TransactionIsKnown
  /\ BaselinesAreStored /\ RecordsAreMintedOnce
  /\ RepairIsSafe

\* The names of contents, as the provers need them.
LEMMA NamesAreApart ==
  /\ \A f \in Fixes : f \notin Edits /\ f # "v0" /\ f # "none" /\ f # "missing"
  /\ \A e \in Edits : e \notin Fixes /\ e # "none" /\ e # "missing"
  /\ "none" \notin Contents /\ "missing" \notin Contents
  /\ \A c \in ApplyCalls : c # "free"
BY RepairConstants DEF RepairConstants, Contents

\* A proposal that no call was let through for changes its state.
LEMMA ProposalKeeps ==
  ASSUME RepairInv, NEW f \in Fixes, NEW p \in ProposalStates \ {"none", "applying"},
         rProposal[f] \notin {"applying", "gone"},
         rProposal' = [rProposal EXCEPT ![f] = p],
         p = "asked" => rProposal[f] = "none",
         \/ rPreimage' = rPreimage
         \/ /\ rProposal[f] = "none" /\ rFile # "missing"
            /\ rPreimage' = [rPreimage EXCEPT ![f] = rFile],
         UNCHANGED <<rCall, rGate, fileVars, recordVars, placeVars>>
  PROVE  RepairInv'
<1>1. /\ rCall' = rCall /\ rGate' = rGate /\ rFile' = rFile /\ rBackup' = rBackup
      /\ rSaved' = rSaved /\ rRaced' = rRaced /\ rLost' = rLost /\ rRecord' = rRecord
      /\ rDisk' = rDisk /\ rStore' = rStore /\ rRetired' = rRetired /\ rVerified' = rVerified
      /\ rPage' = rPage /\ rRevision' = rRevision /\ rBoots' = rBoots
  BY DEF fileVars, recordVars, placeVars
<1>2. RepairTyped'
  BY <1>1 DEF RepairInv, RepairTyped
<1>3. \A g \in Fixes : rProposal'[g] = IF g = f THEN p ELSE rProposal[g]
  BY DEF RepairInv, RepairTyped
<1>4. \A c \in ApplyCalls : rCall[c].step # "idle" => rCall[c].fix \in Fixes
  BY DEF RepairInv, CallsAreExclusive
<1>5. CallsAreExclusive'
  <2> SUFFICES ASSUME NEW c \in ApplyCalls
               PROVE  /\ rCall[c].step # "idle" =>
                           rCall[c].fix \in Fixes /\ rProposal'[rCall[c].fix] \notin {"none", "asked"}
                      /\ rCall[c].step \in Begun =>
                           /\ rProposal'[rCall[c].fix] = "applying"
                           /\ \A d \in ApplyCalls :
                                rCall[d].step \in Begun /\ rCall[d].fix = rCall[c].fix => d = c
                      /\ rCall[c].step \in Holding => rGate = c
    BY <1>1 DEF CallsAreExclusive
  <2>1. "idle" \notin Begun
    BY DEF Begun
  <2> QED
    BY <1>3, <1>4, <2>1 DEF RepairInv, CallsAreExclusive, ProposalStates
<1>6. \A c \in ApplyCalls : rCall[c].step \in Begun => rPreimage'[rCall[c].fix] = rPreimage[rCall[c].fix]
  BY <1>4 DEF RepairInv, CallsAreExclusive, Begun, RepairTyped
<1>7. TransactionIsKnown'
  <2>1. "replaced" \in Begun
    BY DEF Begun
  <2> QED
    BY <1>1, <1>6, <2>1 DEF RepairInv, TransactionIsKnown
<1>8. RecordsAreMintedOnce'
  BY <1>1, <1>3 DEF RepairInv, RecordsAreMintedOnce
<1>9. BaselinesAreStored' /\ RepairIsSafe'
  BY <1>1
  DEF RepairInv, BaselinesAreStored, RepairIsSafe, SourceIsKept, FixedSourceIsVerifiable, VerifiedOnce
<1> QED
  BY <1>2, <1>5, <1>7, <1>8, <1>9 DEF RepairInv

\* A call before begin_apply lets it through.
LEMMA PreflightKeeps ==
  ASSUME RepairInv, NEW c \in ApplyCalls, rCall[c].step \in {"idle", "preflight"},
         NEW r \in [step : {"idle", "preflight", "approved"}, fix : Fixes \cup {"none"},
                    seen : Contents \cup {"missing", "none"}, revision : 0..RepairRevisions],
         r.step # "idle" => r.fix \in Fixes /\ rProposal[r.fix] \notin {"none", "asked"},
         rCall' = [rCall EXCEPT ![c] = r],
         UNCHANGED <<rProposal, rPreimage, rGate, fileVars, recordVars, placeVars>>
  PROVE  RepairInv'
<1>1. /\ rProposal' = rProposal /\ rPreimage' = rPreimage
      /\ rGate' = rGate /\ rFile' = rFile /\ rBackup' = rBackup
      /\ rSaved' = rSaved /\ rRaced' = rRaced /\ rLost' = rLost /\ rRecord' = rRecord
      /\ rDisk' = rDisk /\ rStore' = rStore /\ rRetired' = rRetired /\ rVerified' = rVerified
      /\ rPage' = rPage /\ rRevision' = rRevision /\ rBoots' = rBoots
  BY DEF fileVars, recordVars, placeVars
<1>2. RepairTyped'
  <2>1. rCall' \in [ApplyCalls -> [step : CallSteps, fix : Fixes \cup {"none"},
                                   seen : Contents \cup {"missing", "none"}, revision : 0..RepairRevisions]]
    BY DEF RepairInv, RepairTyped, CallSteps
  <2> QED
    BY <1>1, <2>1 DEF RepairInv, RepairTyped
<1>3. \A d \in ApplyCalls : rCall'[d] = IF d = c THEN r ELSE rCall[d]
  BY DEF RepairInv, RepairTyped
<1>4. /\ \A d \in ApplyCalls : rCall'[d].step \in Begun => rCall'[d] = rCall[d] /\ rCall[d].step \in Begun
      /\ \A d \in ApplyCalls : rCall'[d].step # "idle" =>
           rCall'[d].fix \in Fixes /\ rProposal[rCall'[d].fix] \notin {"none", "asked"}
  BY <1>3 DEF Begun, RepairInv, CallsAreExclusive
<1>5. Holding \subseteq Begun /\ {"moved", "replaced", "waiting", "held"} \subseteq Begun
  BY DEF Holding, Begun
<1>6. CallsAreExclusive'
  BY <1>1, <1>4, <1>5 DEF RepairInv, CallsAreExclusive
<1>7. TransactionIsKnown'
  BY <1>1, <1>4, <1>5 DEF RepairInv, TransactionIsKnown
<1>8. BaselinesAreStored'
  BY <1>1, <1>4, <1>5 DEF RepairInv, BaselinesAreStored
<1>9. RecordsAreMintedOnce'
  BY <1>1, <1>4, <1>5 DEF RepairInv, RecordsAreMintedOnce
<1>10. RepairIsSafe'
  BY <1>1 DEF RepairInv, RepairIsSafe, SourceIsKept, FixedSourceIsVerifiable, VerifiedOnce
<1> QED
  BY <1>2, <1>6, <1>7, <1>8, <1>9, <1>10 DEF RepairInv

\* The records move on: none is minted, and what leaves the disk is retired.
LEMMA RecordsKeep ==
  ASSUME RepairInv, rRecord' \in [Fixes -> RecordStates],
         rDisk' \subseteq rDisk, rDisk \subseteq rDisk' \cup rRetired',
         rRetired \subseteq rRetired', rVerified \subseteq rVerified', rVerified' \subseteq rRetired',
         \A f \in Fixes : rRecord'[f] # "none" => rRecord[f] # "none",
         \A f \in rRetired' \ rRetired : f \in Fixes /\ rRecord[f] # "none",
         \A f \in rVerified' \ rVerified : rRecord'[f] = "none" /\ f \notin rDisk',
         UNCHANGED <<rProposal, rPreimage, rCall, rGate, rStore, fileVars, placeVars>>
  PROVE  RepairInv'
<1>1. /\ rProposal' = rProposal /\ rPreimage' = rPreimage /\ rCall' = rCall
      /\ rGate' = rGate /\ rFile' = rFile /\ rBackup' = rBackup
      /\ rSaved' = rSaved /\ rRaced' = rRaced /\ rLost' = rLost /\ rStore' = rStore
      /\ rPage' = rPage /\ rRevision' = rRevision /\ rBoots' = rBoots
  BY DEF fileVars, placeVars
<1>2. RepairTyped'
  BY <1>1 DEF RepairInv, RepairTyped
<1>3. CallsAreExclusive' /\ TransactionIsKnown'
  BY <1>1 DEF RepairInv, CallsAreExclusive, TransactionIsKnown
<1>4. BaselinesAreStored'
  BY <1>1 DEF RepairInv, BaselinesAreStored
<1>5. RecordsAreMintedOnce'
  BY <1>1 DEF RepairInv, RecordsAreMintedOnce
<1>6. SourceIsKept' /\ FixedSourceIsVerifiable'
  BY <1>1 DEF RepairInv, RepairIsSafe, SourceIsKept, FixedSourceIsVerifiable
<1>7. VerifiedOnce'
  <2>1. rVerified' \subseteq Fixes
    BY <1>2 DEF RepairTyped
  <2> QED
    BY <2>1 DEF RepairInv, RepairIsSafe, VerifiedOnce
<1> QED
  BY <1>2, <1>3, <1>4, <1>5, <1>6, <1>7 DEF RepairInv, RepairIsSafe

\* begin_apply takes the proposal: it was pending, so no other call had it.
LEMMA BeginKeeps ==
  ASSUME RepairInv, NEW c \in ApplyCalls, begin_apply(c)
  PROVE  RepairInv'
<1> DEFINE f == rCall[c].fix
           ok == rCall[c].revision \in {0, rRevision} /\ rProposal[f] = "pending"
<1>1. /\ rCall[c].step = "approved" /\ f \in Fixes
      /\ rCall[c] \in [step : CallSteps, fix : Fixes \cup {"none"},
                       seen : Contents \cup {"missing", "none"}, revision : 0..RepairRevisions]
  BY DEF begin_apply, RepairInv, RepairTyped, CallsAreExclusive
<1>2. UNCHANGED <<rPreimage, rGate, fileVars, recordVars, placeVars>>
  BY DEF begin_apply
<1>3. CASE ~ok
  <2>1. rProposal' = rProposal /\ rCall' = [rCall EXCEPT ![c] = IdleCall]
    BY <1>3 DEF begin_apply
  <2>2. /\ rCall' = [d \in ApplyCalls |-> IF d = c THEN IdleCall ELSE rCall[d]]
    BY <2>1 DEF RepairInv, RepairTyped
  <2>3. /\ rPreimage' = rPreimage
        /\ rGate' = rGate /\ rFile' = rFile /\ rBackup' = rBackup
        /\ rSaved' = rSaved /\ rRaced' = rRaced /\ rLost' = rLost /\ rRecord' = rRecord
        /\ rDisk' = rDisk /\ rStore' = rStore /\ rRetired' = rRetired /\ rVerified' = rVerified
        /\ rPage' = rPage /\ rRevision' = rRevision /\ rBoots' = rBoots
    BY <1>2 DEF fileVars, recordVars, placeVars
  <2>4. IdleCall \in [step : CallSteps, fix : Fixes \cup {"none"},
                      seen : Contents \cup {"missing", "none"}, revision : 0..RepairRevisions]
    BY RepairConstants DEF IdleCall, CallSteps, RepairConstants
  <2>5. RepairTyped'
    <3>1. rCall' \in [ApplyCalls -> [step : CallSteps, fix : Fixes \cup {"none"},
                                     seen : Contents \cup {"missing", "none"},
                                     revision : 0..RepairRevisions]]
      BY <2>2, <2>4 DEF RepairInv, RepairTyped
    <3> QED
      BY <2>1, <2>3, <3>1 DEF RepairInv, RepairTyped
  <2>6. IdleCall.step = "idle" /\ "idle" \notin Begun
    BY DEF IdleCall, Begun
  <2>7. \A d \in ApplyCalls : rCall'[d].step # "idle" => rCall'[d] = rCall[d]
    BY <2>2, <2>6
  <2>8. Holding \subseteq Begun /\ {"moved", "replaced", "waiting", "held"} \subseteq Begun
    BY DEF Holding, Begun
  <2>9. CallsAreExclusive'
    BY <2>1, <2>3, <2>6, <2>7, <2>8 DEF RepairInv, CallsAreExclusive
  <2>10. TransactionIsKnown'
    BY <2>3, <2>7 DEF RepairInv, TransactionIsKnown
  <2>11. BaselinesAreStored'
    BY <2>3, <2>6, <2>7, <2>8 DEF RepairInv, BaselinesAreStored
  <2>12. RecordsAreMintedOnce'
    BY <2>1, <2>3, <2>7 DEF RepairInv, RecordsAreMintedOnce
  <2>13. RepairIsSafe'
    BY <2>3 DEF RepairInv, RepairIsSafe, SourceIsKept, FixedSourceIsVerifiable, VerifiedOnce
  <2> QED
    BY <2>5, <2>9, <2>10, <2>11, <2>12, <2>13 DEF RepairInv
<1>4. CASE ok
  <2> DEFINE r == [rCall[c] EXCEPT !.step = "waiting", !.revision = 0]
  <2>1. /\ rProposal' = [rProposal EXCEPT ![f] = "applying"]
        /\ rCall' = [rCall EXCEPT ![c] = r]
    BY <1>4 DEF begin_apply, RepairInv, RepairTyped
  <2>2. /\ r \in [step : CallSteps, fix : Fixes \cup {"none"},
                  seen : Contents \cup {"missing", "none"}, revision : 0..RepairRevisions]
        /\ r.step = "waiting" /\ r.fix = f
    <3>1. 0 \in 0..RepairRevisions /\ "waiting" \in CallSteps
      BY RepairConstants DEF CallSteps, RepairConstants
    <3> QED
      BY <1>1, <3>1
  <2> HIDE DEF r
  <2>3. rProposal[f] = "pending"
    BY <1>4
  <2>4. /\ \A g \in Fixes : rProposal'[g] = IF g = f THEN "applying" ELSE rProposal[g]
        /\ \A d \in ApplyCalls : rCall'[d] = IF d = c THEN r ELSE rCall[d]
    BY <2>1 DEF RepairInv, RepairTyped
  <2>5. /\ rPreimage' = rPreimage
        /\ rGate' = rGate /\ rFile' = rFile /\ rBackup' = rBackup
        /\ rSaved' = rSaved /\ rRaced' = rRaced /\ rLost' = rLost /\ rRecord' = rRecord
        /\ rDisk' = rDisk /\ rStore' = rStore /\ rRetired' = rRetired /\ rVerified' = rVerified
        /\ rPage' = rPage /\ rRevision' = rRevision /\ rBoots' = rBoots
    BY <1>2 DEF fileVars, recordVars, placeVars
  <2>6. RepairTyped'
    <3>1. rCall' \in [ApplyCalls -> [step : CallSteps, fix : Fixes \cup {"none"},
                                     seen : Contents \cup {"missing", "none"},
                                     revision : 0..RepairRevisions]]
      BY <2>1, <2>2 DEF RepairInv, RepairTyped
    <3>2. rProposal' \in [Fixes -> ProposalStates]
      BY <2>1 DEF RepairInv, RepairTyped, ProposalStates
    <3> QED
      BY <2>5, <3>1, <3>2 DEF RepairInv, RepairTyped
  <2>7. \A d \in ApplyCalls : rCall[d].step \in Begun => rCall[d].fix # f
    BY <2>3 DEF RepairInv, CallsAreExclusive
  <2>8. Holding \subseteq Begun /\ {"moved", "replaced", "waiting", "held"} \subseteq Begun
        /\ "waiting" \notin Holding /\ "idle" \notin Begun
    BY DEF Holding, Begun
  <2>9. CallsAreExclusive'
    <3> SUFFICES ASSUME NEW d \in ApplyCalls
                 PROVE  /\ rCall'[d].step # "idle" =>
                             rCall'[d].fix \in Fixes /\ rProposal'[rCall'[d].fix] \notin {"none", "asked"}
                        /\ rCall'[d].step \in Begun =>
                             /\ rProposal'[rCall'[d].fix] = "applying"
                             /\ \A e \in ApplyCalls :
                                  rCall'[e].step \in Begun /\ rCall'[e].fix = rCall'[d].fix => e = d
                        /\ rCall'[d].step \in Holding => rGate = d
      BY <2>5 DEF CallsAreExclusive
    <3>1. CASE d = c
      BY <1>1, <2>2, <2>4, <2>7, <2>8, <3>1
    <3>2. CASE d # c
      <4>1. rCall'[d] = rCall[d]
        BY <2>4, <3>2
      <4> QED
        BY <1>1, <2>2, <2>4, <2>7, <2>8, <3>2, <4>1 DEF RepairInv, CallsAreExclusive
    <3> QED
      BY <3>1, <3>2
  <2>10. TransactionIsKnown'
    BY <2>2, <2>4, <2>5 DEF RepairInv, TransactionIsKnown
  <2>11. BaselinesAreStored'
    BY <2>2, <2>4, <2>5, <2>8 DEF RepairInv, BaselinesAreStored
  <2>12. RecordsAreMintedOnce'
    <3>1. rRecord[f] = "none" /\ f \notin rDisk \cup rRetired
      BY <1>1, <2>3 DEF RepairInv, RecordsAreMintedOnce
    <3> QED
      BY <2>2, <2>4, <2>5, <3>1 DEF RepairInv, RecordsAreMintedOnce
  <2>13. RepairIsSafe'
    BY <2>5 DEF RepairInv, RepairIsSafe, SourceIsKept, FixedSourceIsVerifiable, VerifiedOnce
  <2> QED
    BY <2>6, <2>9, <2>10, <2>11, <2>12, <2>13 DEF RepairInv
<1> QED
  BY <1>3, <1>4

\* A call that was let through moves to its next step; what the step does to the
\* gate, the file and the records is shown per step.
LEMMA CallMoves ==
  ASSUME RepairInv, NEW c \in ApplyCalls, NEW to \in Holding, rCall[c].step \in Begun, CallAt(c, to),
         rProposal' = rProposal, rGate' = c, rGate \in {c, "free"},
         rGate = "free" => \A d \in ApplyCalls : rCall[d].step \notin Holding
  PROVE  /\ rCall' \in [ApplyCalls -> [step : CallSteps, fix : Fixes \cup {"none"},
                                       seen : Contents \cup {"missing", "none"},
                                       revision : 0..RepairRevisions]]
         /\ \A d \in ApplyCalls : d # c => rCall'[d] = rCall[d] /\ rCall[d].step \notin Holding
         /\ rCall'[c].step = to /\ rCall'[c].fix = rCall[c].fix /\ rCall[c].fix \in Fixes
         /\ rProposal[rCall[c].fix] = "applying"
         /\ CallsAreExclusive'
<1>1. rCall[c] \in [step : CallSteps, fix : Fixes \cup {"none"},
                    seen : Contents \cup {"missing", "none"}, revision : 0..RepairRevisions]
  BY DEF RepairInv, RepairTyped
<1>2. rCall' = [rCall EXCEPT ![c] = [rCall[c] EXCEPT !.step = to]]
  BY DEF CallAt, RepairInv, RepairTyped
<1>3. /\ [rCall[c] EXCEPT !.step = to] \in [step : CallSteps, fix : Fixes \cup {"none"},
                    seen : Contents \cup {"missing", "none"}, revision : 0..RepairRevisions]
      /\ [rCall[c] EXCEPT !.step = to].step = to
      /\ [rCall[c] EXCEPT !.step = to].fix = rCall[c].fix
  BY <1>1 DEF CallSteps, Holding
<1>4. /\ rCall' \in [ApplyCalls -> [step : CallSteps, fix : Fixes \cup {"none"},
                                    seen : Contents \cup {"missing", "none"},
                                    revision : 0..RepairRevisions]]
      /\ rCall'[c].step = to /\ rCall'[c].fix = rCall[c].fix
      /\ \A d \in ApplyCalls : d # c => rCall'[d] = rCall[d]
  BY <1>2, <1>3 DEF RepairInv, RepairTyped
<1>5. \A d \in ApplyCalls : d # c => rCall[d].step \notin Holding
  BY NamesAreApart DEF RepairInv, CallsAreExclusive
<1>6. Holding \subseteq Begun /\ "idle" \notin Begun
  BY DEF Holding, Begun
<1>7. rCall[c].fix \in Fixes /\ rProposal[rCall[c].fix] = "applying"
  BY <1>6 DEF RepairInv, CallsAreExclusive
<1>8. CallsAreExclusive'
  <2> SUFFICES ASSUME NEW d \in ApplyCalls
               PROVE  /\ rCall'[d].step # "idle" =>
                           rCall'[d].fix \in Fixes /\ rProposal[rCall'[d].fix] \notin {"none", "asked"}
                      /\ rCall'[d].step \in Begun =>
                           /\ rProposal[rCall'[d].fix] = "applying"
                           /\ \A e \in ApplyCalls :
                                rCall'[e].step \in Begun /\ rCall'[e].fix = rCall'[d].fix => e = d
                      /\ rCall'[d].step \in Holding => c = d
    BY DEF CallsAreExclusive
  <2>1. \A e \in ApplyCalls : /\ rCall'[e].fix = rCall[e].fix
                              /\ rCall'[e].step \in Begun => rCall[e].step \in Begun
                              /\ rCall'[e].step # "idle" => rCall[e].step # "idle"
    BY <1>4, <1>6
  <2>2. rCall'[d].step \in Holding => c = d
    BY <1>4, <1>5
  <2> QED
    BY <2>1, <2>2 DEF RepairInv, CallsAreExclusive
<1> QED
  BY <1>4, <1>5, <1>7, <1>8

\* The gate is taken, or the temporary file is written: the files stay as they are.
LEMMA GateKeeps ==
  ASSUME RepairInv, NEW c \in ApplyCalls, apply_fix_proposal(c) \/ write_temporary(c)
  PROVE  RepairInv'
<1>1. PICK to \in {"held", "written"} :
        /\ CallAt(c, to) /\ rCall[c].step = (IF to = "held" THEN "waiting" ELSE "minted")
        /\ rGate' = c
        /\ rGate = (IF to = "held" THEN "free" ELSE c)
  BY DEF apply_fix_proposal, write_temporary, RepairInv, CallsAreExclusive, Holding
<1>2. /\ rProposal' = rProposal /\ rPreimage' = rPreimage /\ rFile' = rFile /\ rBackup' = rBackup
      /\ rSaved' = rSaved /\ rRaced' = rRaced /\ rLost' = rLost /\ rRecord' = rRecord
      /\ rDisk' = rDisk /\ rStore' = rStore /\ rRetired' = rRetired /\ rVerified' = rVerified
      /\ rPage' = rPage /\ rRevision' = rRevision /\ rBoots' = rBoots
  BY DEF apply_fix_proposal, write_temporary, fileVars, recordVars, placeVars
<1>3. rGate = "free" => \A d \in ApplyCalls : rCall[d].step \notin Holding
  BY NamesAreApart DEF RepairInv, CallsAreExclusive
<1>4. /\ rCall' \in [ApplyCalls -> [step : CallSteps, fix : Fixes \cup {"none"},
                                    seen : Contents \cup {"missing", "none"},
                                    revision : 0..RepairRevisions]]
      /\ \A d \in ApplyCalls : d # c => rCall'[d] = rCall[d] /\ rCall[d].step \notin Holding
      /\ rCall'[c].step = to /\ rCall'[c].fix = rCall[c].fix /\ rCall[c].fix \in Fixes
      /\ CallsAreExclusive'
  <2>1. to \in Holding /\ rCall[c].step \in Begun
    BY <1>1 DEF Holding, Begun
  <2> QED
    BY <1>1, <1>2, <1>3, <2>1, CallMoves
<1>5. RepairTyped'
  BY <1>1, <1>2, <1>4 DEF RepairInv, RepairTyped
<1>6. TransactionIsKnown'
  BY <1>2, <1>4 DEF RepairInv, TransactionIsKnown, Holding
<1>7. BaselinesAreStored'
  <2>1. \A d \in ApplyCalls : rCall'[d].step \in Holding \ {"held"} =>
          /\ rCall[d].step \in Holding \ {"held"} /\ rCall'[d].fix = rCall[d].fix
    BY <1>1, <1>4 DEF Holding
  <2> QED
    BY <1>2, <2>1 DEF RepairInv, BaselinesAreStored
<1>8. RecordsAreMintedOnce'
  <2>1. \A d \in ApplyCalls : rCall'[d].step \in {"waiting", "held"} =>
          /\ rCall[d].step \in {"waiting", "held"} /\ rCall'[d].fix = rCall[d].fix
    BY <1>1, <1>4
  <2> QED
    BY <1>2, <1>4, <2>1 DEF RepairInv, RecordsAreMintedOnce
<1>9. RepairIsSafe'
  BY <1>2 DEF RepairInv, RepairIsSafe, SourceIsKept, FixedSourceIsVerifiable, VerifiedOnce
<1> QED
  BY <1>4, <1>5, <1>6, <1>7, <1>8, <1>9 DEF RepairInv

\* The baseline is stored, on disk first.
LEMMA MintKeeps ==
  ASSUME RepairInv, NEW c \in ApplyCalls, mint_verification_baseline(c)
  PROVE  RepairInv'
<1> DEFINE f == rCall[c].fix
<1>1. /\ CallAt(c, "minted") /\ rCall[c].step = "held"
      /\ rDisk' = rDisk \cup {f} /\ rRecord' = [rRecord EXCEPT ![f] = "pending"]
  BY DEF mint_verification_baseline, insert_record, persist_record
<1>2. /\ rProposal' = rProposal /\ rPreimage' = rPreimage /\ rFile' = rFile /\ rBackup' = rBackup
      /\ rSaved' = rSaved /\ rRaced' = rRaced /\ rLost' = rLost /\ rGate' = rGate
      /\ rStore' = rStore /\ rRetired' = rRetired /\ rVerified' = rVerified
      /\ rPage' = rPage /\ rRevision' = rRevision /\ rBoots' = rBoots
  BY DEF mint_verification_baseline, fileVars, placeVars
<1>3. rGate = c /\ rCall[c].step \in Begun /\ "minted" \in Holding
  BY <1>1 DEF Holding, Begun, RepairInv, CallsAreExclusive
<1>4. /\ rCall' \in [ApplyCalls -> [step : CallSteps, fix : Fixes \cup {"none"},
                                    seen : Contents \cup {"missing", "none"},
                                    revision : 0..RepairRevisions]]
      /\ \A d \in ApplyCalls : d # c => rCall'[d] = rCall[d] /\ rCall[d].step \notin Holding
      /\ rCall'[c].step = "minted" /\ rCall'[c].fix = f /\ f \in Fixes
      /\ rProposal[f] = "applying"
      /\ CallsAreExclusive'
  BY <1>1, <1>2, <1>3, NamesAreApart, CallMoves
<1>5. f \notin rRetired /\ f \notin rVerified
  BY <1>1, <1>4 DEF RepairInv, RecordsAreMintedOnce
<1>6. \A g \in Fixes : rRecord'[g] = IF g = f THEN "pending" ELSE rRecord[g]
  BY <1>1 DEF RepairInv, RepairTyped
<1>7. RepairTyped'
  <2>1. rRecord' \in [Fixes -> RecordStates] /\ rDisk' \subseteq Fixes
    BY <1>1, <1>4 DEF RepairInv, RepairTyped, RecordStates
  <2> QED
    BY <1>2, <1>4, <2>1 DEF RepairInv, RepairTyped
<1>8. TransactionIsKnown'
  BY <1>2, <1>4 DEF RepairInv, TransactionIsKnown, Holding
<1>9. BaselinesAreStored'
  BY <1>1, <1>2, <1>4 DEF RepairInv, BaselinesAreStored
<1>10. RecordsAreMintedOnce'
  <2>1. \A d \in ApplyCalls : d # c /\ rCall[d].step \in Begun => rCall[d].fix # f
    BY <1>3, <1>4 DEF RepairInv, CallsAreExclusive
  <2>2. {"waiting", "held"} \subseteq Begun
    BY DEF Begun
  <2> QED
    BY <1>1, <1>2, <1>4, <1>6, <2>1, <2>2 DEF RepairInv, RecordsAreMintedOnce
<1>11. RepairIsSafe'
  <2>1. \A g \in rVerified : g \in Fixes /\ g # f
    BY <1>5 DEF RepairInv, RepairTyped
  <2> QED
    BY <1>1, <1>2, <1>6, <2>1
    DEF RepairInv, RepairIsSafe, SourceIsKept, FixedSourceIsVerifiable, VerifiedOnce
<1> QED
  BY <1>4, <1>7, <1>8, <1>9, <1>10, <1>11 DEF RepairInv

\* The source becomes the backup, then the postimage becomes the source.
LEMMA MoveKeeps ==
  ASSUME RepairInv, NEW c \in ApplyCalls, rename_to_backup(c)
  PROVE  RepairInv'
<1> DEFINE f == rCall[c].fix
<1>1. /\ CallAt(c, "moved") /\ rCall[c].step = "written" /\ rFile # "missing"
      /\ rBackup' = [rBackup EXCEPT ![f] = rFile] /\ rFile' = "missing"
  BY DEF rename_to_backup
<1>2. /\ rProposal' = rProposal /\ rPreimage' = rPreimage /\ rSaved' = rSaved /\ rRaced' = rRaced
      /\ rLost' = rLost /\ rGate' = rGate /\ rRecord' = rRecord /\ rDisk' = rDisk
      /\ rStore' = rStore /\ rRetired' = rRetired /\ rVerified' = rVerified
      /\ rPage' = rPage /\ rRevision' = rRevision /\ rBoots' = rBoots
  BY DEF rename_to_backup, recordVars, placeVars
<1>3. rGate = c /\ rCall[c].step \in Begun /\ "moved" \in Holding
  BY <1>1 DEF Holding, Begun, RepairInv, CallsAreExclusive
<1>4. /\ rCall' \in [ApplyCalls -> [step : CallSteps, fix : Fixes \cup {"none"},
                                    seen : Contents \cup {"missing", "none"},
                                    revision : 0..RepairRevisions]]
      /\ \A d \in ApplyCalls : d # c => rCall'[d] = rCall[d] /\ rCall[d].step \notin Holding
      /\ rCall'[c].step = "moved" /\ rCall'[c].fix = f /\ f \in Fixes
      /\ CallsAreExclusive'
  BY <1>1, <1>2, <1>3, NamesAreApart, CallMoves
<1>5. rFile \in Contents /\ rFile # "none"
  BY <1>1, NamesAreApart DEF RepairInv, RepairTyped
<1>6. \A g \in Fixes : rBackup'[g] = IF g = f THEN rFile ELSE rBackup[g]
  BY <1>1 DEF RepairInv, RepairTyped
<1>7. RepairTyped'
  <2>1. rBackup' \in [Fixes -> Contents \cup {"none"}]
    BY <1>1, <1>5 DEF RepairInv, RepairTyped
  <2> QED
    BY <1>1, <1>2, <1>4, <2>1 DEF RepairInv, RepairTyped
<1>8. TransactionIsKnown'
  BY <1>1, <1>4, <1>5, <1>6 DEF TransactionIsKnown, Holding
<1>9. BaselinesAreStored'
  <2>1. f \in rDisk \cup rRetired
    BY <1>1, <1>4 DEF RepairInv, BaselinesAreStored, Holding
  <2> QED
    BY <1>1, <1>2, <1>4, <1>6, <2>1, NamesAreApart DEF RepairInv, BaselinesAreStored
<1>10. RecordsAreMintedOnce'
  BY <1>2, <1>4 DEF RepairInv, RecordsAreMintedOnce
<1>11. RepairIsSafe'
  BY <1>1, <1>2, <1>4, <1>5, <1>6, NamesAreApart
  DEF RepairInv, RepairIsSafe, SourceIsKept, FixedSourceIsVerifiable, VerifiedOnce
<1> QED
  BY <1>4, <1>7, <1>8, <1>9, <1>10, <1>11 DEF RepairInv

\* rename_to_target puts the fix in place of what was backed up.
LEMMA ReplaceKeeps ==
  ASSUME RepairInv, NEW c \in ApplyCalls, rename_to_target(c)
  PROVE  RepairInv'
<1> DEFINE f == rCall[c].fix
<1>1. /\ CallAt(c, "replaced") /\ rCall[c].step = "moved" /\ rBackup[f] = rPreimage[f]
      /\ rLost' = rLost \cup ({rFile} \ {"missing"}) /\ rFile' = f
  BY DEF rename_to_target
<1>2. /\ rProposal' = rProposal /\ rPreimage' = rPreimage /\ rSaved' = rSaved /\ rRaced' = rRaced
      /\ rBackup' = rBackup /\ rGate' = rGate /\ rRecord' = rRecord /\ rDisk' = rDisk
      /\ rStore' = rStore /\ rRetired' = rRetired /\ rVerified' = rVerified
      /\ rPage' = rPage /\ rRevision' = rRevision /\ rBoots' = rBoots
  BY DEF rename_to_target, recordVars, placeVars
<1>3. rGate = c /\ rCall[c].step \in Begun /\ "replaced" \in Holding
  BY <1>1 DEF Holding, Begun, RepairInv, CallsAreExclusive
<1>4. /\ rCall' \in [ApplyCalls -> [step : CallSteps, fix : Fixes \cup {"none"},
                                    seen : Contents \cup {"missing", "none"},
                                    revision : 0..RepairRevisions]]
      /\ \A d \in ApplyCalls : d # c => rCall'[d] = rCall[d] /\ rCall[d].step \notin Holding
      /\ rCall'[c].step = "replaced" /\ rCall'[c].fix = f /\ f \in Fixes
      /\ CallsAreExclusive'
  BY <1>1, <1>2, <1>3, NamesAreApart, CallMoves
<1>5. rFile \in {"missing"} \cup rRaced /\ rBackup[f] # "none" /\ f \in rDisk \cup rRetired
  BY <1>1, <1>4 DEF RepairInv, TransactionIsKnown, BaselinesAreStored, Holding
<1>6. RepairTyped'
  BY <1>1, <1>2, <1>4 DEF RepairInv, RepairTyped, Contents
<1>7. TransactionIsKnown'
  BY <1>1, <1>2, <1>4, <1>5 DEF TransactionIsKnown, Holding
<1>8. BaselinesAreStored'
  BY <1>1, <1>2, <1>4, <1>5 DEF RepairInv, BaselinesAreStored
<1>9. RecordsAreMintedOnce'
  BY <1>2, <1>4 DEF RepairInv, RecordsAreMintedOnce
<1>10. RepairIsSafe'
  BY <1>1, <1>2, <1>4, <1>5, NamesAreApart
  DEF RepairInv, RepairIsSafe, SourceIsKept, FixedSourceIsVerifiable, VerifiedOnce
<1> QED
  BY <1>4, <1>6, <1>7, <1>8, <1>9, <1>10 DEF RepairInv

\* A call that was let through returns, one way or the other: nobody holds the
\* gate then.
LEMMA CallReturns ==
  ASSUME RepairInv, NEW c \in ApplyCalls, rCall[c].step \in Begun,
         rCall[c].step = "waiting" => rGate = "free",
         Returned(c), Freed(c), rProposal' = [rProposal EXCEPT ![rCall[c].fix] = "gone"]
  PROVE  /\ rCall' \in [ApplyCalls -> [step : CallSteps, fix : Fixes \cup {"none"},
                                       seen : Contents \cup {"missing", "none"},
                                       revision : 0..RepairRevisions]]
         /\ rGate' \in ApplyCalls \cup {"free"} /\ rProposal' \in [Fixes -> ProposalStates]
         /\ \A d \in ApplyCalls : rCall'[d].step \notin Holding
         /\ \A d \in ApplyCalls : rCall'[d].step # "idle" => rCall'[d] = rCall[d] /\ d # c
         /\ \A g \in Fixes : rProposal'[g] = IF g = rCall[c].fix THEN "gone" ELSE rProposal[g]
         /\ rCall[c].fix \in Fixes
         /\ CallsAreExclusive' /\ TransactionIsKnown'
<1> DEFINE f == rCall[c].fix
<1>1. Holding \subseteq Begun /\ "idle" \notin Begun /\ Begun \ Holding = {"waiting"}
      /\ {"moved", "replaced"} \subseteq Holding
  BY DEF Holding, Begun
<1>2. f \in Fixes /\ rProposal[f] = "applying"
  BY <1>1 DEF RepairInv, CallsAreExclusive
<1>3. rCall' = [d \in ApplyCalls |-> IF d = c THEN IdleCall ELSE rCall[d]]
  BY DEF Returned, RepairInv, RepairTyped
<1>4. /\ IdleCall \in [step : CallSteps, fix : Fixes \cup {"none"},
                       seen : Contents \cup {"missing", "none"}, revision : 0..RepairRevisions]
      /\ IdleCall.step = "idle"
  BY RepairConstants DEF IdleCall, CallSteps, RepairConstants
<1>5. rCall' \in [ApplyCalls -> [step : CallSteps, fix : Fixes \cup {"none"},
                                 seen : Contents \cup {"missing", "none"}, revision : 0..RepairRevisions]]
  BY <1>3, <1>4 DEF RepairInv, RepairTyped
<1>6. \A d \in ApplyCalls : rCall'[d].step # "idle" => rCall'[d] = rCall[d] /\ d # c
  BY <1>3, <1>4
<1>7. \A d \in ApplyCalls : rCall'[d].step \notin Holding
  <2>1. \A d \in ApplyCalls : d # c => rCall[d].step \notin Holding
    BY <1>1, NamesAreApart DEF RepairInv, CallsAreExclusive
  <2> QED
    BY <1>1, <1>6, <2>1
<1>8. /\ rProposal' \in [Fixes -> ProposalStates]
      /\ \A g \in Fixes : rProposal'[g] = IF g = f THEN "gone" ELSE rProposal[g]
  BY <1>2 DEF RepairInv, RepairTyped, ProposalStates
<1>9. rGate' \in ApplyCalls \cup {"free"}
  BY DEF Freed, RepairInv, RepairTyped
<1>10. CallsAreExclusive'
  <2> SUFFICES ASSUME NEW d \in ApplyCalls
               PROVE  /\ rCall'[d].step # "idle" =>
                           rCall'[d].fix \in Fixes /\ rProposal'[rCall'[d].fix] \notin {"none", "asked"}
                      /\ rCall'[d].step \in Begun =>
                           /\ rProposal'[rCall'[d].fix] = "applying"
                           /\ \A e \in ApplyCalls :
                                rCall'[e].step \in Begun /\ rCall'[e].fix = rCall'[d].fix => e = d
    BY <1>7 DEF CallsAreExclusive
  <2>1. ASSUME rCall'[d].step # "idle" PROVE rCall'[d] = rCall[d] /\ d # c
    BY <1>6, <2>1
  <2>2. rCall'[d].step # "idle" =>
          rCall'[d].fix \in Fixes /\ rProposal'[rCall'[d].fix] \notin {"none", "asked"}
    BY <1>8, <2>1 DEF RepairInv, CallsAreExclusive
  <2>3. rCall'[d].step \in Begun =>
          /\ rProposal'[rCall'[d].fix] = "applying"
          /\ \A e \in ApplyCalls :
               rCall'[e].step \in Begun /\ rCall'[e].fix = rCall'[d].fix => e = d
    <3> SUFFICES ASSUME rCall'[d].step \in Begun
                 PROVE  /\ rProposal'[rCall'[d].fix] = "applying"
                        /\ \A e \in ApplyCalls :
                             rCall'[e].step \in Begun /\ rCall'[e].fix = rCall'[d].fix => e = d
      OBVIOUS
    <3>1. rCall'[d] = rCall[d] /\ d # c
      BY <1>1, <2>1
    <3>2. \A e \in ApplyCalls : rCall'[e].step \in Begun => rCall'[e] = rCall[e]
      BY <1>1, <1>6
    <3> QED
      BY <1>8, <3>1, <3>2 DEF RepairInv, CallsAreExclusive
  <2> QED
    BY <2>2, <2>3
<1>11. TransactionIsKnown'
  BY <1>1, <1>7 DEF TransactionIsKnown
<1> QED
  BY <1>2, <1>5, <1>6, <1>7, <1>8, <1>9, <1>10, <1>11

\* The end of a call: of the files only a backup goes or comes back, of the
\* records one may be retired.
LEMMA EndKeeps ==
  ASSUME RepairInv, NEW c \in ApplyCalls, rCall[c].step \in Begun,
         rCall[c].step = "waiting" => rGate = "free",
         Returned(c), Freed(c), rProposal' = [rProposal EXCEPT ![rCall[c].fix] = "gone"],
         rFile' \in Contents \cup {"missing"}, rBackup' \in [Fixes -> Contents \cup {"none"}],
         \A g \in Fixes : rFile' = g => rFile = g \/ \E h \in Fixes : rBackup[h] = g,
         \A g \in Fixes : rBackup'[g] = rBackup[g] \/ rBackup'[g] = "none",
         rFile' = "missing" => \E g \in Fixes : rBackup'[g] # "none",
         rLost' \subseteq rRaced, rSaved' = rSaved, rRaced' = rRaced,
         \/ UNCHANGED recordVars
         \/ /\ rRecord' = [rRecord EXCEPT ![rCall[c].fix] = "none"]
            /\ rDisk' = rDisk \ {rCall[c].fix} /\ rRetired' = rRetired \cup {rCall[c].fix}
            /\ UNCHANGED <<rStore, rVerified>>,
         UNCHANGED <<rPreimage, placeVars>>
  PROVE  RepairInv'
<1> DEFINE f == rCall[c].fix
<1>1. /\ rCall' \in [ApplyCalls -> [step : CallSteps, fix : Fixes \cup {"none"},
                                    seen : Contents \cup {"missing", "none"},
                                    revision : 0..RepairRevisions]]
      /\ rGate' \in ApplyCalls \cup {"free"} /\ rProposal' \in [Fixes -> ProposalStates]
      /\ \A d \in ApplyCalls : rCall'[d].step \notin Holding
      /\ \A d \in ApplyCalls : rCall'[d].step # "idle" => rCall'[d] = rCall[d] /\ d # c
      /\ \A g \in Fixes : rProposal'[g] = IF g = f THEN "gone" ELSE rProposal[g]
      /\ f \in Fixes
      /\ CallsAreExclusive' /\ TransactionIsKnown'
  BY CallReturns
<1>2. /\ rStore' = rStore /\ rVerified' = rVerified /\ rPreimage' = rPreimage
      /\ rPage' = rPage /\ rRevision' = rRevision /\ rBoots' = rBoots
  BY DEF recordVars, placeVars
<1>3. /\ rRecord' \in [Fixes -> RecordStates]
      /\ \A g \in Fixes : rRecord'[g] # "none" => rRecord[g] # "none"
      /\ rDisk' \subseteq rDisk /\ rDisk \subseteq rDisk' \cup rRetired'
      /\ rRetired \subseteq rRetired' /\ rRetired' \subseteq rRetired \cup {f}
  BY <1>1 DEF RepairInv, RepairTyped, RecordStates, recordVars
<1>4. RepairTyped'
  BY <1>1, <1>2, <1>3 DEF RepairInv, RepairTyped
<1>5. BaselinesAreStored'
  <2>1. \A g \in Fixes : rFile' = g => g \in rDisk \cup rRetired
    BY DEF RepairInv, BaselinesAreStored
  <2>2. \A g, h \in Fixes : rBackup'[h] = g => g \in rDisk \cup rRetired
    BY NamesAreApart DEF RepairInv, BaselinesAreStored
  <2> QED
    BY <1>1, <1>3, <2>1, <2>2 DEF BaselinesAreStored
<1>6. RecordsAreMintedOnce'
  <2>1. \A d \in ApplyCalls : rCall[d].step \in Begun /\ rCall[d].fix = f => d = c
    BY DEF RepairInv, CallsAreExclusive
  <2>2. {"waiting", "held"} \subseteq Begun /\ "idle" \notin Begun
    BY DEF Begun
  <2>3. \A d \in ApplyCalls : rCall'[d].step \in {"waiting", "held"} =>
          rCall'[d] = rCall[d] /\ rCall[d].fix # f
    BY <1>1, <2>1, <2>2
  <2>4. \A g \in Fixes : rRecord'[g] # "none" \/ g \in rDisk' \cup rRetired' =>
          g = f \/ rRecord[g] # "none" \/ g \in rDisk \cup rRetired
    BY <1>3
  <2> QED
    BY <1>1, <1>2, <1>3, <2>3, <2>4 DEF RepairInv, RecordsAreMintedOnce
<1>7. RepairIsSafe'
  <2>1. SourceIsKept'
    BY DEF SourceIsKept
  <2>2. FixedSourceIsVerifiable'
    BY <1>5 DEF BaselinesAreStored, FixedSourceIsVerifiable
  <2>3. VerifiedOnce'
    BY <1>2, <1>3 DEF RepairInv, RepairTyped, RepairIsSafe, VerifiedOnce
  <2> QED
    BY <2>1, <2>2, <2>3 DEF RepairIsSafe
<1> QED
  BY <1>1, <1>4, <1>5, <1>6, <1>7 DEF RepairInv

\* The transaction succeeded: the backup that goes is the preimage.
LEMMA CompleteKeeps ==
  ASSUME RepairInv, NEW c \in ApplyCalls, complete_apply(c)
  PROVE  RepairInv'
<1> DEFINE f == rCall[c].fix
<1>1. /\ rCall[c].step = "replaced" /\ rFile = f
      /\ rLost' = rLost \cup ({rBackup[f]} \ {rPreimage[f]})
      /\ rBackup' = [rBackup EXCEPT ![f] = "none"]
      /\ rProposal' = [rProposal EXCEPT ![f] = "gone"]
      /\ Returned(c) /\ Freed(c)
      /\ UNCHANGED <<rPreimage, rFile, rSaved, rRaced, recordVars, placeVars>>
  BY DEF complete_apply
<1>2. rCall[c].step \in Begun /\ rCall[c].step # "waiting" /\ rCall[c].step # "idle"
  BY <1>1 DEF Begun
<1>3. f \in Fixes /\ rBackup[f] = rPreimage[f]
  BY <1>1, <1>2 DEF RepairInv, CallsAreExclusive, TransactionIsKnown
<1>4. /\ rBackup' \in [Fixes -> Contents \cup {"none"}]
      /\ \A g \in Fixes : rBackup'[g] = rBackup[g] \/ rBackup'[g] = "none"
  BY <1>1 DEF RepairInv, RepairTyped
<1>5. rLost' \subseteq rRaced
  BY <1>1, <1>3 DEF RepairInv, RepairIsSafe, SourceIsKept
<1>6. rFile' \in Contents \cup {"missing"} /\ rFile' # "missing" /\ rFile' = rFile
  BY <1>1, <1>3, NamesAreApart DEF Contents
<1> QED
  BY <1>1, <1>2, <1>4, <1>5, <1>6, EndKeeps

\* Every other end: the backup comes back, or stays where it is.
LEMMA FailedApplyKeeps ==
  ASSUME RepairInv, NEW c \in ApplyCalls, apply_failed(c)
  PROVE  RepairInv'
<1> DEFINE f == rCall[c].fix
<1>1. /\ IF rCall[c].step \in {"moved", "replaced"} THEN rollback(c) ELSE UNCHANGED fileVars
      /\ \/ UNCHANGED recordVars
         \/ /\ rRecord' = [rRecord EXCEPT ![f] = "none"]
            /\ rDisk' = rDisk \ {f} /\ rRetired' = rRetired \cup {f}
            /\ UNCHANGED <<rStore, rVerified>>
      /\ rProposal' = [rProposal EXCEPT ![f] = "gone"]
      /\ Returned(c) /\ Freed(c)
      /\ UNCHANGED <<rPreimage, placeVars>>
  BY DEF apply_failed, discard_verification, consume_record
<1>2. rCall[c].step \in Begun /\ (rCall[c].step = "waiting" => rGate = "free")
  BY DEF apply_failed, Begun
<1>3. f \in Fixes
  BY <1>2 DEF RepairInv, CallsAreExclusive, Begun
<1>4. CASE UNCHANGED fileVars
  <2>1. /\ rFile' = rFile /\ rBackup' = rBackup /\ rSaved' = rSaved /\ rRaced' = rRaced /\ rLost' = rLost
    BY <1>4 DEF fileVars
  <2>2. /\ rFile' \in Contents \cup {"missing"} /\ rBackup' \in [Fixes -> Contents \cup {"none"}]
        /\ rLost' \subseteq rRaced
        /\ rFile' = "missing" => \E g \in Fixes : rBackup'[g] # "none"
    BY <2>1 DEF RepairInv, RepairTyped, RepairIsSafe, SourceIsKept
  <2>3. /\ \A g \in Fixes : rFile' = g => rFile = g \/ \E h \in Fixes : rBackup[h] = g
        /\ \A g \in Fixes : rBackup'[g] = rBackup[g] \/ rBackup'[g] = "none"
    BY <2>1
  <2> QED
    BY <1>1, <1>2, <2>1, <2>2, <2>3, EndKeeps
<1>5. CASE rCall[c].step \in {"moved", "replaced"} /\ rollback(c)
  <2>1. rFile \in {"missing", f} \cup rRaced /\ rBackup[f] # "none"
    BY <1>3, <1>5 DEF RepairInv, TransactionIsKnown
  <2>2. /\ rLost' = rLost \cup ({rFile} \ {"missing", f}) /\ rSaved' = rSaved /\ rRaced' = rRaced
        /\ \/ rFile' = rBackup[f] /\ rBackup' = [rBackup EXCEPT ![f] = "none"]
           \/ rFile' = "missing" /\ rBackup' = rBackup
    BY <1>5 DEF rollback
  <2>3. rLost' \subseteq rRaced
    BY <2>1, <2>2 DEF RepairInv, RepairIsSafe, SourceIsKept
  <2>4. rBackup[f] \in Contents
    BY <1>3, <2>1 DEF RepairInv, RepairTyped
  <2>5. /\ rFile' \in Contents \cup {"missing"} /\ rBackup' \in [Fixes -> Contents \cup {"none"}]
        /\ rFile' = "missing" => \E g \in Fixes : rBackup'[g] # "none"
    BY <1>3, <2>1, <2>2, <2>4, NamesAreApart DEF RepairInv, RepairTyped
  <2>6. /\ \A g \in Fixes : rFile' = g => rFile = g \/ \E h \in Fixes : rBackup[h] = g
        /\ \A g \in Fixes : rBackup'[g] = rBackup[g] \/ rBackup'[g] = "none"
    BY <1>3, <2>2, NamesAreApart DEF RepairInv, RepairTyped
  <2> QED
    BY <1>1, <1>2, <2>2, <2>3, <2>5, <2>6, EndKeeps
<1> QED
  BY <1>1, <1>4, <1>5 DEF apply_failed

\* An editor saves: into the file, or past a transaction that moved it aside.
LEMMA SaveKeeps ==
  ASSUME RepairInv, NEW e \in Edits, editor_save(e)
  PROVE  RepairInv'
<1>1. /\ rFile' = e /\ rSaved' = rSaved \cup {e}
      /\ rRaced' = IF MovedAside THEN rRaced \cup {e} ELSE rRaced
  BY DEF editor_save
<1>2. /\ rProposal' = rProposal /\ rPreimage' = rPreimage /\ rCall' = rCall /\ rGate' = rGate
      /\ rBackup' = rBackup /\ rLost' = rLost /\ rRecord' = rRecord /\ rDisk' = rDisk
      /\ rStore' = rStore /\ rRetired' = rRetired /\ rVerified' = rVerified
      /\ rPage' = rPage /\ rRevision' = rRevision /\ rBoots' = rBoots
  BY DEF editor_save, recordVars, placeVars
<1>3. RepairTyped'
  BY <1>1, <1>2 DEF RepairInv, RepairTyped, Contents
<1>4. CallsAreExclusive' /\ RecordsAreMintedOnce'
  BY <1>2 DEF RepairInv, CallsAreExclusive, RecordsAreMintedOnce
<1>5. TransactionIsKnown'
  BY <1>1, <1>2 DEF RepairInv, TransactionIsKnown, MovedAside
<1>6. BaselinesAreStored'
  BY <1>1, <1>2, NamesAreApart DEF RepairInv, BaselinesAreStored
<1>7. RepairIsSafe'
  BY <1>1, <1>2, NamesAreApart
  DEF RepairInv, RepairIsSafe, SourceIsKept, FixedSourceIsVerifiable, VerifiedOnce
<1> QED
  BY <1>3, <1>4, <1>5, <1>6, <1>7 DEF RepairInv

\* Git and the page move on.
LEMMA PlaceKeeps ==
  ASSUME RepairInv, rPage' \in {"home", "away", "moved"}, rRevision' \in 1..RepairRevisions,
         UNCHANGED <<rProposal, rPreimage, rCall, rGate, rBoots, fileVars, recordVars>>
  PROVE  RepairInv'
<1>1. /\ rProposal' = rProposal /\ rPreimage' = rPreimage /\ rCall' = rCall
      /\ rGate' = rGate /\ rFile' = rFile /\ rBackup' = rBackup
      /\ rSaved' = rSaved /\ rRaced' = rRaced /\ rLost' = rLost /\ rRecord' = rRecord
      /\ rDisk' = rDisk /\ rStore' = rStore /\ rRetired' = rRetired /\ rVerified' = rVerified
      /\ rBoots' = rBoots
  BY DEF fileVars, recordVars
<1> QED
  BY <1>1 DEF RepairInv, RepairTyped, CallsAreExclusive, TransactionIsKnown, BaselinesAreStored,
              RecordsAreMintedOnce, RepairIsSafe, SourceIsKept, FixedSourceIsVerifiable, VerifiedOnce

\* A restart: calls and proposals are gone; a record comes back from the disk only.
LEMMA RestartKeeps ==
  ASSUME RepairInv, load_records
  PROVE  RepairInv'
<1>1. /\ rBoots < MaxRepairBoots /\ rBoots' = rBoots + 1
      /\ rProposal' = [f \in Fixes |-> IF rProposal[f] = "none" THEN "none" ELSE "gone"]
      /\ rCall' = [c \in ApplyCalls |-> IdleCall] /\ rGate' = "free" /\ rStore' \in BOOLEAN
      /\ rDisk' = IF rStore' THEN rDisk \ (rRetired \ rVerified) ELSE rDisk
      /\ rRecord' = [f \in Fixes |-> IF rStore' /\ f \in rDisk' THEN "pending" ELSE "none"]
  BY DEF load_records
<1>2. /\ rPreimage' = rPreimage /\ rFile' = rFile /\ rBackup' = rBackup
      /\ rSaved' = rSaved /\ rRaced' = rRaced /\ rLost' = rLost
      /\ rRetired' = rRetired /\ rVerified' = rVerified /\ rPage' = rPage /\ rRevision' = rRevision
  BY DEF load_records, fileVars
<1>3. /\ IdleCall \in [step : CallSteps, fix : Fixes \cup {"none"},
                       seen : Contents \cup {"missing", "none"}, revision : 0..RepairRevisions]
      /\ IdleCall.step = "idle"
  BY RepairConstants DEF IdleCall, CallSteps, RepairConstants
<1>4. rDisk' \subseteq rDisk /\ rDisk \subseteq rDisk' \cup rRetired
  BY <1>1
<1>5. \A f \in Fixes : rRecord'[f] # "none" => f \in rDisk'
  BY <1>1
<1>6. RepairTyped'
  <2>1. rCall' \in [ApplyCalls -> [step : CallSteps, fix : Fixes \cup {"none"},
                                   seen : Contents \cup {"missing", "none"}, revision : 0..RepairRevisions]]
    BY <1>1, <1>3
  <2>2. rProposal' \in [Fixes -> ProposalStates] /\ rRecord' \in [Fixes -> RecordStates]
    BY <1>1 DEF ProposalStates, RecordStates
  <2>3. rBoots' \in 1..MaxRepairBoots
    BY <1>1, RepairConstants DEF RepairInv, RepairTyped, RepairConstants
  <2> QED
    BY <1>1, <1>2, <1>4, <2>1, <2>2, <2>3 DEF RepairInv, RepairTyped
<1>7. \A c \in ApplyCalls : rCall'[c].step = "idle"
  BY <1>1, <1>3
<1>8. CallsAreExclusive' /\ TransactionIsKnown'
  BY <1>7 DEF CallsAreExclusive, TransactionIsKnown, Begun, Holding
<1>9. BaselinesAreStored'
  BY <1>2, <1>4, <1>7 DEF RepairInv, BaselinesAreStored, Holding
<1>10. RecordsAreMintedOnce'
  <2>1. \A f \in Fixes : rRecord'[f] # "none" \/ f \in rDisk' \cup rRetired' => rProposal'[f] = "gone"
    BY <1>1, <1>2, <1>4, <1>5 DEF RepairInv, RecordsAreMintedOnce
  <2> QED
    BY <1>2, <1>7, <2>1 DEF RepairInv, RecordsAreMintedOnce
<1>11. RepairIsSafe'
  <2>1. VerifiedOnce'
    BY <1>2, <1>4, <1>5, <1>6 DEF RepairInv, RepairTyped, RepairIsSafe, VerifiedOnce
  <2> QED
    BY <1>2, <1>4, <2>1 DEF RepairInv, RepairIsSafe, SourceIsKept, FixedSourceIsVerifiable
<1> QED
  BY <1>6, <1>8, <1>9, <1>10, <1>11 DEF RepairInv

\* Every step of a proposal or of an applied record keeps the invariant.
LEMMA FixStepKeeps ==
  ASSUME RepairInv, NEW f \in Fixes,
         \/ prepare_fix_proposal(f) \/ insert_proposal(f) \/ discard_proposal(f)
         \/ reap_expired_proposal(f)
         \/ begin_verify(f) \/ verify_fix_change(f) \/ complete_verification(f)
         \/ verify_failed(f) \/ reap_expired_record(f)
  PROVE  RepairInv'
<1>1. CASE prepare_fix_proposal(f)
  BY <1>1, ProposalKeeps DEF prepare_fix_proposal, validate_fix_source_policy, ProposalStates
<1>2. CASE insert_proposal(f)
  <2>1. PICK p \in {"pending", "gone"} : rProposal' = [rProposal EXCEPT ![f] = p]
    BY <1>2 DEF insert_proposal
  <2> QED
    BY <1>2, <2>1, ProposalKeeps DEF insert_proposal, ProposalStates
<1>3. CASE discard_proposal(f) \/ reap_expired_proposal(f)
  BY <1>3, ProposalKeeps DEF discard_proposal, reap_expired_proposal, ProposalStates
<1>4. CASE begin_verify(f) \/ verify_fix_change(f)
  <2>1. PICK to \in {"verifying", "compared"} :
          /\ rRecord[f] # "none" /\ rRecord' = [rRecord EXCEPT ![f] = to]
          /\ UNCHANGED <<rProposal, rPreimage, rCall, rGate, rDisk, rStore, rRetired, rVerified,
                         fileVars, placeVars>>
    BY <1>4 DEF begin_verify, verify_fix_change, RecordAt
  <2>2. /\ rRecord' \in [Fixes -> RecordStates]
        /\ \A g \in Fixes : rRecord'[g] # "none" => rRecord[g] # "none"
    BY <2>1 DEF RepairInv, RepairTyped, RecordStates
  <2> QED
    BY <2>1, <2>2, RecordsKeep DEF RepairInv, RecordsAreMintedOnce
<1>5. CASE complete_verification(f) \/ verify_failed(f) \/ reap_expired_record(f)
  <2>1. /\ rRecord[f] # "none"
        /\ UNCHANGED <<rProposal, rPreimage, rCall, rGate, rStore, fileVars, placeVars>>
    BY <1>5 DEF complete_verification, verify_failed, reap_expired_record, discard_verification, recordVars
  <2>2. \/ /\ rRecord' = [rRecord EXCEPT ![f] = "none"] /\ rDisk' = rDisk \ {f}
           /\ rRetired' = rRetired \cup {f} /\ rVerified' \in {rVerified, rVerified \cup {f}}
        \/ /\ rRecord' \in {rRecord, [rRecord EXCEPT ![f] = "pending"]}
           /\ rDisk' = rDisk /\ rRetired' = rRetired /\ rVerified' = rVerified
        \/ /\ rRecord' = [rRecord EXCEPT ![f] = "none"] /\ rDisk' = rDisk
           /\ rRetired' = rRetired \cup {f} /\ rVerified' = rVerified
    BY <1>5 DEF complete_verification, verify_failed, reap_expired_record, discard_verification,
                consume_record, RecordAt, recordVars
  <2>3. /\ rRecord' \in [Fixes -> RecordStates]
        /\ \A g \in Fixes : rRecord'[g] # "none" => rRecord[g] # "none"
    BY <2>1, <2>2 DEF RepairInv, RepairTyped, RecordStates
  <2>4. \A g \in rVerified' \ rVerified : rRecord'[g] = "none" /\ g \notin rDisk'
    BY <2>2 DEF RepairInv, RepairTyped
  <2> QED
    BY <2>1, <2>2, <2>3, <2>4, RecordsKeep DEF RepairInv, RecordsAreMintedOnce
<1> QED
  BY <1>1, <1>2, <1>3, <1>4, <1>5

\* Every step of one apply call keeps the invariant.
LEMMA CallStepKeeps ==
  ASSUME RepairInv, NEW c \in ApplyCalls,
         \/ \E f \in Fixes : shadow_prepare(c, f)
         \/ run_production_candidate_preflight(c) \/ begin_apply(c) \/ apply_fix_proposal(c)
         \/ mint_verification_baseline(c) \/ write_temporary(c) \/ rename_to_backup(c)
         \/ rename_to_target(c) \/ complete_apply(c) \/ apply_failed(c)
  PROVE  RepairInv'
<1> DEFINE Calls == [step : {"idle", "preflight", "approved"}, fix : Fixes \cup {"none"},
                     seen : Contents \cup {"missing", "none"}, revision : 0..RepairRevisions]
<1>1. ASSUME NEW f \in Fixes, shadow_prepare(c, f) PROVE RepairInv'
  <2> DEFINE r == [step |-> "preflight", fix |-> f, seen |-> snapshot_visible_worktree,
                   revision |-> rRevision]
  <2>1. /\ rCall[c] = IdleCall /\ rProposal[f] = "pending" /\ rCall' = [rCall EXCEPT ![c] = r]
        /\ UNCHANGED <<rProposal, rPreimage, rGate, fileVars, recordVars, placeVars>>
    BY <1>1 DEF shadow_prepare
  <2>2. r \in Calls
    BY RepairConstants DEF RepairInv, RepairTyped, snapshot_visible_worktree, RepairConstants
  <2>3. rCall[c].step = "idle" /\ r.fix = f
    BY <2>1 DEF IdleCall
  <2> HIDE DEF r
  <2> QED
    BY <2>1, <2>2, <2>3, PreflightKeeps
<1>2. CASE run_production_candidate_preflight(c)
  <2>1. /\ rCall[c].step = "preflight"
        /\ rCall[c] \in [step : CallSteps, fix : Fixes \cup {"none"},
                         seen : Contents \cup {"missing", "none"}, revision : 0..RepairRevisions]
        /\ rCall[c].fix \in Fixes /\ rProposal[rCall[c].fix] \notin {"none", "asked"}
        /\ UNCHANGED <<rProposal, rPreimage, rGate, fileVars, recordVars, placeVars>>
    BY <1>2 DEF run_production_candidate_preflight, RepairInv, RepairTyped, CallsAreExclusive
  <2>2. PICK cleaned \in BOOLEAN, available \in BOOLEAN :
          rCall' = [rCall EXCEPT ![c] =
            IF ~available \/ (cleaned /\ snapshot_visible_worktree = rCall[c].seen)
              THEN [rCall[c] EXCEPT !.step = "approved",
                      !.revision = IF available THEN rCall[c].revision ELSE 0, !.seen = "none"]
              ELSE IdleCall]
    BY <1>2 DEF run_production_candidate_preflight
  <2> DEFINE approved == [rCall[c] EXCEPT !.step = "approved",
                            !.revision = IF available THEN rCall[c].revision ELSE 0, !.seen = "none"]
  <2>3. approved \in Calls /\ approved.fix = rCall[c].fix
    <3>1. rCall[c].revision \in 0..RepairRevisions /\ 0 \in 0..RepairRevisions
      BY <2>1, RepairConstants DEF RepairConstants
    <3>2. (IF available THEN rCall[c].revision ELSE 0) \in 0..RepairRevisions
      BY <3>1
    <3> QED
      BY <2>1, <3>2
  <2>4. IdleCall \in Calls /\ IdleCall.step = "idle"
    BY RepairConstants DEF IdleCall, RepairConstants
  <2>5. rCall' = [rCall EXCEPT ![c] = approved] \/ rCall' = [rCall EXCEPT ![c] = IdleCall]
    BY <2>2
  <2> HIDE DEF approved
  <2>6. CASE rCall' = [rCall EXCEPT ![c] = approved]
    BY <2>1, <2>3, <2>6, PreflightKeeps
  <2>7. CASE rCall' = [rCall EXCEPT ![c] = IdleCall]
    BY <2>1, <2>4, <2>7, PreflightKeeps
  <2> QED
    BY <2>5, <2>6, <2>7
<1> QED
  BY <1>1, <1>2, BeginKeeps, GateKeeps, MintKeeps, MoveKeeps, ReplaceKeeps, CompleteKeeps,
     FailedApplyKeeps

\* The inductive invariant of the repair.
LEMMA RepairInvariant == RepairSpec => []RepairInv
<1>1. RepairInit => RepairInv
  <2> SUFFICES ASSUME RepairInit PROVE RepairInv
    OBVIOUS
  <2>1. /\ IdleCall \in [step : CallSteps, fix : Fixes \cup {"none"},
                         seen : Contents \cup {"missing", "none"}, revision : 0..RepairRevisions]
        /\ IdleCall.step = "idle"
    BY RepairConstants DEF IdleCall, CallSteps, RepairConstants
  <2>2. RepairTyped
    BY <2>1, RepairConstants
    DEF RepairInit, RepairTyped, Contents, ProposalStates, RecordStates, RepairConstants
  <2>3. \A c \in ApplyCalls : rCall[c].step = "idle"
    BY <2>1 DEF RepairInit
  <2>4. CallsAreExclusive /\ TransactionIsKnown
    BY <2>3 DEF CallsAreExclusive, TransactionIsKnown, Begun, Holding
  <2>5. BaselinesAreStored /\ RecordsAreMintedOnce /\ RepairIsSafe
    BY <2>3, NamesAreApart
    DEF RepairInit, BaselinesAreStored, RecordsAreMintedOnce, RepairIsSafe, SourceIsKept,
        FixedSourceIsVerifiable, VerifiedOnce, Holding
  <2> QED
    BY <2>2, <2>4, <2>5 DEF RepairInv
<1>2. RepairInv /\ [RepairNext]_repairVars => RepairInv'
  <2> SUFFICES ASSUME RepairInv, [RepairNext]_repairVars PROVE RepairInv'
    OBVIOUS
  <2>1. CASE \E e \in Edits : editor_save(e)
    BY <2>1, SaveKeeps
  <2>2. CASE git_commit
    <3>1. rRevision' \in 1..RepairRevisions /\ rPage' = rPage /\ rPage \in {"home", "away", "moved"}
      BY <2>2, RepairConstants DEF git_commit, RepairInv, RepairTyped, RepairConstants
    <3> QED
      BY <2>2, <3>1, PlaceKeeps DEF git_commit
  <2>3. CASE navigate
    BY <2>3, PlaceKeeps DEF navigate, RepairInv, RepairTyped
  <2>4. CASE load_records
    BY <2>4, RestartKeeps
  <2>5. CASE UNCHANGED repairVars
    BY <2>5, PlaceKeeps DEF repairVars, fileVars, recordVars, RepairInv, RepairTyped
  <2> QED
    BY <2>1, <2>2, <2>3, <2>4, <2>5, FixStepKeeps, CallStepKeeps DEF RepairNext
<1> QED
  BY <1>1, <1>2, PTL DEF RepairSpec

\* For every number of fixes, concurrent Apply calls and restarts: a repair loses
\* no bytes of the user except a save made while the source was moved aside, a fix
\* in the source can be verified until that is done, refuted or expired, and no
\* verification comes back after its receipt (trusted_fix.rs, trusted_verify.rs and
\* trusted_verify_recovery.rs).
THEOREM RepairStaysSafe == RepairSpec => [](RepairIsSafe /\ RepairTypeOK)
<1>1. RepairInv => RepairIsSafe /\ RepairTypeOK
  BY DEF RepairInv, RepairTyped, RepairTypeOK
<1> QED
  BY <1>1, RepairInvariant, PTL

-----------------------------------------------------------------------------
(* The gate: for every set of runs, of argument records, every capacity of    *)
(* the stores and whatever the world does.                                    *)

RunFields == {"phase", "args", "first", "last", "found", "rev", "drift", "seen", "vis", "visId", "engine",
              "engId", "verdict", "fresh", "hashes", "loaded", "opened", "base", "wrote", "code",
              "setups", "cleanups"}

\* The phases that follow the visual check, the browser, the last snapshot and the
\* comparison of a run.
AfterBase == {"index", "report"}
AfterFinal == {"verify", "proof", "evidence", "open", "compare"} \cup AfterBase
AfterChromium == {"final"} \cup AfterFinal
AfterVisual == {"chromium"} \cup AfterChromium
AfterFirst == {"diagnose", "visual"} \cup AfterVisual
Working == {"setup", "snapshot"} \cup AfterFirst

\* The fixture: what was set up is still to be cleaned up.
FixtureIsOwed(rec) ==
  /\ rec.phase \in {"idle", "setup"} => rec.setups = 0
  /\ rec.setups \in {0, 1} /\ (rec.setups = 1 \/ rec.phase = "setup" => rec.args.commands)
  /\ rec.phase # "done" => rec.cleanups = 0
  /\ rec.phase = "done" /\ rec.setups = 1 => rec.cleanups = 1

\* What a run has found out, at the point of its way it is at.
FindingsAreTrue(rec) ==
  /\ rec.phase \in AfterFirst /\ "fixture" \notin rec.drift /\ rec.args.fixture =>
       Route(rec.first) = FixtureRoute
  /\ rec.phase \in AfterFinal /\ "state" \notin rec.drift => rec.first = rec.last
  /\ rec.phase \in AfterVisual /\ rec.args.visual => rec.vis \in {"pass", "fail", "inconclusive", "unavailable"}
  /\ rec.phase \in AfterChromium /\ rec.args.chromium => rec.engine \in {"executed", "unavailable"}
  /\ rec.verdict = "pass" => {"semantic", "layout"} \subseteq {e.kind : e \in rec.fresh}
  /\ rec.phase = "index" => rec.drift = {}
  /\ rec.phase \in AfterBase => rec.base \in {"created", "incompatible", "match", "changed"}

\* A run that wrote the index saw one page.
OnePage(rec) == rec.first = rec.last /\ (rec.args.fixture => Route(rec.first) = FixtureRoute)

\* A run that passed.
PassedSoundly(rec) ==
  /\ OnePage(rec) /\ ~Hard(rec.found)
  /\ rec.args.visual => rec.vis = "pass"
  /\ rec.args.chromium => rec.engine = "executed"
  /\ rec.args.verified => {"semantic", "layout"} \subseteq {e.kind : e \in rec.fresh}
  /\ rec.args.match /\ ~rec.args.update => rec.base \in {"match", "created"}

RunInv(rec) ==
  /\ DOMAIN rec = RunFields
  /\ rec.phase \in Working \cup {"idle", "cleanup", "done", "killed"}
  /\ FixtureIsOwed(rec) /\ FindingsAreTrue(rec)
  /\ rec.wrote => OnePage(rec) /\ rec.phase \in {"report", "cleanup", "done", "killed"}
  /\ rec.code = "passed" => PassedSoundly(rec) /\ rec.phase \in {"cleanup", "done"}

HeadlessInv == DOMAIN ciRun = CiRuns /\ \A r \in CiRuns : RunInv(ciRun[r])

\* A step that gives one run its next record.
LEMMA SetKeeps ==
  ASSUME HeadlessInv, NEW r \in CiRuns, NEW rec, Set(r, rec), RunInv(rec)
  PROVE  HeadlessInv'
<1>1. /\ DOMAIN ciRun' = CiRuns /\ ciRun'[r] = rec
      /\ \A q \in CiRuns : q # r => ciRun'[q] = ciRun[q]
  BY DEF HeadlessInv, Set
<1>2. \A q \in CiRuns : RunInv(ciRun[q])
  BY DEF HeadlessInv
<1>3. \A q \in CiRuns : RunInv(ciRun'[q])
  BY <1>1, <1>2
<1> QED
  BY <1>1, <1>3 DEF HeadlessInv

\* What a run that has done nothing looks like.
LEMMA IdleRunIs ==
  /\ DOMAIN IdleRun = RunFields /\ IdleRun.phase = "idle" /\ IdleRun.setups = 0 /\ IdleRun.cleanups = 0
  /\ IdleRun.verdict = "none" /\ IdleRun.wrote = FALSE /\ IdleRun.code = "none"
BY DEF IdleRun, RunFields

\* The record of a run that leaves: its cleanup is next when it may run commands.
LEMMA LeaveKeeps ==
  ASSUME NEW rec, NEW code \in {"error", "failed", "inconclusive", "passed"}, DOMAIN rec = RunFields,
         rec.setups \in {0, 1}, rec.setups = 1 => rec.args.commands, rec.cleanups = 0,
         rec.verdict = "pass" => {"semantic", "layout"} \subseteq {e.kind : e \in rec.fresh},
         rec.wrote => OnePage(rec), code = "passed" => PassedSoundly(rec)
  PROVE  RunInv(Leave(rec, code))
<1> DEFINE left == Leave(rec, code)
           rest == Remains(rec)
           phase == IF rec.args.commands THEN "cleanup" ELSE "done"
<1>1. /\ DOMAIN rest = RunFields /\ rest.args = rec.args /\ rest.setups = rec.setups /\ rest.wrote = rec.wrote
      /\ rest.first = rec.first /\ rest.last = rec.last /\ rest.verdict = "none" /\ rest.cleanups = 0
  BY DEF Remains, IdleRun, RunFields
<1> HIDE DEF rest
<1>2. phase \in {"cleanup", "done"} /\ (phase = "done" => ~rec.args.commands)
  OBVIOUS
<1>3. left = [(IF code = "error" THEN rest ELSE rec) EXCEPT !.phase = phase, !.code = code]
  BY DEF Leave, rest
<1> HIDE DEF left, phase
<1>4. /\ DOMAIN left = RunFields /\ left.phase = phase /\ left.code = code /\ left.args = rec.args
      /\ left.setups = rec.setups /\ left.wrote = rec.wrote /\ left.first = rec.first /\ left.last = rec.last
      /\ left.cleanups = 0
  BY <1>1, <1>3 DEF RunFields
<1>5. CASE code = "error"
  <2>1. left.verdict = "none"
    BY <1>1, <1>3, <1>5 DEF RunFields
  <2>2. FixtureIsOwed(left) /\ FindingsAreTrue(left)
    BY <1>2, <1>4, <2>1 DEF FixtureIsOwed, FindingsAreTrue, AfterFirst, AfterVisual, AfterChromium, AfterFinal,
                            AfterBase
  <2>3. left.wrote => OnePage(left)
    BY <1>4 DEF OnePage
  <2> QED
    BY <1>2, <1>4, <1>5, <2>2, <2>3 DEF RunInv, left
<1>6. CASE code # "error"
  <2>1. /\ left.verdict = rec.verdict /\ left.fresh = rec.fresh /\ left.found = rec.found
        /\ left.vis = rec.vis /\ left.engine = rec.engine /\ left.base = rec.base
    BY <1>3, <1>6 DEF RunFields
  <2>2. FixtureIsOwed(left) /\ FindingsAreTrue(left)
    BY <1>2, <1>4, <2>1 DEF FixtureIsOwed, FindingsAreTrue, AfterFirst, AfterVisual, AfterChromium, AfterFinal,
                            AfterBase
  <2>3. OnePage(rec) => OnePage(left)
    BY <1>4 DEF OnePage
  <2>4. PassedSoundly(rec) => PassedSoundly(left)
    BY <1>4, <2>1, <2>3 DEF PassedSoundly
  <2> QED
    BY <1>2, <1>4, <2>2, <2>3, <2>4 DEF RunInv, left
<1> QED
  BY <1>5, <1>6

\* The error of a run at work.
LEMMA GiveUpKeeps ==
  ASSUME NEW rec, RunInv(rec), rec.phase \in Working \ {"setup"}
  PROVE  RunInv(Leave(rec, "error"))
<1>1. rec.phase # "done"
  BY DEF Working, AfterFirst, AfterVisual, AfterChromium, AfterFinal, AfterBase
<1>2. /\ DOMAIN rec = RunFields /\ rec.setups \in {0, 1} /\ (rec.setups = 1 => rec.args.commands)
      /\ rec.cleanups = 0 /\ (rec.wrote => OnePage(rec))
      /\ rec.verdict = "pass" => {"semantic", "layout"} \subseteq {e.kind : e \in rec.fresh}
  BY <1>1 DEF RunInv, FixtureIsOwed, FindingsAreTrue
<1> QED
  BY <1>2, LeaveKeeps

\* What the verdict of the gate says.
LEMMA PolicyIsSound ==
  ASSUME NEW rec, RunInv(rec), rec.phase = "report", evaluate_exit_policy(rec) = "passed"
  PROVE  PassedSoundly(rec)
<1>1. /\ ~Hard(rec.found) /\ rec.verdict # "fail" /\ rec.vis # "fail"
      /\ ~(rec.args.match /\ rec.base = "changed" /\ ~rec.args.update)
      /\ ~(rec.args.verified /\ rec.verdict # "pass") /\ ~has_inconclusive_reason(rec)
  BY DEF evaluate_exit_policy
<1>2. /\ rec.drift = {} /\ rec.base # "incompatible"
      /\ rec.args.visual => rec.vis \notin {"unavailable", "inconclusive"}
      /\ rec.args.chromium => rec.engine # "unavailable"
  BY <1>1 DEF has_inconclusive_reason
<1>3. rec.phase \in AfterFirst /\ rec.phase \in AfterVisual /\ rec.phase \in AfterChromium
      /\ rec.phase \in AfterFinal /\ rec.phase \in AfterBase
  BY DEF AfterFirst, AfterVisual, AfterChromium, AfterFinal, AfterBase
<1>4. FindingsAreTrue(rec)
  BY DEF RunInv
<1>5. OnePage(rec)
  BY <1>2, <1>3, <1>4 DEF FindingsAreTrue, OnePage
<1> QED
  BY <1>1, <1>2, <1>3, <1>4, <1>5 DEF FindingsAreTrue, PassedSoundly

\* A run that goes on with its work.
LEMMA WorkKeeps ==
  ASSUME NEW rec, RunInv(rec), rec.phase \in Working \ {"report"}, NEW nxt, DOMAIN nxt = RunFields,
         nxt.phase \in Working \ {"setup"}, nxt.args = rec.args, nxt.wrote = rec.wrote, nxt.code = rec.code,
         nxt.cleanups = rec.cleanups, nxt.setups \in {0, 1}, nxt.setups = 1 => rec.args.commands,
         FindingsAreTrue(nxt)
  PROVE  RunInv(nxt)
<1>1. {rec.phase, nxt.phase} \cap {"idle", "cleanup", "done", "killed"} = {}
  BY DEF Working, AfterFirst, AfterVisual, AfterChromium, AfterFinal, AfterBase
<1>2. ~rec.wrote /\ rec.code # "passed" /\ rec.cleanups = 0
  BY <1>1 DEF RunInv, FixtureIsOwed
<1>3. FixtureIsOwed(nxt)
  BY <1>1, <1>2 DEF FixtureIsOwed
<1> QED
  BY <1>1, <1>2, <1>3 DEF RunInv

\* A run that starts, sets its fixture up, and reads the page for the first time.
LEMMA RunStartKeeps ==
  ASSUME HeadlessInv, NEW r \in CiRuns, run(r) \/ setup(r) \/ snapshot_taken(r)
  PROVE  HeadlessInv'
<1> DEFINE rec == ciRun[r]
<1>1. RunInv(rec)
  BY DEF HeadlessInv
<1>2. CASE run(r)
  <2>0. PICK args \in HeadlessPolicies : \E code \in validate(args) :
          Set(r, [IdleRun EXCEPT !.args = args, !.code = code,
                     !.phase = IF code = "error" THEN "done" ELSE IF args.commands THEN "setup" ELSE "snapshot"])
    BY <1>2 DEF run
  <2>1. PICK code \in validate(args) :
          Set(r, [IdleRun EXCEPT !.args = args, !.code = code,
                     !.phase = IF code = "error" THEN "done" ELSE IF args.commands THEN "setup" ELSE "snapshot"])
    BY <2>0
  <2> DEFINE nxt == [IdleRun EXCEPT !.args = args, !.code = code,
                       !.phase = IF code = "error" THEN "done" ELSE IF args.commands THEN "setup" ELSE "snapshot"]
  <2>2. /\ DOMAIN nxt = RunFields /\ nxt.args = args /\ nxt.code = code /\ nxt.setups = 0 /\ nxt.cleanups = 0
        /\ nxt.verdict = "none" /\ nxt.wrote = FALSE
        /\ nxt.phase = (IF code = "error" THEN "done" ELSE IF args.commands THEN "setup" ELSE "snapshot")
    BY IdleRunIs DEF RunFields
  <2>3. Set(r, nxt)
    BY <2>1
  <2> HIDE DEF nxt
  <2>4. code \in {"error", "none"}
    BY DEF validate
  <2>5. nxt.phase \in {"done", "setup", "snapshot"} /\ (nxt.phase = "setup" => nxt.args.commands)
    BY <2>2
  <2>6. FixtureIsOwed(nxt) /\ FindingsAreTrue(nxt)
    BY <2>2, <2>5 DEF FixtureIsOwed, FindingsAreTrue, AfterFirst, AfterVisual, AfterChromium, AfterFinal, AfterBase
  <2>7. RunInv(nxt)
    BY <2>2, <2>4, <2>5, <2>6 DEF RunInv, Working
  <2> QED
    BY <2>3, <2>7, SetKeeps
<1>3. CASE setup(r)
  <2> DEFINE one == [rec EXCEPT !.setups = rec.setups + 1]
             nxt == [one EXCEPT !.phase = "snapshot"]
  <2>1. rec.phase = "setup" /\ (Set(r, nxt) \/ Set(r, Leave(one, "error")))
    BY <1>3 DEF setup, At
  <2>2. rec.setups = 0 /\ rec.args.commands /\ rec.cleanups = 0 /\ ~rec.wrote /\ rec.code # "passed"
    BY <1>1, <2>1 DEF RunInv, FixtureIsOwed
  <2>3. /\ DOMAIN one = RunFields /\ one.setups = 1 /\ one.args = rec.args /\ one.cleanups = 0
        /\ one.wrote = rec.wrote /\ one.code = rec.code /\ one.verdict = rec.verdict /\ one.fresh = rec.fresh
    BY <1>1, <2>2 DEF RunInv, RunFields
  <2> HIDE DEF one
  <2>4. /\ DOMAIN nxt = RunFields /\ nxt.setups = 1 /\ nxt.args = rec.args /\ nxt.cleanups = rec.cleanups
        /\ nxt.wrote = rec.wrote /\ nxt.code = rec.code /\ nxt.verdict = rec.verdict /\ nxt.fresh = rec.fresh
        /\ nxt.phase = "snapshot"
    BY <2>2, <2>3 DEF RunFields
  <2> HIDE DEF nxt
  <2>5. rec.verdict = "pass" => {"semantic", "layout"} \subseteq {e.kind : e \in rec.fresh}
    BY <1>1 DEF RunInv, FindingsAreTrue
  <2>6. CASE Set(r, nxt)
    <3>1. FindingsAreTrue(nxt)
      BY <2>4, <2>5 DEF FindingsAreTrue, AfterFirst, AfterVisual, AfterChromium, AfterFinal, AfterBase
    <3>2. rec.phase \in Working \ {"report"} /\ nxt.phase \in Working \ {"setup"}
      BY <2>1, <2>4 DEF Working
    <3>3. RunInv(nxt)
      BY <1>1, <2>2, <2>4, <3>1, <3>2, WorkKeeps
    <3> QED
      BY <2>6, <3>3, SetKeeps
  <2>7. CASE Set(r, Leave(one, "error"))
    <3>1. RunInv(Leave(one, "error"))
      BY <2>2, <2>3, <2>5, LeaveKeeps
    <3> QED
      BY <2>7, <3>1, SetKeeps
  <2> QED
    BY <2>1, <2>6, <2>7
<1>4. CASE snapshot_taken(r)
  <2> DEFINE nxt == [rec EXCEPT !.seen = ciWorld.page]
  <2>1. rec.phase \in {"snapshot", "final"} /\ Set(r, nxt)
    BY <1>4 DEF snapshot_taken
  <2>2. /\ DOMAIN nxt = RunFields /\ nxt.phase = rec.phase /\ nxt.setups = rec.setups /\ nxt.args = rec.args
        /\ nxt.cleanups = rec.cleanups /\ nxt.wrote = rec.wrote /\ nxt.code = rec.code
        /\ nxt.verdict = rec.verdict /\ nxt.fresh = rec.fresh /\ nxt.drift = rec.drift /\ nxt.first = rec.first
        /\ nxt.last = rec.last /\ nxt.vis = rec.vis /\ nxt.engine = rec.engine /\ nxt.base = rec.base
    BY <1>1 DEF RunInv, RunFields
  <2> HIDE DEF nxt
  <2>3. FindingsAreTrue(nxt)
    BY <1>1, <2>2 DEF RunInv, FindingsAreTrue
  <2>4. rec.phase \in Working \ {"report", "setup"}
    BY <2>1 DEF Working, AfterFirst, AfterVisual, AfterChromium
  <2>5. rec.setups \in {0, 1} /\ (rec.setups = 1 => rec.args.commands)
    BY <1>1 DEF RunInv, FixtureIsOwed
  <2>6. RunInv(nxt)
    BY <1>1, <2>2, <2>3, <2>4, <2>5, WorkKeeps
  <2> QED
    BY <2>1, <2>6, SetKeeps
<1> QED
  BY <1>2, <1>3, <1>4

\* The facts of a run's record that its next step does not touch.
SameRun(nxt, rec) ==
  /\ DOMAIN nxt = RunFields /\ nxt.args = rec.args /\ nxt.wrote = rec.wrote /\ nxt.code = rec.code
  /\ nxt.cleanups = rec.cleanups /\ nxt.setups = rec.setups

\* A step of the work that leaves findings that are true.
LEMMA AdvanceKeeps ==
  ASSUME HeadlessInv, NEW r \in CiRuns, ciRun[r].phase \in Working \ {"setup", "report"}, NEW nxt,
         SameRun(nxt, ciRun[r]), nxt.phase \in Working \ {"setup"}, FindingsAreTrue(nxt)
  PROVE  RunInv(nxt)
<1>1. RunInv(ciRun[r]) /\ ciRun[r].phase \in Working \ {"report"}
  BY DEF HeadlessInv
<1>2. ciRun[r].setups \in {0, 1} /\ (ciRun[r].setups = 1 => ciRun[r].args.commands)
  BY <1>1 DEF RunInv, FixtureIsOwed
<1>3. PICK rec : rec = ciRun[r]
  OBVIOUS
<1> QED
  BY <1>1, <1>2, <1>3, WorkKeeps DEF SameRun

\* The snapshots, and what they say of the page the run is about.
LEMMA SnapshotFiledKeeps ==
  ASSUME HeadlessInv, NEW r \in CiRuns, snapshot_filed(r)
  PROVE  HeadlessInv'
<1> DEFINE rec == ciRun[r]
           page == rec.seen
           off == IF rec.args.fixture /\ Route(page) # FixtureRoute THEN {"fixture"} ELSE {}
           moved == rec.drift \cup (IF page = rec.first THEN {} ELSE {"state"})
           first == [rec EXCEPT !.seen = "none", !.first = page, !.phase = "diagnose", !.drift = off]
           last == [rec EXCEPT !.seen = "none", !.last = page, !.phase = "verify", !.drift = moved]
<1>1. /\ rec.phase \in {"snapshot", "final"} /\ RunInv(rec)
      /\ (rec.phase = "snapshot" /\ Set(r, first)) \/ (rec.phase = "final" /\ Set(r, last))
  BY DEF snapshot_filed, HeadlessInv
<1>2. DOMAIN rec = RunFields /\ FindingsAreTrue(rec)
  BY <1>1 DEF RunInv
<1>3. rec.phase \in Working \ {"setup", "report"}
  BY <1>1 DEF Working, AfterFirst, AfterVisual, AfterChromium
<1>4. CASE rec.phase = "snapshot" /\ Set(r, first)
  <2>1. /\ SameRun(first, rec) /\ first.phase = "diagnose" /\ first.first = page /\ first.drift = off
        /\ first.verdict = rec.verdict /\ first.fresh = rec.fresh
    BY <1>2 DEF RunFields, SameRun
  <2> HIDE DEF first
  <2>2. "fixture" \notin off /\ first.args.fixture => Route(page) = FixtureRoute
    BY <2>1 DEF SameRun
  <2> HIDE DEF off
  <2>3. FindingsAreTrue(first)
    BY <1>2, <2>1, <2>2 DEF FindingsAreTrue, AfterVisual, AfterChromium, AfterFinal, AfterBase
  <2>4. first.phase \in Working \ {"setup"}
    BY <2>1 DEF Working, AfterFirst
  <2>5. RunInv(first)
    BY <1>3, <2>1, <2>3, <2>4, AdvanceKeeps
  <2> QED
    BY <1>4, <2>5, SetKeeps
<1>5. CASE rec.phase = "final" /\ Set(r, last)
  <2>1. /\ SameRun(last, rec) /\ last.phase = "verify" /\ last.first = rec.first /\ last.drift = moved
        /\ last.last = page /\ last.verdict = rec.verdict /\ last.fresh = rec.fresh /\ last.vis = rec.vis
        /\ last.engine = rec.engine
    BY <1>2 DEF RunFields, SameRun
  <2> HIDE DEF last
  <2>2. ("fixture" \notin moved => "fixture" \notin rec.drift) /\ ("state" \notin moved => page = rec.first)
    OBVIOUS
  <2> HIDE DEF moved
  <2>3. rec.phase \in AfterFirst /\ rec.phase \in AfterVisual /\ rec.phase \in AfterChromium
    BY <1>5 DEF AfterFirst, AfterVisual, AfterChromium
  <2>4. last.args = rec.args
    BY <2>1 DEF SameRun
  <2>5. FindingsAreTrue(last)
    BY <1>2, <2>1, <2>2, <2>3, <2>4 DEF FindingsAreTrue, AfterBase
  <2>6. last.phase \in Working \ {"setup"}
    BY <2>1 DEF Working, AfterFirst, AfterVisual, AfterChromium, AfterFinal
  <2>7. RunInv(last)
    BY <1>3, <2>1, <2>5, <2>6, AdvanceKeeps
  <2> QED
    BY <1>5, <2>7, SetKeeps
<1> QED
  BY <1>1, <1>4, <1>5

\* A request that fails, and the diagnosis.
LEMMA DiagnoseKeeps ==
  ASSUME HeadlessInv, NEW r \in CiRuns, request_failed(r) \/ diagnose(r)
  PROVE  HeadlessInv'
<1> DEFINE rec == ciRun[r]
<1>1. RunInv(rec) /\ DOMAIN rec = RunFields /\ FindingsAreTrue(rec)
  BY DEF HeadlessInv, RunInv
<1>2. CASE request_failed(r)
  <2>1. rec.phase \in Working \ {"setup"} /\ Set(r, Leave(rec, "error"))
    BY <1>2 DEF request_failed, Working, AfterFirst, AfterVisual, AfterChromium, AfterFinal
  <2>2. RunInv(Leave(rec, "error"))
    BY <1>1, <2>1, GiveUpKeeps
  <2> QED
    BY <2>1, <2>2, SetKeeps
<1>3. CASE diagnose(r)
  <2> DEFINE nxt == [rec EXCEPT !.found = ciWorld.found, !.rev = read_git_annotation, !.phase = "visual"]
  <2>1. rec.phase = "diagnose" /\ Set(r, nxt)
    BY <1>3 DEF diagnose, At
  <2>2. /\ SameRun(nxt, rec) /\ nxt.phase = "visual" /\ nxt.first = rec.first /\ nxt.drift = rec.drift
        /\ nxt.verdict = rec.verdict /\ nxt.fresh = rec.fresh
    BY <1>1 DEF RunFields, SameRun
  <2> HIDE DEF nxt
  <2>3. rec.phase \in AfterFirst /\ nxt.args = rec.args
    BY <2>1, <2>2 DEF AfterFirst, SameRun
  <2>4. FindingsAreTrue(nxt)
    BY <1>1, <2>2, <2>3 DEF FindingsAreTrue, AfterVisual, AfterChromium, AfterFinal, AfterBase
  <2>5. rec.phase \in Working \ {"setup", "report"} /\ nxt.phase \in Working \ {"setup"}
    BY <2>1, <2>2 DEF Working, AfterFirst
  <2>6. RunInv(nxt)
    BY <2>2, <2>4, <2>5, AdvanceKeeps
  <2> QED
    BY <2>1, <2>6, SetKeeps
<1> QED
  BY <1>2, <1>3

\* The optional checks: an answer or a reason why there is none is kept.
LEMMA CheckKeeps ==
  ASSUME HeadlessInv, NEW r \in CiRuns, visual(r) \/ chromium(r)
  PROVE  HeadlessInv'
<1> DEFINE rec == ciRun[r]
<1>1. RunInv(rec) /\ DOMAIN rec = RunFields /\ FindingsAreTrue(rec)
  BY DEF HeadlessInv, RunInv
<1>2. ASSUME NEW nxt, SameRun(nxt, rec), rec.phase \in {"visual", "chromium"},
             nxt.phase \in {"visual", "chromium", "final"}, nxt.first = rec.first, nxt.drift = rec.drift,
             nxt.verdict = rec.verdict, nxt.fresh = rec.fresh,
             nxt.phase \in {"chromium", "final"} /\ rec.args.visual =>
               nxt.vis \in {"pass", "fail", "inconclusive", "unavailable"},
             nxt.phase = "final" /\ rec.args.chromium => nxt.engine \in {"executed", "unavailable"}
      PROVE  RunInv(nxt)
  <2>1. rec.phase \in AfterFirst /\ nxt.args = rec.args
    BY <1>2 DEF AfterFirst, AfterVisual, SameRun
  <2>2. FindingsAreTrue(nxt)
    BY <1>1, <1>2, <2>1 DEF FindingsAreTrue, AfterVisual, AfterChromium, AfterFinal, AfterBase
  <2>3. rec.phase \in Working \ {"setup", "report"} /\ nxt.phase \in Working \ {"setup"}
    BY <1>2 DEF Working, AfterFirst, AfterVisual, AfterChromium
  <2> QED
    BY <1>2, <2>2, <2>3, AdvanceKeeps
<1>3. ASSUME NEW nxt, NEW d, Ended(r, nxt, d), RunInv(nxt), nxt.phase \in {"chromium", "final"}
      PROVE  HeadlessInv'
  <2>1. nxt.phase \in Working \ {"setup"}
    BY <1>3 DEF Working, AfterFirst, AfterVisual, AfterChromium
  <2>2. RunInv(Leave(nxt, "error"))
    BY <1>3, <2>1, GiveUpKeeps
  <2>3. Set(r, nxt) \/ Set(r, Leave(nxt, "error"))
    BY <1>3 DEF Ended
  <2> QED
    BY <1>3, <2>2, <2>3, SetKeeps
<1>4. CASE visual(r)
  <2> DEFINE on == [rec EXCEPT !.phase = "chromium"]
             out == [on EXCEPT !.vis = "unavailable"]
             again == IF visual_result_needs_baseline_retry(on) THEN "visual" ELSE "chromium"
             base == [on EXCEPT !.phase = again]
             shot == [base EXCEPT !.vis = verify_visual_change, !.visId = ciWorld.n + 1]
  <2>1. /\ rec.phase = "visual"
        /\ \/ ~on.args.visual /\ Ended(r, on, "none")
           \/ \E d \in classify_control_status(on.args.pixels) : Ended(r, out, d)
           \/ Set(r, shot)
    BY <1>4 DEF visual, At, capture_and_verify_visual_diff, Obtained
  <2>2. /\ SameRun(on, rec) /\ on.phase = "chromium" /\ on.first = rec.first /\ on.drift = rec.drift
        /\ on.verdict = rec.verdict /\ on.fresh = rec.fresh
    BY <1>1 DEF RunFields, SameRun
  <2> HIDE DEF on
  <2>3. /\ SameRun(out, rec) /\ out.phase = "chromium" /\ out.first = rec.first /\ out.drift = rec.drift
        /\ out.verdict = rec.verdict /\ out.fresh = rec.fresh /\ out.vis = "unavailable"
    BY <2>2 DEF RunFields, SameRun
  <2>4. again \in {"visual", "chromium"}
    OBVIOUS
  <2> HIDE DEF again
  <2>5. /\ SameRun(base, rec) /\ base.phase = again /\ base.first = rec.first /\ base.drift = rec.drift
        /\ base.verdict = rec.verdict /\ base.fresh = rec.fresh
    BY <2>2 DEF RunFields, SameRun
  <2> HIDE DEF base
  <2>6. /\ SameRun(shot, rec) /\ shot.phase = again /\ shot.first = rec.first /\ shot.drift = rec.drift
        /\ shot.verdict = rec.verdict /\ shot.fresh = rec.fresh /\ shot.vis = verify_visual_change
    BY <2>5 DEF RunFields, SameRun
  <2>7. verify_visual_change \in {"pass", "fail", "inconclusive"}
    BY DEF verify_visual_change
  <2> HIDE DEF out, shot
  <2>8. CASE ~on.args.visual /\ Ended(r, on, "none")
    <3>1. ~rec.args.visual
      BY <2>2, <2>8 DEF SameRun
    <3>2. RunInv(on)
      BY <1>2, <2>1, <2>2, <3>1
    <3> QED
      BY <1>3, <2>2, <2>8, <3>2
  <2>9. ASSUME NEW d, Ended(r, out, d) PROVE HeadlessInv'
    <3>1. RunInv(out)
      BY <1>2, <2>1, <2>3
    <3> QED
      BY <1>3, <2>3, <2>9, <3>1
  <2>10. CASE Set(r, shot)
    <3>1. RunInv(shot)
      BY <1>2, <2>1, <2>4, <2>6, <2>7
    <3> QED
      BY <2>10, <3>1, SetKeeps
  <2> QED
    BY <2>1, <2>8, <2>9, <2>10
<1>5. CASE chromium(r)
  <2> DEFINE on == [rec EXCEPT !.phase = "final"]
             out == [on EXCEPT !.engine = "unavailable"]
             done == [on EXCEPT !.engine = "executed", !.engId = ciWorld.n + 1]
  <2>1. /\ rec.phase = "chromium"
        /\ \/ ~on.args.chromium /\ Ended(r, on, "none")
           \/ \E d \in classify_control_status(on.args.browser) : Ended(r, out, d)
           \/ Set(r, done)
    BY <1>5 DEF chromium, At, Obtained
  <2>2. /\ SameRun(on, rec) /\ on.phase = "final" /\ on.first = rec.first /\ on.drift = rec.drift
        /\ on.verdict = rec.verdict /\ on.fresh = rec.fresh /\ on.vis = rec.vis
    BY <1>1 DEF RunFields, SameRun
  <2> HIDE DEF on
  <2>3. /\ SameRun(out, rec) /\ out.phase = "final" /\ out.first = rec.first /\ out.drift = rec.drift
        /\ out.verdict = rec.verdict /\ out.fresh = rec.fresh /\ out.vis = rec.vis /\ out.engine = "unavailable"
        /\ SameRun(done, rec) /\ done.phase = "final" /\ done.first = rec.first /\ done.drift = rec.drift
        /\ done.verdict = rec.verdict /\ done.fresh = rec.fresh /\ done.vis = rec.vis /\ done.engine = "executed"
    BY <2>2 DEF RunFields, SameRun
  <2> HIDE DEF out, done
  <2>4. rec.args.visual => rec.vis \in {"pass", "fail", "inconclusive", "unavailable"}
    BY <1>1, <2>1 DEF FindingsAreTrue, AfterVisual
  <2>5. CASE ~on.args.chromium /\ Ended(r, on, "none")
    <3>1. ~rec.args.chromium
      BY <2>2, <2>5 DEF SameRun
    <3>2. RunInv(on)
      BY <1>2, <2>1, <2>2, <2>4, <3>1
    <3> QED
      BY <1>3, <2>2, <2>5, <3>2
  <2>6. ASSUME NEW d, Ended(r, out, d) PROVE HeadlessInv'
    <3>1. RunInv(out)
      BY <1>2, <2>1, <2>3, <2>4
    <3> QED
      BY <1>3, <2>3, <2>6, <3>1
  <2>7. CASE Set(r, done)
    <3>1. RunInv(done)
      BY <1>2, <2>1, <2>3, <2>4
    <3> QED
      BY <2>7, <3>1, SetKeeps
  <2> QED
    BY <2>1, <2>5, <2>6, <2>7
<1> QED
  BY <1>4, <1>5

\* From the last snapshot to the comparison: nothing that was found is changed.
LEMMA EvidenceKeeps ==
  ASSUME HeadlessInv, NEW r \in CiRuns,
         session_verify(r) \/ create_session_proof(r) \/ summarize_evidence(r) \/ open_store(r)
  PROVE  HeadlessInv'
<1> DEFINE rec == ciRun[r]
<1>1. RunInv(rec) /\ DOMAIN rec = RunFields /\ FindingsAreTrue(rec)
  BY DEF HeadlessInv, RunInv
<1>2. ASSUME NEW nxt, SameRun(nxt, rec), rec.phase \in {"verify", "proof", "evidence", "open"},
             nxt.phase \in {"proof", "evidence", "open", "compare"}, nxt.first = rec.first,
             nxt.last = rec.last, nxt.drift = rec.drift, nxt.vis = rec.vis, nxt.engine = rec.engine,
             nxt.verdict = "pass" => {"semantic", "layout"} \subseteq {e.kind : e \in nxt.fresh},
             Set(r, nxt)
      PROVE  HeadlessInv'
  <2>1. /\ rec.phase \in AfterFinal /\ rec.phase \in AfterChromium /\ rec.phase \in AfterVisual
        /\ rec.phase \in AfterFirst /\ nxt.args = rec.args
    BY <1>2 DEF AfterFirst, AfterVisual, AfterChromium, AfterFinal, SameRun
  <2>2. nxt.phase \notin AfterBase /\ nxt.phase # "index"
    BY <1>2 DEF AfterBase
  <2>3. FindingsAreTrue(nxt)
    BY <1>1, <1>2, <2>1, <2>2 DEF FindingsAreTrue
  <2>4. rec.phase \in Working \ {"setup", "report"} /\ nxt.phase \in Working \ {"setup"}
    BY <1>2 DEF Working, AfterFirst, AfterVisual, AfterChromium, AfterFinal
  <2>5. RunInv(nxt)
    BY <1>2, <2>3, <2>4, AdvanceKeeps
  <2> QED
    BY <1>2, <2>5, SetKeeps
<1>3. rec.verdict = "pass" => {"semantic", "layout"} \subseteq {e.kind : e \in rec.fresh}
  BY <1>1 DEF FindingsAreTrue
<1>4. CASE session_verify(r)
  <2>1. PICK v : v = verify_current
    OBVIOUS
  <2>2. v.verdict = "pass" => {"semantic", "layout"} \subseteq {e.kind : e \in v.fresh}
    BY <2>1 DEF verify_current
  <2> DEFINE nxt == [rec EXCEPT !.verdict = v.verdict, !.fresh = v.fresh, !.phase = "proof"]
  <2>3. rec.phase = "verify" /\ Set(r, nxt)
    BY <1>4, <2>1 DEF session_verify, At
  <2>4. /\ SameRun(nxt, rec) /\ nxt.phase = "proof" /\ nxt.first = rec.first /\ nxt.last = rec.last
        /\ nxt.drift = rec.drift /\ nxt.vis = rec.vis /\ nxt.engine = rec.engine /\ nxt.verdict = v.verdict
        /\ nxt.fresh = v.fresh
    BY <1>1 DEF RunFields, SameRun
  <2> HIDE DEF nxt
  <2> QED
    BY <1>2, <2>2, <2>3, <2>4
<1>5. CASE create_session_proof(r)
  <2> DEFINE nxt == [rec EXCEPT !.phase = "evidence"]
  <2>1. rec.phase = "proof" /\ Set(r, nxt)
    BY <1>5 DEF create_session_proof, At
  <2>2. /\ SameRun(nxt, rec) /\ nxt.phase = "evidence" /\ nxt.first = rec.first /\ nxt.last = rec.last
        /\ nxt.drift = rec.drift /\ nxt.vis = rec.vis /\ nxt.engine = rec.engine /\ nxt.verdict = rec.verdict
        /\ nxt.fresh = rec.fresh
    BY <1>1 DEF RunFields, SameRun
  <2> HIDE DEF nxt
  <2> QED
    BY <1>2, <1>3, <2>1, <2>2
<1>6. CASE summarize_evidence(r)
  <2>1. rec.phase = "evidence" /\ \E hashes : Set(r, [rec EXCEPT !.hashes = hashes, !.phase = "open"])
    BY <1>6 DEF summarize_evidence, At
  <2>2. PICK hashes : Set(r, [rec EXCEPT !.hashes = hashes, !.phase = "open"])
    BY <2>1
  <2> DEFINE nxt == [rec EXCEPT !.hashes = hashes, !.phase = "open"]
  <2>3. /\ SameRun(nxt, rec) /\ nxt.phase = "open" /\ nxt.first = rec.first /\ nxt.last = rec.last
        /\ nxt.drift = rec.drift /\ nxt.vis = rec.vis /\ nxt.engine = rec.engine /\ nxt.verdict = rec.verdict
        /\ nxt.fresh = rec.fresh
    BY <1>1 DEF RunFields, SameRun
  <2>4. Set(r, nxt)
    BY <2>2
  <2> HIDE DEF nxt
  <2> QED
    BY <1>2, <1>3, <2>1, <2>3, <2>4
<1>7. CASE open_store(r)
  <2>1. PICK files : files = gc(ciDisk.files)
    OBVIOUS
  <2> DEFINE nxt == [rec EXCEPT !.opened = files, !.loaded = ciDisk.index, !.phase = "compare"]
  <2>2. rec.phase = "open" /\ Set(r, nxt)
    BY <1>7, <2>1 DEF open_store, At
  <2>3. /\ SameRun(nxt, rec) /\ nxt.phase = "compare" /\ nxt.first = rec.first /\ nxt.last = rec.last
        /\ nxt.drift = rec.drift /\ nxt.vis = rec.vis /\ nxt.engine = rec.engine /\ nxt.verdict = rec.verdict
        /\ nxt.fresh = rec.fresh
    BY <1>1 DEF RunFields, SameRun
  <2> HIDE DEF nxt
  <2> QED
    BY <1>2, <1>3, <2>2, <2>3
<1> QED
  BY <1>4, <1>5, <1>6, <1>7

\* The baseline: only a run without a drift goes on to write it.
LEMMA BaselineKeeps ==
  ASSUME HeadlessInv, NEW r \in CiRuns, put_artifact(r) \/ write_baseline_index(r)
  PROVE  HeadlessInv'
<1> DEFINE rec == ciRun[r]
<1>1. RunInv(rec) /\ DOMAIN rec = RunFields /\ FindingsAreTrue(rec)
  BY DEF HeadlessInv, RunInv
<1>2. ASSUME NEW nxt, nxt.args = rec.args, rec.phase \in {"compare", "index"}, nxt.first = rec.first,
             nxt.last = rec.last, nxt.drift = rec.drift, nxt.vis = rec.vis, nxt.engine = rec.engine,
             nxt.verdict = rec.verdict, nxt.fresh = rec.fresh, nxt.phase \in AfterBase,
             nxt.base \in {"created", "incompatible", "match", "changed"}, nxt.phase = "index" => nxt.drift = {}
      PROVE  FindingsAreTrue(nxt)
  <2>1. /\ rec.phase \in AfterFinal /\ rec.phase \in AfterChromium /\ rec.phase \in AfterVisual
        /\ rec.phase \in AfterFirst
    BY <1>2 DEF AfterFirst, AfterVisual, AfterChromium, AfterFinal, AfterBase
  <2> QED
    BY <1>1, <1>2, <2>1 DEF FindingsAreTrue
<1>3. CASE put_artifact(r)
  <2>1. PICK c : c = compare_and_retain_baseline(rec, ciDisk.files)
    OBVIOUS
  <2>2. c.status \in {"created", "incompatible", "match", "changed"} /\ (c.store => rec.drift = {})
    BY <2>1 DEF compare_and_retain_baseline
  <2> DEFINE kept == [rec EXCEPT !.base = c.status, !.phase = "report"]
             put == [rec EXCEPT !.base = c.status, !.phase = "index"]
  <2>3. /\ rec.phase = "compare"
        /\ Set(r, kept) \/ Set(r, Leave(rec, "error")) \/ (c.store /\ Set(r, put))
    BY <1>3, <2>1 DEF put_artifact, At
  <2>4. rec.phase \in Working \ {"setup", "report"}
    BY <2>3 DEF Working, AfterFirst, AfterVisual, AfterChromium, AfterFinal
  <2>5. {"report", "index"} \subseteq AfterBase /\ AfterBase \subseteq Working \ {"setup"}
    BY DEF Working, AfterFirst, AfterVisual, AfterChromium, AfterFinal, AfterBase
  <2>6. /\ SameRun(kept, rec) /\ kept.phase = "report" /\ kept.first = rec.first /\ kept.last = rec.last
        /\ kept.drift = rec.drift /\ kept.vis = rec.vis /\ kept.engine = rec.engine
        /\ kept.verdict = rec.verdict /\ kept.fresh = rec.fresh /\ kept.base = c.status
        /\ SameRun(put, rec) /\ put.phase = "index" /\ put.first = rec.first /\ put.last = rec.last
        /\ put.drift = rec.drift /\ put.vis = rec.vis /\ put.engine = rec.engine
        /\ put.verdict = rec.verdict /\ put.fresh = rec.fresh /\ put.base = c.status
    BY <1>1 DEF RunFields, SameRun
  <2> HIDE DEF kept, put
  <2>7. kept.args = rec.args /\ put.args = rec.args
    BY <2>6 DEF SameRun
  <2>8. CASE Set(r, kept)
    <3>1. FindingsAreTrue(kept)
      BY <1>2, <2>2, <2>3, <2>5, <2>6, <2>7
    <3>2. RunInv(kept)
      BY <2>4, <2>5, <2>6, <3>1, AdvanceKeeps
    <3> QED
      BY <2>8, <3>2, SetKeeps
  <2>9. CASE Set(r, Leave(rec, "error"))
    <3>1. RunInv(Leave(rec, "error"))
      BY <1>1, <2>4, GiveUpKeeps
    <3> QED
      BY <2>9, <3>1, SetKeeps
  <2>10. CASE c.store /\ Set(r, put)
    <3>1. FindingsAreTrue(put)
      BY <1>2, <2>2, <2>3, <2>5, <2>6, <2>7, <2>10
    <3>2. RunInv(put)
      BY <2>4, <2>5, <2>6, <3>1, AdvanceKeeps
    <3> QED
      BY <2>10, <3>2, SetKeeps
  <2> QED
    BY <2>3, <2>8, <2>9, <2>10
<1>4. CASE write_baseline_index(r)
  <2> DEFINE nxt == [rec EXCEPT !.wrote = TRUE, !.phase = "report"]
  <2>1. rec.phase = "index" /\ Set(r, nxt)
    BY <1>4 DEF write_baseline_index, At
  <2>2. /\ DOMAIN nxt = RunFields /\ nxt.args = rec.args /\ nxt.code = rec.code /\ nxt.cleanups = rec.cleanups
        /\ nxt.setups = rec.setups /\ nxt.phase = "report" /\ nxt.first = rec.first /\ nxt.last = rec.last
        /\ nxt.drift = rec.drift /\ nxt.vis = rec.vis /\ nxt.engine = rec.engine
        /\ nxt.verdict = rec.verdict /\ nxt.fresh = rec.fresh /\ nxt.base = rec.base
    BY <1>1 DEF RunFields
  <2> HIDE DEF nxt
  <2>3. rec.phase \in AfterBase /\ rec.phase \in AfterFinal /\ rec.phase \in AfterFirst
    BY <2>1 DEF AfterFirst, AfterVisual, AfterChromium, AfterFinal, AfterBase
  <2>4. rec.drift = {} /\ rec.base \in {"created", "incompatible", "match", "changed"}
    BY <1>1, <2>1, <2>3 DEF FindingsAreTrue
  <2>5. OnePage(rec)
    BY <1>1, <2>3, <2>4 DEF FindingsAreTrue, OnePage
  <2>6. OnePage(nxt)
    BY <2>2, <2>5 DEF OnePage
  <2>7. nxt.phase \in AfterBase /\ nxt.phase \in Working \ {"setup"}
    BY <2>2 DEF Working, AfterFirst, AfterVisual, AfterChromium, AfterFinal, AfterBase
  <2>8. FindingsAreTrue(nxt)
    BY <1>2, <2>1, <2>2, <2>4, <2>7
  <2>9. FixtureIsOwed(nxt)
    BY <1>1, <2>1, <2>2 DEF RunInv, FixtureIsOwed
  <2>10. nxt.code # "passed"
    BY <1>1, <2>1, <2>2 DEF RunInv
  <2>11. RunInv(nxt)
    BY <2>2, <2>6, <2>7, <2>8, <2>9, <2>10 DEF RunInv
  <2> QED
    BY <2>1, <2>11, SetKeeps
<1> QED
  BY <1>3, <1>4

\* The verdict, the cleanup and the end of the process.
LEMMA RunEndKeeps ==
  ASSUME HeadlessInv, NEW r \in CiRuns, write_bundle(r) \/ fixture_cleanup(r) \/ ci_killed(r)
  PROVE  HeadlessInv'
<1> DEFINE rec == ciRun[r]
<1>1. RunInv(rec) /\ DOMAIN rec = RunFields /\ FindingsAreTrue(rec) /\ FixtureIsOwed(rec)
  BY DEF HeadlessInv, RunInv
<1>2. CASE write_bundle(r)
  <2>1. PICK code \in {evaluate_exit_policy(rec), "error"} : Set(r, Leave(rec, code))
    BY <1>2 DEF write_bundle
  <2>2. rec.phase = "report"
    BY <1>2 DEF write_bundle, At
  <2>3. code \in {"error", "failed", "inconclusive", "passed"}
    BY DEF evaluate_exit_policy
  <2>4. code = "passed" => PassedSoundly(rec)
    BY <1>1, <2>2, PolicyIsSound
  <2>5. /\ rec.setups \in {0, 1} /\ (rec.setups = 1 => rec.args.commands) /\ rec.cleanups = 0
        /\ (rec.verdict = "pass" => {"semantic", "layout"} \subseteq {e.kind : e \in rec.fresh})
        /\ (rec.wrote => OnePage(rec))
    BY <1>1, <2>2 DEF FixtureIsOwed, FindingsAreTrue, RunInv
  <2>6. RunInv(Leave(rec, code))
    BY <1>1, <2>3, <2>4, <2>5, LeaveKeeps
  <2> QED
    BY <2>1, <2>6, SetKeeps
<1>3. CASE fixture_cleanup(r)
  <2>1. PICK code \in {rec.code, "error"} :
          Set(r, [rec EXCEPT !.cleanups = rec.cleanups + 1, !.phase = "done", !.code = code])
    BY <1>3 DEF fixture_cleanup
  <2> DEFINE nxt == [rec EXCEPT !.cleanups = rec.cleanups + 1, !.phase = "done", !.code = code]
  <2>2. rec.phase = "cleanup" /\ Set(r, nxt)
    BY <1>3, <2>1 DEF fixture_cleanup, At
  <2>3. rec.cleanups = 0
    BY <1>1, <2>2 DEF FixtureIsOwed
  <2>4. /\ DOMAIN nxt = RunFields /\ nxt.args = rec.args /\ nxt.code = code /\ nxt.cleanups = 1
        /\ nxt.setups = rec.setups /\ nxt.phase = "done" /\ nxt.first = rec.first /\ nxt.last = rec.last
        /\ nxt.vis = rec.vis /\ nxt.engine = rec.engine /\ nxt.wrote = rec.wrote /\ nxt.found = rec.found
        /\ nxt.verdict = rec.verdict /\ nxt.fresh = rec.fresh /\ nxt.base = rec.base
    BY <1>1, <2>3 DEF RunFields
  <2> HIDE DEF nxt
  <2>5. FixtureIsOwed(nxt) /\ FindingsAreTrue(nxt)
    BY <1>1, <2>4 DEF FixtureIsOwed, FindingsAreTrue, AfterFirst, AfterVisual, AfterChromium, AfterFinal, AfterBase
  <2>6. OnePage(rec) => OnePage(nxt)
    BY <2>4 DEF OnePage
  <2>7. PassedSoundly(rec) => PassedSoundly(nxt)
    BY <2>4, <2>6 DEF PassedSoundly
  <2>8. RunInv(nxt)
    BY <1>1, <2>4, <2>5, <2>6, <2>7 DEF RunInv
  <2> QED
    BY <2>2, <2>8, SetKeeps
<1>4. CASE ci_killed(r)
  <2> DEFINE rest == Remains(rec)
             nxt == [rest EXCEPT !.phase = "killed"]
  <2>1. rec.phase \in {"compare", "index", "report", "cleanup"} /\ Set(r, nxt)
    BY <1>4 DEF ci_killed
  <2>2. /\ DOMAIN rest = RunFields /\ rest.args = rec.args /\ rest.setups = rec.setups /\ rest.wrote = rec.wrote
        /\ rest.first = rec.first /\ rest.last = rec.last /\ rest.verdict = "none" /\ rest.cleanups = 0
        /\ rest.code = "none"
    BY DEF Remains, IdleRun, RunFields
  <2> HIDE DEF rest
  <2>3. /\ DOMAIN nxt = RunFields /\ nxt.args = rec.args /\ nxt.setups = rec.setups /\ nxt.wrote = rec.wrote
        /\ nxt.first = rec.first /\ nxt.last = rec.last /\ nxt.verdict = "none" /\ nxt.cleanups = 0
        /\ nxt.code = "none" /\ nxt.phase = "killed"
    BY <2>2 DEF RunFields
  <2> HIDE DEF nxt
  <2>4. FixtureIsOwed(nxt) /\ FindingsAreTrue(nxt)
    BY <1>1, <2>1, <2>3 DEF FixtureIsOwed, FindingsAreTrue, AfterFirst, AfterVisual, AfterChromium, AfterFinal,
                            AfterBase
  <2>5. OnePage(rec) => OnePage(nxt)
    BY <2>3 DEF OnePage
  <2>6. RunInv(nxt)
    BY <1>1, <2>3, <2>4, <2>5 DEF RunInv
  <2> QED
    BY <2>1, <2>6, SetKeeps
<1> QED
  BY <1>2, <1>3, <1>4

\* The invariant of the gate, for every number of runs.
LEMMA HeadlessInvariant == HeadlessSpec => []HeadlessInv
<1>1. HeadlessInit => HeadlessInv
  <2> SUFFICES ASSUME HeadlessInit PROVE HeadlessInv
    OBVIOUS
  <2>1. FixtureIsOwed(IdleRun) /\ FindingsAreTrue(IdleRun)
    BY IdleRunIs DEF FixtureIsOwed, FindingsAreTrue, AfterFirst, AfterVisual, AfterChromium, AfterFinal, AfterBase
  <2>2. RunInv(IdleRun)
    BY <2>1, IdleRunIs DEF RunInv
  <2> QED
    BY <2>2 DEF HeadlessInit, HeadlessInv
<1>2. HeadlessInv /\ [HeadlessNext]_ciVars => HeadlessInv'
  <2> SUFFICES ASSUME HeadlessInv, [HeadlessNext]_ciVars PROVE HeadlessInv'
    OBVIOUS
  <2>1. CASE ciRun' = ciRun
    BY <2>1 DEF HeadlessInv
  <2>2. ASSUME NEW r \in CiRuns,
               \/ run(r) \/ setup(r) \/ snapshot_taken(r) \/ snapshot_filed(r) \/ request_failed(r)
               \/ diagnose(r) \/ visual(r) \/ chromium(r) \/ session_verify(r)
               \/ create_session_proof(r) \/ summarize_evidence(r) \/ open_store(r) \/ put_artifact(r)
               \/ write_baseline_index(r) \/ write_bundle(r) \/ fixture_cleanup(r) \/ ci_killed(r)
        PROVE  HeadlessInv'
    BY <2>2, RunStartKeeps, SnapshotFiledKeeps, DiagnoseKeeps, CheckKeeps, EvidenceKeeps, BaselineKeeps, RunEndKeeps
  <2>3. CASE world_changes \/ release_session \/ UNCHANGED ciVars
    BY <2>1, <2>3 DEF world_changes, release_session, ciVars
  <2> QED
    BY <2>2, <2>3 DEF HeadlessNext
<1> QED
  BY <1>1, <1>2, PTL DEF HeadlessSpec

\* Whatever the developer, the page, the daemon's retention and other runs do
\* meanwhile, and wherever a run is killed: a run that exits 0 has what its policy
\* demands and saw one page, only such a run replaces the baseline index, and a
\* fixture that was set up is cleaned up once (headless.rs).
THEOREM RunsStaySound == HeadlessSpec => []RunsAreSound
<1>1. HeadlessInv => RunsAreSound
  <2> SUFFICES ASSUME HeadlessInv PROVE RunsAreSound
    OBVIOUS
  <2>1. \A r \in CiRuns : RunInv(ciRun[r])
    BY DEF HeadlessInv
  <2>2. ASSUME NEW r \in CiRuns, ciRun[r].code = "passed"
        PROVE  PassedSoundly(ciRun[r]) /\ (ciRun[r].args.fixture => Route(ciRun[r].last) = FixtureRoute)
    BY <2>1, <2>2 DEF RunInv, PassedSoundly, OnePage
  <2>3. PassedRunsAreSound
    BY <2>2 DEF PassedRunsAreSound, PassedSoundly, OnePage
  <2>4. DriftNeverBecomesBaseline
    BY <2>1 DEF DriftNeverBecomesBaseline, RunInv, OnePage
  <2>5. FixtureIsUndone
    BY <2>1 DEF FixtureIsUndone, RunInv, FixtureIsOwed
  <2> QED
    BY <2>3, <2>4, <2>5 DEF RunsAreSound
<1> QED
  BY <1>1, HeadlessInvariant, PTL

-----------------------------------------------------------------------------
(* What the verdicts of the repair evidence rest on.                       *)

\* The inputs a step chose.
VerdictInv ==
  /\ vCase \subseteq Cases
  /\ \A x \in vFacts : x.truth \in Truths /\ x.evidence \subseteq Items(x.truth)

\* A reason is given when its condition holds.
LEMMA FlagIsEmpty ==
  ASSUME NEW x, NEW b \in BOOLEAN
  PROVE  (Flag(x, b) = {}) = (~b)
BY DEF Flag

\* The bounded verdict has a reason unless it is verified: the conditions of the
\* verdict and those of the reasons are the same, though they are grouped apart.
LEMMA BoundedIsExplained ==
  ASSUME NEW o, NEW r, NEW b, b = build_bounded_target_verification(o, r),
         o.changed \in BOOLEAN, o.intime \in BOOLEAN, r.proof.unchanged \in BOOLEAN,
         r.proof.proven \in BOOLEAN,
         o.status \in {"regression_signal", "change_observed", "inconclusive", "no_observable_change"}
  PROVE  /\ (b.verdict = "verified") = (b.reasons = {})
         /\ b.verdict = "verified" =>
              /\ o.changed /\ o.status = "change_observed" /\ o.intime
              /\ r.impact.unexpected = {} /\ r.proof.unchanged
<1> DEFINE hf == r.contracts.hard_failures # {}
           hu == r.contracts.hard_unknowns # {}
           mu == r.mutations # {"killed"}
           un == r.impact.unexpected # {}
           ic == r.impact.inconclusive # {}
           rejected == o.status \in {"no_observable_change", "regression_signal"} \/ hf \/ ~r.proof.unchanged
           inconclusive == \/ ~o.changed \/ o.status = "inconclusive" \/ hu \/ mu
                           \/ ~r.proof.proven \/ ~o.intime \/ un \/ ic
           good == /\ o.changed /\ o.status = "change_observed" /\ o.intime
                   /\ ~hf /\ ~hu /\ ~mu /\ ~un /\ ~ic /\ r.proof.unchanged /\ r.proof.proven
<1>1. b.verdict = Verdict(rejected, inconclusive)
  BY DEF build_bounded_target_verification, WithinBudget, CleanupComplete
<1>2. good <=> ~rejected /\ ~inconclusive
  OBVIOUS
<1>3. b.verdict = "verified" <=> good
  <2> HIDE DEF rejected, inconclusive, good
  <2> QED
    BY <1>1, <1>2 DEF Verdict
<1>4. b.reasons = Flag("target", ~o.changed) \cup Flag("status", o.status # "change_observed")
                   \cup Flag("hard_failures", hf) \cup Flag("hard_unknowns", hu)
                   \cup Flag("mutations", mu) \cup Flag("containment", ~r.proof.proven)
                   \cup Flag("cleanup", ~r.proof.unchanged) \cup Flag("budget", ~o.intime)
                   \cup Flag("unexpected", un) \cup Flag("inconclusive", ic)
  BY DEF build_bounded_target_verification, WithinBudget, CleanupComplete
<1>5. b.reasons = {} <=> good
  <2>1. \A x : /\ Flag(x, ~o.changed) = {} <=> o.changed
               /\ Flag(x, o.status # "change_observed") = {} <=> o.status = "change_observed"
               /\ Flag(x, hf) = {} <=> ~hf
               /\ Flag(x, hu) = {} <=> ~hu
               /\ Flag(x, mu) = {} <=> ~mu
               /\ Flag(x, un) = {} <=> ~un
               /\ Flag(x, ic) = {} <=> ~ic
               /\ Flag(x, ~r.proof.proven) = {} <=> r.proof.proven
               /\ Flag(x, ~r.proof.unchanged) = {} <=> r.proof.unchanged
               /\ Flag(x, ~o.intime) = {} <=> o.intime
    BY DEF Flag
  <2> HIDE DEF hf, hu, mu, un, ic
  <2> QED
    BY <1>4, <2>1
<1>6. (b.verdict = "verified") = (b.reasons = {})
  <2> HIDE DEF good
  <2> QED
    BY <1>3, <1>5
<1> QED
  BY <1>3, <1>6

\* So it is for the autonomous receipt.
LEMMA ReceiptIsExplained ==
  ASSUME NEW o, NEW proof, NEW plan, NEW r, r = build_autonomous_receipt(o, proof, plan),
         o.intime \in BOOLEAN, proof.unchanged \in BOOLEAN, proof.proven \in BOOLEAN,
         plan.denominator_known \in BOOLEAN, plan.incomplete \in BOOLEAN
  PROVE  /\ (r.verdict = "verified") = (r.reasons = {})
         /\ r.verdict = "verified" => plan.denominator_known
<1> DEFINE revalidate == plan_partial_revalidation(plan)
           contracts == production_contract_summary(o)
           impact == compare_predicted_actual(plan.targets, ActualTargets(o), o.status # "inconclusive")
           hf == contracts.hard_failures # {}
           hu == contracts.hard_unknowns # {}
           mu == production_mutation_challenges # {"killed"}
           un == impact.unexpected # {}
           ic == impact.inconclusive # {}
           co == ~revalidate.complete_claim_allowed
           rejected == ~proof.unchanged \/ hf \/ ~proof.unchanged
           inconclusive == hu \/ mu \/ un \/ ic \/ co \/ ~plan.denominator_known \/ plan.incomplete
                           \/ ~o.intime \/ ~proof.proven
           good == /\ ~hf /\ ~hu /\ ~mu /\ ~un /\ ~ic /\ ~co /\ plan.denominator_known
                   /\ ~plan.incomplete /\ o.intime /\ proof.proven /\ proof.unchanged
<1>0. revalidate.complete_claim_allowed \in BOOLEAN
  BY DEF plan_partial_revalidation
<1>1. r.verdict = Verdict(rejected, inconclusive)
  <2> HIDE DEF contracts, impact, revalidate
  <2> QED
    BY DEF build_autonomous_receipt, WithinBudget, CleanupComplete, contracts, impact, revalidate
<1>2. good <=> ~rejected /\ ~inconclusive
  OBVIOUS
<1>3. r.verdict = "verified" <=> good
  <2> HIDE DEF rejected, inconclusive, good
  <2> QED
    BY <1>1, <1>2 DEF Verdict
<1>4. r.reasons = Flag("worktree", ~proof.unchanged) \cup Flag("containment", ~proof.proven)
                   \cup Flag("hard_failures", hf) \cup Flag("hard_unknowns", hu)
                   \cup Flag("mutations", mu) \cup Flag("unexpected", un)
                   \cup Flag("inconclusive", ic) \cup Flag("coverage", co)
                   \cup Flag("denominator", ~plan.denominator_known)
                   \cup Flag("incomplete", plan.incomplete)
                   \cup Flag("budget", ~o.intime) \cup Flag("cleanup", ~proof.unchanged)
  BY DEF build_autonomous_receipt, WithinBudget, CleanupComplete
<1>5. r.reasons = {} <=> good
  <2>1. \A x : /\ Flag(x, hf) = {} <=> ~hf
               /\ Flag(x, hu) = {} <=> ~hu
               /\ Flag(x, mu) = {} <=> ~mu
               /\ Flag(x, un) = {} <=> ~un
               /\ Flag(x, ic) = {} <=> ~ic
               /\ Flag(x, co) = {} <=> ~co
               /\ Flag(x, ~plan.denominator_known) = {} <=> plan.denominator_known
               /\ Flag(x, plan.incomplete) = {} <=> ~plan.incomplete
               /\ Flag(x, ~proof.proven) = {} <=> proof.proven
               /\ Flag(x, ~proof.unchanged) = {} <=> proof.unchanged
               /\ Flag(x, ~o.intime) = {} <=> o.intime
    <3> HIDE DEF hf, hu, mu, un, ic, co
    <3> QED
      BY DEF Flag
  <2> HIDE DEF hf, hu, mu, un, ic, co
  <2> QED
    BY <1>4, <2>1
<1>6. (r.verdict = "verified") = (r.reasons = {})
  <2> HIDE DEF good
  <2> QED
    BY <1>3, <1>5
<1>7. good => plan.denominator_known
  OBVIOUS
<1> QED
  <2> HIDE DEF good
  <2> QED
    BY <1>3, <1>6, <1>7

\* What the fields of a case hold.
LEMMA CaseTyped ==
  ASSUME NEW k \in Cases
  PROVE  /\ k.before.fields \in [Fields -> BOOLEAN] /\ k.after.fields \in [Fields -> BOOLEAN]
         /\ k.before.errors \in 0..1 /\ k.after.errors \in 0..1 /\ k.intime \in BOOLEAN
         /\ k.frames \in Frames /\ k.before.nodes = 1
<1> DEFINE other == [BeforePage EXCEPT !.errors = 1, !.failures = {"/api"}]
<1>1. k.before \in {BeforePage, other} /\ k.after \in ExaminedPages /\ k.frames \in Frames /\ k.intime \in BOOLEAN
  <2> HIDE DEF other
  <2> QED
    BY DEF Cases, other
<1>2. BeforePage.fields \in [Fields -> BOOLEAN] /\ BeforePage.errors \in 0..1 /\ BeforePage.nodes = 1
  BY DEF BeforePage
<1>3. other.fields = BeforePage.fields /\ other.errors = 1 /\ other.nodes = 1
  BY DEF BeforePage
<1>4. k.before.fields \in [Fields -> BOOLEAN] /\ k.before.errors \in 0..1 /\ k.before.nodes = 1
  <2> HIDE DEF other
  <2>1. CASE k.before = BeforePage
    BY <1>2, <2>1
  <2>2. CASE k.before = other
    BY <1>2, <1>3, <2>2
  <2> QED
    BY <1>1, <2>1, <2>2
<1>5. k.after.fields \in [Fields -> BOOLEAN] /\ k.after.errors \in 0..1
  BY <1>1 DEF ExaminedPages
<1> QED
  BY <1>1, <1>4, <1>5

\* The observation of a case whose target can be selected before and after.
LEMMA ObservedOfCase ==
  ASSUME NEW k \in Cases
  PROVE  LET o == Observed(k)
             lost == k.before.fields["interactive"] /\ ~k.after.fields["interactive"]
         IN  k.before.nodes = 1 /\ k.after.nodes = 1 =>
             /\ o.changed \in BOOLEAN /\ o.intime = k.intime
             /\ o.status \in {"regression_signal", "change_observed", "inconclusive", "no_observable_change"}
             /\ o.status = "change_observed" =>
                  /\ ~lost /\ k.after.errors <= k.before.errors
                  /\ k.after.failures \subseteq k.before.failures
             /\ k.frames.kind = "both" /\ k.frames.pixels # "same" => o.regions = 1
             /\ o.changed /\ (k.frames.kind = "both" => k.frames.pixels = "same") =>
                  k.after.fields # k.before.fields
<1> DEFINE o == Observed(k)
           lost == k.before.fields["interactive"] /\ ~k.after.fields["interactive"]
           before == build_semantic_baseline(k.before)
           after == build_semantic_baseline(k.after)
           changes == compare_semantic_projection(before, after)
           found == compare_issue_fingerprints(before, after)
           change == assess_visual_change(k.frames)
           scope == IF k.frames.kind = "none" THEN "semantic_only" ELSE "semantic_visual"
<1> SUFFICES ASSUME k.before.nodes = 1, k.after.nodes = 1
             PROVE  /\ o.changed \in BOOLEAN /\ o.intime = k.intime
                    /\ o.status \in {"regression_signal", "change_observed", "inconclusive", "no_observable_change"}
                    /\ o.status = "change_observed" =>
                         /\ ~lost /\ k.after.errors <= k.before.errors
                         /\ k.after.failures \subseteq k.before.failures
                    /\ k.frames.kind = "both" /\ k.frames.pixels # "same" => o.regions = 1
                    /\ o.changed /\ (k.frames.kind = "both" => k.frames.pixels = "same") =>
                         k.after.fields # k.before.fields
  OBVIOUS
<1>1. /\ k.before.fields \in [Fields -> BOOLEAN] /\ k.after.fields \in [Fields -> BOOLEAN]
      /\ k.before.errors \in 0..1 /\ k.after.errors \in 0..1 /\ k.intime \in BOOLEAN
      /\ k.frames \in Frames
  BY CaseTyped
<1>2. /\ before.fields = k.before.fields /\ after.fields = k.after.fields
      /\ before.errors = k.before.errors /\ after.errors = k.after.errors
      /\ before.failures = k.before.failures /\ after.failures = k.after.failures
  <2>1. /\ [f \in Fields |-> k.before.fields[f]] = k.before.fields
        /\ [f \in Fields |-> k.after.fields[f]] = k.after.fields
    BY <1>1
  <2> QED
    BY <2>1 DEF build_semantic_baseline
<1> HIDE DEF before, after
<1>3. /\ o.status = classify_verification_status(changes, found, change, scope, lost)
      /\ o.changed = (changes # {} \/ TRUE \in change.target)
      /\ o.regions = change.regions /\ o.intime = k.intime
  BY <1>2 DEF Observed, before, after
<1> HIDE DEF o
<1>4. o.status \in {"regression_signal", "change_observed", "inconclusive", "no_observable_change"}
  BY <1>3 DEF classify_verification_status
<1>5. o.status = "change_observed" => found = {} /\ ~lost
  <2> HIDE DEF found, lost, changes, change, scope
  <2>1. found # {} \/ lost => o.status = "regression_signal"
    BY <1>3 DEF classify_verification_status
  <2> QED
    BY <2>1
<1>6. found = {} => k.after.errors <= k.before.errors /\ k.after.failures \subseteq k.before.failures
  BY <1>1, <1>2 DEF compare_issue_fingerprints
<1>7. k.frames.kind = "both" /\ k.frames.pixels # "same" => change.regions = 1
  BY DEF assess_visual_change
<1>8. k.frames.kind = "both" /\ k.frames.pixels = "same" => change.target \subseteq {FALSE}
  BY <1>1 DEF assess_visual_change, TargetChanged, Frames
<1>9. k.frames.kind # "both" => change.target = {}
  BY DEF assess_visual_change
<1>10. changes # {} => k.after.fields # k.before.fields
  BY <1>2 DEF compare_semantic_projection
<1> QED
  <2> HIDE DEF changes, change, found, lost, scope
  <2>1. (k.frames.kind = "both" => k.frames.pixels = "same") => TRUE \notin change.target
    BY <1>8, <1>9
  <2> QED
    BY <1>3, <1>4, <1>5, <1>6, <1>7, <1>10, <2>1

\* A changed area has its target, which no plan predicts.
LEMMA RegionsAreUnexpected ==
  ASSUME NEW o, o.regions = 1
  PROVE  compare_predicted_actual({"route", "reference"}, ActualTargets(o), o.status # "inconclusive").unexpected # {}
BY DEF compare_predicted_actual, ActualTargets

\* What a case with a receipt is, and what is in that receipt.
LEMMA ReceiptOfCase ==
  ASSUME NEW k \in Cases, NEW r \in Receipts(k)
  PROVE  LET o == Observed(k)
             plan == build_plan(bind_production_affected_state)
         IN  /\ k.before.nodes = 1 /\ k.after.nodes = 1
             /\ r.receipt = build_autonomous_receipt(o, ShadowProof(k), plan)
             /\ r.bounded = build_bounded_target_verification(o, r.receipt)
             /\ r.receipt.proof = ShadowProof(k)
             /\ r.receipt.impact =
                  compare_predicted_actual({"route", "reference"}, ActualTargets(o), o.status # "inconclusive")
             /\ plan.denominator_known = FALSE /\ plan.incomplete = TRUE
<1>1. k.before.nodes = 1
  BY CaseTyped
<1>2. k.after.nodes = 1
  BY DEF Receipts, build_semantic_baseline
<1>3. r \in build_production_observation_receipt(k)
  BY DEF Receipts
<1> DEFINE o == Observed(k)
           plan == build_plan(bind_production_affected_state)
           a == build_autonomous_receipt(o, ShadowProof(k), plan)
<1>4. r = [receipt |-> a, bounded |-> build_bounded_target_verification(o, a)]
  BY <1>3 DEF build_production_observation_receipt
<1>5. r.receipt = a /\ r.bounded = build_bounded_target_verification(o, a)
  <2> HIDE DEF a, o
  <2> QED
    BY <1>4
<1>6. plan.targets = {"route", "reference"} /\ plan.denominator_known = FALSE /\ plan.incomplete = TRUE
  BY DEF build_plan, bind_production_affected_state
<1>7. /\ a.proof = ShadowProof(k)
      /\ a.impact = compare_predicted_actual({"route", "reference"}, ActualTargets(o), o.status # "inconclusive")
  <2> HIDE DEF plan, o
  <2> QED
    BY <1>6 DEF build_autonomous_receipt
<1> QED
  <2> HIDE DEF a, plan, o
  <2> SUFFICES /\ r.receipt = a /\ r.bounded = build_bounded_target_verification(o, a)
               /\ a.proof = ShadowProof(k)
               /\ a.impact = compare_predicted_actual({"route", "reference"}, ActualTargets(o), o.status # "inconclusive")
               /\ plan.denominator_known = FALSE /\ plan.incomplete = TRUE
    BY <1>1, <1>2 DEF a, plan, o
  <2> QED
    BY <1>5, <1>6, <1>7

\* A verified case: what changed and what did not.
LEMMA VerifiedCase ==
  ASSUME NEW k \in Cases, NEW r \in Receipts(k), r.bounded.verdict = "verified"
  PROVE  /\ k.after.fields # k.before.fields
         /\ k.after.fields["interactive"] \/ ~k.before.fields["interactive"]
         /\ k.after.errors <= k.before.errors /\ k.after.failures \subseteq k.before.failures
         /\ k.frames.kind = "both" => k.frames.pixels = "same"
         /\ k.shadow = "unchanged" /\ k.intime
<1> DEFINE o == Observed(k)
           rec == r.receipt
<1>1. /\ o.changed \in BOOLEAN /\ o.intime \in BOOLEAN /\ o.intime = k.intime
      /\ o.status \in {"regression_signal", "change_observed", "inconclusive", "no_observable_change"}
      /\ k.before.nodes = 1 /\ k.after.nodes = 1
  BY ObservedOfCase, ReceiptOfCase, CaseTyped
<1>2. /\ rec.proof.unchanged = (k.shadow = "unchanged") /\ rec.proof.proven = (k.shadow = "unchanged")
      /\ rec.proof.unchanged \in BOOLEAN /\ rec.proof.proven \in BOOLEAN
  <2>1. rec.proof = ShadowProof(k)
    BY ReceiptOfCase
  <2> QED
    BY <2>1 DEF ShadowProof
<1>3. r.bounded = build_bounded_target_verification(o, rec)
  BY ReceiptOfCase
<1>4. o.changed /\ o.status = "change_observed" /\ o.intime /\ rec.impact.unexpected = {} /\ rec.proof.unchanged
  <2> DEFINE b == r.bounded
  <2>1. b.verdict = "verified" /\ b = build_bounded_target_verification(o, rec)
    BY <1>3
  <2> HIDE DEF o, rec, b
  <2> QED
    BY <1>1, <1>2, <2>1, BoundedIsExplained
<1>5. k.frames.kind = "both" => k.frames.pixels = "same"
  <2> SUFFICES ASSUME k.frames.kind = "both", k.frames.pixels # "same" PROVE FALSE
    OBVIOUS
  <2>1. o.regions = 1
    BY <1>1, ObservedOfCase
  <2>2. rec.impact.unexpected # {}
    BY <2>1, RegionsAreUnexpected, ReceiptOfCase
  <2> QED
    BY <1>4, <2>2
<1> QED
  BY <1>1, <1>2, <1>4, <1>5, ObservedOfCase

\* Every receipt explains itself.
LEMMA ReceiptExplains ==
  ASSUME NEW k \in Cases, NEW r \in Receipts(k)
  PROVE  /\ (r.receipt.verdict = "verified") = (r.receipt.reasons = {})
         /\ (r.bounded.verdict = "verified") = (r.bounded.reasons = {})
         /\ validate_wave9_verified_handoff(r.receipt) => r.bounded.verdict = "verified"
<1> DEFINE o == Observed(k)
           rec == r.receipt
           plan == build_plan(bind_production_affected_state)
<1>1. /\ o.changed \in BOOLEAN /\ o.intime \in BOOLEAN
      /\ o.status \in {"regression_signal", "change_observed", "inconclusive", "no_observable_change"}
  BY ObservedOfCase, ReceiptOfCase, CaseTyped
<1>2. rec.proof.unchanged \in BOOLEAN /\ rec.proof.proven \in BOOLEAN
  <2>1. rec.proof = ShadowProof(k)
    BY ReceiptOfCase
  <2> QED
    BY <2>1 DEF ShadowProof
<1>3. ShadowProof(k).unchanged \in BOOLEAN /\ ShadowProof(k).proven \in BOOLEAN
  BY DEF ShadowProof
<1>4. /\ rec = build_autonomous_receipt(o, ShadowProof(k), plan)
      /\ r.bounded = build_bounded_target_verification(o, rec)
      /\ plan.denominator_known = FALSE /\ plan.incomplete = TRUE
  BY ReceiptOfCase
<1>5. (rec.verdict = "verified") = (rec.reasons = {}) /\ rec.verdict # "verified"
  <2> HIDE DEF o, plan, rec
  <2> QED
    BY <1>1, <1>3, <1>4, ReceiptIsExplained
<1>6. (r.bounded.verdict = "verified") = (r.bounded.reasons = {})
  <2> HIDE DEF o, plan, rec
  <2> QED
    BY <1>1, <1>2, <1>4, BoundedIsExplained
<1>7. ~validate_wave9_verified_handoff(rec)
  BY <1>5 DEF validate_wave9_verified_handoff
<1> QED
  BY <1>5, <1>6, <1>7

\* Evidence of any number of items: what the items that count tell is true, and
\* what one of them exhausts is all there.
LEMMA PartialEvidenceIsTrue ==
  ASSUME NEW truth \in Truths, NEW evidence \in SUBSET Items(truth), NEW c \in Contracts
  PROVE  evaluate_live_contract(c, compile_runtime_facts(evidence)) \in {"unknown", evaluate(c, truth)}
<1> DEFINE live == compile_runtime_facts(evidence)
           counted == {e \in evidence : ~e.stale /\ ~e.tainted /\ ~e.guessed}
<1>0. /\ \A x : x \in live.facts <=> \E i \in counted : x \in i.facts
      /\ \A x : x \in live.complete <=> \E i \in counted : x \in i.complete
  <2> HIDE DEF counted
  <2>1. live = [facts    |-> UNION {p.facts : p \in {compile_fact_payload(i) : i \in counted}},
                complete |-> UNION {p.complete : p \in {compile_fact_payload(i) : i \in counted}}]
    BY DEF compile_runtime_facts, counted
  <2>2. \A i : compile_fact_payload(i).facts = i.facts /\ compile_fact_payload(i).complete = i.complete
    BY DEF compile_fact_payload
  <2> HIDE DEF live
  <2>3. /\ live.facts = UNION {p.facts : p \in {compile_fact_payload(i) : i \in counted}}
        /\ live.complete = UNION {p.complete : p \in {compile_fact_payload(i) : i \in counted}}
    BY <2>1
  <2> QED
    BY <2>2, <2>3
<1>1. live.facts \subseteq truth
  <2> HIDE DEF live
  <2>1. \A i \in counted : i.facts \subseteq truth
    BY DEF Items
  <2> QED
    BY <1>0, <2>1
<1>2. c.fact \in truth /\ Domain(c) \in live.complete => c.fact \in live.facts
  <2> HIDE DEF live
  <2> SUFFICES ASSUME c.fact \in truth, Domain(c) \in live.complete
               PROVE  c.fact \in live.facts
    OBVIOUS
  <2>1. PICK i \in counted : Domain(c) \in i.complete
    BY <1>0
  <2>2. /\ "selectors" \in i.complete => ("panel" \in truth => "panel" \in i.facts)
        /\ "issue_codes" \in i.complete => ("code" \in truth => "code" \in i.facts)
    BY DEF Items
  <2>3. \/ c.fact = "panel" /\ Domain(c) = "selectors"
        \/ c.fact = "code" /\ Domain(c) = "issue_codes"
    BY DEF Contracts, Domain
  <2>4. c.fact \in i.facts
    BY <2>1, <2>2, <2>3
  <2> QED
    BY <1>0, <2>4
<1> HIDE DEF live
<1>3. c.kind \in {"exists", "not_exists", "no_issue_code"}
  BY DEF Contracts
<1>4. CASE c.fact \in live.facts
  <2>1. decisive_partial_result(c, live) = {evaluate(c, truth)}
    BY <1>1, <1>3, <1>4 DEF decisive_partial_result, evaluate
  <2>2. evaluate_live_contract(c, live) = evaluate(c, truth)
    <3> DEFINE decisive == decisive_partial_result(c, live)
    <3>1. decisive # {} /\ (CHOOSE v \in decisive : TRUE) = evaluate(c, truth)
      BY <2>1
    <3> QED
      BY <3>1 DEF evaluate_live_contract
  <2> QED
    BY <2>2 DEF live
<1>5. CASE c.fact \notin live.facts
  <2>1. decisive_partial_result(c, live) = {}
    BY <1>5 DEF decisive_partial_result
  <2>2. Domain(c) \in live.complete => evaluate(c, live.facts) = evaluate(c, truth)
    BY <1>1, <1>2, <1>3, <1>5 DEF evaluate
  <2>3. evaluate_live_contract(c, live) \in {"unknown", evaluate(c, truth)}
    BY <2>1, <2>2 DEF evaluate_live_contract
  <2> QED
    BY <2>3 DEF live
<1> QED
  BY <1>4, <1>5

\* What is examined is a case, and evidence that is what it says.
LEMMA VerdictsInvariant == VerdictSpec => []VerdictInv
<1>1. VerdictInit => VerdictInv
  BY DEF VerdictInit, VerdictInv
<1>2. VerdictInv /\ [VerdictNext]_verdictVars => VerdictInv'
  <2> SUFFICES ASSUME VerdictInv, [VerdictNext]_verdictVars PROVE VerdictInv'
    OBVIOUS
  <2>1. CASE verify_a_case
    BY <2>1 DEF VerdictInv, verify_a_case
  <2>2. CASE weigh_evidence
    <3>1. PICK t \in Truths : \E i, j \in Items(t) : vFacts' = {[truth |-> t, evidence |-> {i, j}]}
      BY <2>2 DEF weigh_evidence
    <3> QED
      BY <2>2, <3>1 DEF VerdictInv, weigh_evidence
  <2>3. CASE UNCHANGED verdictVars
    BY <2>3 DEF VerdictInv, verdictVars
  <2> QED
    BY <2>1, <2>2, <2>3 DEF VerdictNext
<1> QED
  BY <1>1, <1>2, PTL DEF VerdictSpec

\* A fix that is reported as verified changed its target and nothing else, each
\* receipt gives the reasons of its verdict, and a contract judged on partial
\* evidence gets the verdict of the whole page or none (verification, contracts and
\* mutation).
THEOREM VerdictsStaySound == VerdictSpec => []VerdictsAreSound
<1>1. VerdictInv => VerdictsAreSound
  <2> SUFFICES ASSUME VerdictInv PROVE VerdictsAreSound
    OBVIOUS
  <2>1. VerifiedFixIsSound
    <3>1. \A k \in vCase : k \in Cases
      BY DEF VerdictInv
    <3> QED
      BY <3>1, VerifiedCase DEF VerifiedFixIsSound
  <2>2. ReceiptsExplainThemselves
    <3>1. \A k \in vCase : k \in Cases
      BY DEF VerdictInv
    <3> QED
      BY <3>1, ReceiptExplains DEF ReceiptsExplainThemselves
  <2>3. ContractVerdictsAreSound
    BY PartialEvidenceIsTrue DEF VerdictInv, ContractVerdictsAreSound
  <2> QED
    BY <2>1, <2>2, <2>3 DEF VerdictsAreSound
<1> QED
  BY <1>1, VerdictsInvariant, PTL

-----------------------------------------------------------------------------
(* The edits of the repair.                                                *)

\* The loop of build_source_excerpt at one window, given the rest of it.
NarrowStep(f, text, selected, w) ==
  IF Rendered(text, w[1], w[2]) <= ExcerptBound THEN w
  ELSE IF w[1] = selected /\ w[2] = selected THEN <<0, 0>>
  ELSE IF w[2] - selected >= selected - w[1] /\ w[2] > selected THEN f[<<w[1], w[2] - 1>>]
  ELSE f[<<w[1] + 1, w[2]>>]

\* The windows around the selected line, and those with less than n lines beside
\* the selected one; f is the loop, on those.
Windows(selected, n) == (1..selected) \X (selected..n)
WindowsBelow(selected, n, k) == {w \in Windows(selected, n) : w[2] - w[1] < k}
Narrows(f, text, selected, D) == f = [w \in D |-> NarrowStep(f, text, selected, w)]

\* A set of naturals has a least element.
LEMMA LeastNatural ==
  ASSUME NEW T \in SUBSET Nat, T # {}
  PROVE  \E m \in T : \A k \in T : m <= k
<1>1. PICK m \in T : \A y \in T : <<y, m>> \notin OpToRel(<, Nat)
  BY WFMin, NatLessThanWellFounded
<1>2. \A x, y \in Nat : x < y => <<x, y>> \in OpToRel(<, Nat)
  BY SMTT(20) DEF OpToRel
<1>3. \A y \in T : ~(y < m)
  BY <1>1, <1>2
<1> QED
  BY <1>3

\* A window that is too heavy is narrowed by a line and stays around the selected one.
LEMMA NarrowerWindow ==
  ASSUME NEW selected \in Nat, NEW n \in Nat, NEW w \in Windows(selected, n),
         ~(w[1] = selected /\ w[2] = selected)
  PROVE  /\ w[2] - selected >= selected - w[1] /\ w[2] > selected =>
              <<w[1], w[2] - 1>> \in Windows(selected, n)
         /\ ~(w[2] - selected >= selected - w[1] /\ w[2] > selected) =>
              <<w[1] + 1, w[2]>> \in Windows(selected, n)
<1>1. w[1] \in 1..selected /\ w[2] \in selected..n
  BY DEF Windows
<1>2. w[2] - selected >= selected - w[1] /\ w[2] > selected => w[2] - 1 \in selected..n
  BY <1>1
<1>3. ~(w[2] - selected >= selected - w[1] /\ w[2] > selected) => w[1] + 1 \in 1..selected
  BY <1>1
<1> QED
  BY <1>1, <1>2, <1>3 DEF Windows

\* One more round of the loop: what f says below k decides what g says below k + 1.
LEMMA NarrowExtends ==
  ASSUME NEW text, NEW selected \in Nat, NEW n \in Nat, NEW k \in Nat,
         NEW f, Narrows(f, text, selected, WindowsBelow(selected, n, k))
  PROVE  \E g : Narrows(g, text, selected, WindowsBelow(selected, n, k + 1))
<1> DEFINE D == WindowsBelow(selected, n, k)
           E == WindowsBelow(selected, n, k + 1)
           g == [w \in E |-> NarrowStep(f, text, selected, w)]
<1>1. D \subseteq E
  BY DEF WindowsBelow, Windows
<1>2. \A w \in D : f[w] = NarrowStep(f, text, selected, w)
  <2> HIDE DEF D
  <2> QED
    BY Zenon DEF Narrows, D
<1>3. \A w \in D : g[w] = f[w]
  <2> HIDE DEF D, E
  <2> QED
    BY <1>1, <1>2
<1>4. ASSUME NEW w \in E
      PROVE  NarrowStep(f, text, selected, w) = NarrowStep(g, text, selected, w)
  <2>1. CASE Rendered(text, w[1], w[2]) <= ExcerptBound
    <3> HIDE DEF g, E
    <3> QED
      BY <2>1, Zenon DEF NarrowStep
  <2>2. CASE w[1] = selected /\ w[2] = selected
    <3> HIDE DEF g, E
    <3> QED
      BY <2>2, Zenon DEF NarrowStep
  <2>3. CASE ~(w[1] = selected /\ w[2] = selected)
    <3>1. w \in Windows(selected, n) /\ w[1] \in 1..selected /\ w[2] \in selected..n /\ w[2] - w[1] < k + 1
      BY DEF WindowsBelow, Windows
    <3>0. \A u \in Windows(selected, n) : u[2] - u[1] < k => u \in D
      BY DEF WindowsBelow
    <3>2. w[2] - selected >= selected - w[1] /\ w[2] > selected => <<w[1], w[2] - 1>> \in D
      <4> DEFINE u == <<w[1], w[2] - 1>>
      <4>1. u[2] - u[1] < k
        BY <3>1
      <4>2. w[2] - selected >= selected - w[1] /\ w[2] > selected => u \in Windows(selected, n)
        BY <2>3, <3>1, NarrowerWindow
      <4> HIDE DEF u, D
      <4> QED
        BY <3>0, <4>1, <4>2 DEF u
    <3>3. ~(w[2] - selected >= selected - w[1] /\ w[2] > selected) => <<w[1] + 1, w[2]>> \in D
      <4> DEFINE u == <<w[1] + 1, w[2]>>
      <4>1. u[2] - u[1] < k
        BY <3>1
      <4>2. ~(w[2] - selected >= selected - w[1] /\ w[2] > selected) => u \in Windows(selected, n)
        BY <2>3, <3>1, NarrowerWindow
      <4> HIDE DEF u, D
      <4> QED
        BY <3>0, <4>1, <4>2 DEF u
    <3> HIDE DEF g, D, E
    <3> QED
      BY <1>3, <3>2, <3>3, Zenon DEF NarrowStep
  <2> QED
    BY <2>1, <2>2, <2>3
<1>5. Narrows(g, text, selected, E)
  <2>1. [w \in E |-> NarrowStep(f, text, selected, w)] = [w \in E |-> NarrowStep(g, text, selected, w)]
    <3> HIDE DEF g, E
    <3> QED
      BY <1>4, Zenon
  <2> QED
    BY <2>1, Zenon DEF Narrows
<1> QED
  BY <1>5

\* The loop is a function on every window around the selected line.
LEMMA NarrowExists ==
  ASSUME NEW text, NEW selected \in Nat, NEW n \in Nat, NEW k \in Nat
  PROVE  \E f : Narrows(f, text, selected, WindowsBelow(selected, n, k))
<1> DEFINE T == {j \in Nat : ~ \E f : Narrows(f, text, selected, WindowsBelow(selected, n, j))}
<1> SUFFICES ASSUME T # {} PROVE FALSE
  OBVIOUS
<1>1. PICK m \in T : \A j \in T : m <= j
  <2> HIDE DEF T
  <2>1. T \in SUBSET Nat
    BY DEF T
  <2> QED
    BY <2>1, LeastNatural
<1>2. CASE m = 0
  <2>1. WindowsBelow(selected, n, 0) = {w \in Windows(selected, n) : w[2] - w[1] < 0}
    BY DEF WindowsBelow
  <2>2. WindowsBelow(selected, n, 0) = {}
    BY DEF WindowsBelow, Windows
  <2> DEFINE f == [w \in {} |-> 0]
  <2>3. f = [w \in {} |-> NarrowStep(f, text, selected, w)]
    OBVIOUS
  <2>4. Narrows(f, text, selected, WindowsBelow(selected, n, 0))
    BY <2>2, <2>3, Zenon DEF Narrows
  <2> HIDE DEF f
  <2> QED
    BY <1>1, <1>2, <2>4
<1>3. CASE m # 0
  <2>1. m - 1 \in Nat /\ m - 1 \notin T /\ (m - 1) + 1 = m
    BY <1>1, <1>3
  <2>2. PICK f : Narrows(f, text, selected, WindowsBelow(selected, n, m - 1))
    BY <2>1
  <2>3. \E g : Narrows(g, text, selected, WindowsBelow(selected, n, m))
    BY <2>1, <2>2, NarrowExtends
  <2> QED
    BY <1>1, <2>3
<1> QED
  BY <1>2, <1>3

\* The excerpt is what that function makes of the first window.
LEMMA NarrowedIs ==
  ASSUME NEW text, Len(text.lines) \in Nat, NEW selected \in 1..Len(text.lines)
  PROVE  \E f : /\ Narrows(f, text, selected, Windows(selected, Len(text.lines)))
                /\ Narrowed(text, selected) =
                     f[<<MaxOf(selected - ExcerptRadius, 1),
                         MinOf(selected + ExcerptRadius, Len(text.lines))>>]
<1> DEFINE n == Len(text.lines)
<1>1. \E f : f = [w \in (1..selected) \X (selected..n) |->
        LET s == w[1]
            e == w[2]
        IN  IF Rendered(text, s, e) <= ExcerptBound THEN w
            ELSE IF s = selected /\ e = selected THEN <<0, 0>>
            ELSE IF e - selected >= selected - s /\ e > selected THEN f[<<s, e - 1>>]
            ELSE f[<<s + 1, e>>]]
  <2>1. WindowsBelow(selected, n, n) = Windows(selected, n)
    BY DEF WindowsBelow, Windows
  <2>2. \E f : Narrows(f, text, selected, Windows(selected, n))
    <3>1. selected \in Nat /\ n \in Nat
      OBVIOUS
    <3> HIDE DEF n
    <3> QED
      BY <2>1, <3>1, NarrowExists
  <2> QED
    BY <2>2, Zenon DEF Narrows, NarrowStep, Windows
<1> DEFINE F == CHOOSE f : f = [w \in (1..selected) \X (selected..n) |->
        LET s == w[1]
            e == w[2]
        IN  IF Rendered(text, s, e) <= ExcerptBound THEN w
            ELSE IF s = selected /\ e = selected THEN <<0, 0>>
            ELSE IF e - selected >= selected - s /\ e > selected THEN f[<<s, e - 1>>]
            ELSE f[<<s + 1, e>>]]
<1>2. F = [w \in (1..selected) \X (selected..n) |->
        LET s == w[1]
            e == w[2]
        IN  IF Rendered(text, s, e) <= ExcerptBound THEN w
            ELSE IF s = selected /\ e = selected THEN <<0, 0>>
            ELSE IF e - selected >= selected - s /\ e > selected THEN F[<<s, e - 1>>]
            ELSE F[<<s + 1, e>>]]
  BY <1>1, Zenon
<1>3. Narrowed(text, selected) = F[<<MaxOf(selected - ExcerptRadius, 1), MinOf(selected + ExcerptRadius, n)>>]
  BY Zenon DEF Narrowed
<1> HIDE DEF F
<1>4. Narrows(F, text, selected, Windows(selected, n))
  BY <1>2, Zenon DEF Narrows, NarrowStep, Windows
<1> QED
  BY <1>3, <1>4

\* Whatever window the loop starts from, it ends with none or with one that lies
\* within it around the selected line, and is within the bound.
NarrowSound(r, text, selected, w) ==
  \/ r = <<0, 0>>
  \/ /\ r \in (w[1]..selected) \X (selected..w[2])
     /\ Rendered(text, r[1], r[2]) <= ExcerptBound

\* The narrowing of an excerpt (build_source_excerpt) is sound from every window.
LEMMA NarrowIsSound ==
  ASSUME NEW text, NEW selected \in Nat, NEW n \in Nat, NEW f,
         Narrows(f, text, selected, Windows(selected, n)), NEW w \in Windows(selected, n)
  PROVE  NarrowSound(f[w], text, selected, w)
<1> DEFINE T == {v[2] - v[1] : v \in {u \in Windows(selected, n) : ~NarrowSound(f[u], text, selected, u)}}
<1> SUFFICES ASSUME T # {} PROVE FALSE
  OBVIOUS
<1>1. PICK m \in T : \A j \in T : m <= j
  <2>1. T \in SUBSET Nat
    BY DEF Windows
  <2> HIDE DEF T
  <2> QED
    BY <2>1, LeastNatural
<1>2. PICK v \in Windows(selected, n) : ~NarrowSound(f[v], text, selected, v) /\ m = v[2] - v[1]
  OBVIOUS
<1>3. v = <<v[1], v[2]>> /\ v[1] \in 1..selected /\ v[2] \in selected..n
  BY DEF Windows
<1>4. \A u \in Windows(selected, n) : u[2] - u[1] < m => NarrowSound(f[u], text, selected, u)
  <2>1. \A u \in Windows(selected, n) : u[2] - u[1] \in Int
    BY DEF Windows
  <2>2. m \in Int
    BY <1>2, <2>1
  <2>3. \A u \in Windows(selected, n) : ~NarrowSound(f[u], text, selected, u) => u[2] - u[1] \in T
    OBVIOUS
  <2> HIDE DEF T
  <2> QED
    BY <1>1, <2>1, <2>2, <2>3
<1>5. f[v] = NarrowStep(f, text, selected, v)
  BY Zenon DEF Narrows
<1> HIDE DEF T
<1>6. CASE Rendered(text, v[1], v[2]) <= ExcerptBound
  <2>1. f[v] = v
    BY <1>5, <1>6, Zenon DEF NarrowStep
  <2>2. v \in (v[1]..selected) \X (selected..v[2])
    BY <1>3
  <2> QED
    BY <1>2, <1>6, <2>1, <2>2 DEF NarrowSound
<1>7. CASE ~(Rendered(text, v[1], v[2]) <= ExcerptBound) /\ v[1] = selected /\ v[2] = selected
  <2>1. f[v] = <<0, 0>>
    BY <1>5, <1>7, Zenon DEF NarrowStep
  <2> QED
    BY <1>2, <2>1 DEF NarrowSound
<1>8. ASSUME ~(Rendered(text, v[1], v[2]) <= ExcerptBound), ~(v[1] = selected /\ v[2] = selected)
      PROVE  FALSE
  <2>1. CASE v[2] - selected >= selected - v[1] /\ v[2] > selected
    <3> DEFINE u == <<v[1], v[2] - 1>>
    <3>1. u \in Windows(selected, n)
      BY <1>8, <2>1, NarrowerWindow
    <3>2. f[v] = f[u]
      BY <1>5, <1>8, <2>1, Zenon DEF NarrowStep
    <3>3. u[1] = v[1] /\ u[2] = v[2] - 1 /\ u[2] - u[1] < m
      BY <1>2, <1>3
    <3>4. NarrowSound(f[u], text, selected, u)
      BY <1>4, <3>1, <3>3
    <3>5. (u[1]..selected) \X (selected..u[2]) \subseteq (v[1]..selected) \X (selected..v[2])
      BY <1>3, <3>3
    <3> HIDE DEF u
    <3> QED
      BY <1>2, <3>2, <3>4, <3>5 DEF NarrowSound
  <2>2. CASE ~(v[2] - selected >= selected - v[1] /\ v[2] > selected)
    <3> DEFINE u == <<v[1] + 1, v[2]>>
    <3>1. u \in Windows(selected, n)
      BY <1>8, <2>2, NarrowerWindow
    <3>2. f[v] = f[u]
      BY <1>5, <1>8, <2>2, Zenon DEF NarrowStep
    <3>3. u[1] = v[1] + 1 /\ u[2] = v[2] /\ u[2] - u[1] < m
      BY <1>2, <1>3
    <3>4. NarrowSound(f[u], text, selected, u)
      BY <1>4, <3>1, <3>3
    <3>5. (u[1]..selected) \X (selected..u[2]) \subseteq (v[1]..selected) \X (selected..v[2])
      BY <1>3, <3>3
    <3> HIDE DEF u
    <3> QED
      BY <1>2, <3>2, <3>4, <3>5 DEF NarrowSound
  <2> QED
    BY <2>1, <2>2
<1> QED
  BY <1>6, <1>7, <1>8

\* What build_source_excerpt returns for a selected line, if anything.
LEMMA ExcerptIsSound ==
  ASSUME NEW text, Len(text.lines) \in Nat, NEW selected, NEW window,
         window = build_source_excerpt(text, selected), window # <<0, 0>>
  PROVE  /\ selected \in 1..Len(text.lines)
         /\ window \in (1..selected) \X (selected..Len(text.lines))
         /\ Rendered(text, window[1], window[2]) <= ExcerptBound
<1> DEFINE n == Len(text.lines)
           w == <<MaxOf(selected - ExcerptRadius, 1), MinOf(selected + ExcerptRadius, n)>>
<1>1. selected \in 1..n /\ window = Narrowed(text, selected)
  BY DEF build_source_excerpt
<1>2. w \in Windows(selected, n) /\ w[1] \in 1..selected /\ w[2] \in selected..n
  BY <1>1, EditConstants DEF Windows, MaxOf, MinOf
<1>3. PICK f : Narrows(f, text, selected, Windows(selected, n)) /\ window = f[w]
  BY <1>1, NarrowedIs
<1>4. NarrowSound(window, text, selected, w)
  <2>1. selected \in Nat /\ n \in Nat
    BY <1>1
  <2> HIDE DEF w, n
  <2> QED
    BY <1>2, <1>3, <2>1, NarrowIsSound
<1>5. window \in (w[1]..selected) \X (selected..w[2]) /\ Rendered(text, window[1], window[2]) <= ExcerptBound
  BY <1>4 DEF NarrowSound
<1>6. (w[1]..selected) \X (selected..w[2]) \subseteq (1..selected) \X (selected..n)
  BY <1>1, <1>2
<1> QED
  <2> HIDE DEF w
  <2> QED
    BY <1>1, <1>5, <1>6

\* The last elements of a sequence.
LEMMA LastElements ==
  ASSUME NEW S, NEW s \in Seq(S), NEW d \in Nat, d <= Len(s)
  PROVE  /\ SubSeq(s, Len(s) - d + 1, Len(s)) \in Seq(S)
         /\ Len(SubSeq(s, Len(s) - d + 1, Len(s))) = d
         /\ \A i \in 1..d : SubSeq(s, Len(s) - d + 1, Len(s))[i] = s[Len(s) - d + i]
<1>1. PICK n \in Nat : n = Len(s)
  OBVIOUS
<1>2. PICK m \in Nat \ {0} : m = n - d + 1
  BY <1>1
<1>3. SubSeq(s, m, n) \in Seq(S) /\ Len(SubSeq(s, m, n)) = d /\ \A i \in 1..d : SubSeq(s, m, n)[i] = s[m + i - 1]
  BY <1>1, <1>2
<1>4. \A i \in 1..d : m + i - 1 = n - d + i
  BY <1>2
<1> QED
  BY <1>1, <1>2, <1>3, <1>4

\* Three sequences in a row.
LEMMA ThreeInARow ==
  ASSUME NEW S, NEW x \in Seq(S), NEW y \in Seq(S), NEW w \in Seq(S)
  PROVE  /\ x \o y \o w \in Seq(S) /\ Len(x \o y \o w) = Len(x) + Len(y) + Len(w)
         /\ \A i \in 1..Len(x) : (x \o y \o w)[i] = x[i]
         /\ \A i \in 1..Len(w) : (x \o y \o w)[Len(x) + Len(y) + i] = w[i]
<1>1. PICK front \in Seq(S) : front = x \o y
  <2>1. x \o y \in Seq(S)
    OBVIOUS
  <2> QED
    BY <2>1, Zenon
<1>2. Len(front) = Len(x) + Len(y) /\ \A i \in 1..Len(x) : front[i] = x[i]
  BY <1>1
<1>3. /\ front \o w \in Seq(S) /\ Len(front \o w) = Len(front) + Len(w)
      /\ \A i \in 1..Len(front) : (front \o w)[i] = front[i]
      /\ \A i \in 1..Len(w) : (front \o w)[Len(front) + i] = w[i]
  OBVIOUS
<1>4. Len(x) \in Nat /\ Len(y) \in Nat /\ Len(w) \in Nat
  OBVIOUS
<1>5. \A i \in 1..Len(x) : i \in 1..Len(front)
  BY <1>2, <1>4
<1> QED
  BY <1>1, <1>2, <1>3, <1>4, <1>5

\* Two sequences have the same last elements.
SameTail(t, s, below) ==
  SubSeq(t, Len(t) - below + 1, Len(t)) = SubSeq(s, Len(s) - below + 1, Len(s))

\* A sequence is how another one starts, or ends.
StartsAs(x, s) == Len(x) <= Len(s) /\ \A i \in 1..Len(x) : s[i] = x[i]
EndsAs(w, s) == Len(w) <= Len(s) /\ \A i \in 1..Len(w) : s[Len(s) - Len(w) + i] = w[i]

\* Two sequences that start alike have the same first elements.
LEMMA SameStart ==
  ASSUME NEW S, NEW s \in Seq(S), NEW t \in Seq(S), NEW x \in Seq(S), StartsAs(x, s), StartsAs(x, t),
         NEW above \in Nat, above <= Len(x)
  PROVE  SubSeq(t, 1, above) = SubSeq(s, 1, above)
<1>1. above <= Len(s) /\ above <= Len(t)
  BY DEF StartsAs
<1>2. \A i \in 1..above : t[i] = x[i] /\ s[i] = x[i]
  BY DEF StartsAs
<1>3. PICK l \in Seq(S) : l = SubSeq(t, 1, above) /\ Len(l) = above /\ \A i \in 1..above : l[i] = t[i]
  <2>1. /\ SubSeq(t, 1, above) \in Seq(S) /\ Len(SubSeq(t, 1, above)) = above
        /\ \A i \in 1..above : SubSeq(t, 1, above)[i] = t[i]
    BY <1>1
  <2> QED
    BY <2>1, Zenon
<1>4. PICK r \in Seq(S) : r = SubSeq(s, 1, above) /\ Len(r) = above /\ \A i \in 1..above : r[i] = s[i]
  <2>1. /\ SubSeq(s, 1, above) \in Seq(S) /\ Len(SubSeq(s, 1, above)) = above
        /\ \A i \in 1..above : SubSeq(s, 1, above)[i] = s[i]
    BY <1>1
  <2> QED
    BY <2>1, Zenon
<1>5. l = r
  BY <1>2, <1>3, <1>4
<1> QED
  BY <1>3, <1>4, <1>5

\* What ends a sequence ends with what ends the sequence.
LEMMA ShorterEnd ==
  ASSUME NEW S, NEW s \in Seq(S), NEW w \in Seq(S), EndsAs(w, s), NEW below \in Nat, below <= Len(w)
  PROVE  /\ below <= Len(s)
         /\ \A i \in 1..below : s[Len(s) - below + i] = w[Len(w) - below + i]
<1>1. PICK n \in Nat, z \in Nat : n = Len(s) /\ z = Len(w)
  OBVIOUS
<1>2. z <= n /\ \A i \in 1..z : s[n - z + i] = w[i]
  BY <1>1 DEF EndsAs
<1>3. ASSUME NEW i \in 1..below PROVE s[n - below + i] = w[z - below + i]
  <2>1. PICK j \in 1..z : j = z - below + i
    <3>1. below <= z
      BY <1>1
    <3>2. z - below + i \in 1..z
      BY <3>1
    <3> QED
      BY <3>2, Zenon
  <2>2. n - z + j = n - below + i
    BY <2>1
  <2> QED
    BY <1>2, <2>1, <2>2
<1> QED
  BY <1>1, <1>2, <1>3

\* Two sequences that end alike have the same last elements.
LEMMA SameEnd ==
  ASSUME NEW S, NEW s \in Seq(S), NEW t \in Seq(S), NEW w \in Seq(S), EndsAs(w, s), EndsAs(w, t),
         NEW below \in Nat, below <= Len(w)
  PROVE  SameTail(t, s, below)
<1>1. below <= Len(s) /\ \A i \in 1..below : s[Len(s) - below + i] = w[Len(w) - below + i]
  BY ShorterEnd
<1>2. below <= Len(t) /\ \A i \in 1..below : t[Len(t) - below + i] = w[Len(w) - below + i]
  BY ShorterEnd
<1>3. PICK x \in Seq(S) : /\ x = SubSeq(t, Len(t) - below + 1, Len(t)) /\ Len(x) = below
                          /\ \A i \in 1..below : x[i] = t[Len(t) - below + i]
  <2>1. /\ SubSeq(t, Len(t) - below + 1, Len(t)) \in Seq(S)
        /\ Len(SubSeq(t, Len(t) - below + 1, Len(t))) = below
        /\ \A i \in 1..below : SubSeq(t, Len(t) - below + 1, Len(t))[i] = t[Len(t) - below + i]
    BY <1>2, LastElements, Zenon
  <2> QED
    BY <2>1, Zenon
<1>4. PICK y \in Seq(S) : /\ y = SubSeq(s, Len(s) - below + 1, Len(s)) /\ Len(y) = below
                          /\ \A i \in 1..below : y[i] = s[Len(s) - below + i]
  <2>1. /\ SubSeq(s, Len(s) - below + 1, Len(s)) \in Seq(S)
        /\ Len(SubSeq(s, Len(s) - below + 1, Len(s))) = below
        /\ \A i \in 1..below : SubSeq(s, Len(s) - below + 1, Len(s))[i] = s[Len(s) - below + i]
    BY <1>1, LastElements, Zenon
  <2> QED
    BY <2>1, Zenon
<1>5. \A i \in 1..below : x[i] = y[i]
  BY <1>1, <1>2, <1>3, <1>4
<1>6. Len(x) = below /\ Len(y) = below
  BY <1>3, <1>4
<1>7. x = y
  BY <1>5, <1>6
<1> QED
  BY <1>3, <1>4, <1>7 DEF SameTail

\* Three sequences in a row, and what remains of a sequence when positions first ..
\* last make way for others.
Row(t, x, y, w) == t = x \o y \o w
Spliced(t, s, first, middle, last) ==
  t = SubSeq(s, 1, first - 1) \o middle \o SubSeq(s, last + 1, Len(s))

\* Three sequences in a row start as the first one and end as the last.
LEMMA RowEnds ==
  ASSUME NEW S, NEW x \in Seq(S), NEW y \in Seq(S), NEW w \in Seq(S), NEW t, Row(t, x, y, w)
  PROVE  /\ t \in Seq(S) /\ StartsAs(x, t) /\ EndsAs(w, t)
         /\ Len(t) >= Len(x) + Len(w)
<1>1. /\ t \in Seq(S) /\ Len(t) = Len(x) + Len(y) + Len(w)
      /\ \A i \in 1..Len(x) : t[i] = x[i]
      /\ \A i \in 1..Len(w) : t[Len(x) + Len(y) + i] = w[i]
  BY ThreeInARow DEF Row
<1>2. PICK p \in Nat, q \in Nat, z \in Nat : p = Len(x) /\ q = Len(y) /\ z = Len(w)
  OBVIOUS
<1>3. StartsAs(x, t)
  BY <1>1, <1>2 DEF StartsAs
<1>4. Len(t) - Len(w) = p + q /\ Len(w) <= Len(t)
  BY <1>1, <1>2
<1>5. EndsAs(w, t)
  BY <1>1, <1>2, <1>4 DEF EndsAs
<1> QED
  BY <1>1, <1>2, <1>3, <1>5

\* A prefix of a sequence.
LEMMA FirstElements ==
  ASSUME NEW S, NEW s \in Seq(S), NEW p \in Nat, p <= Len(s)
  PROVE  \E x \in Seq(S) : x = SubSeq(s, 1, p) /\ Len(x) = p /\ StartsAs(x, s)
<1>1. /\ SubSeq(s, 1, p) \in Seq(S) /\ Len(SubSeq(s, 1, p)) = p
      /\ \A i \in 1..p : SubSeq(s, 1, p)[i] = s[i]
  OBVIOUS
<1>2. PICK x \in Seq(S) : x = SubSeq(s, 1, p) /\ Len(x) = p /\ \A i \in 1..p : x[i] = s[i]
  BY <1>1, Zenon
<1>3. StartsAs(x, s)
  BY <1>2 DEF StartsAs
<1> QED
  BY <1>2, <1>3

\* A suffix of a sequence.
LEMMA SuffixEnds ==
  ASSUME NEW S, NEW s \in Seq(S), NEW z \in Nat, z <= Len(s)
  PROVE  \E w \in Seq(S) : w = SubSeq(s, Len(s) - z + 1, Len(s)) /\ Len(w) = z /\ EndsAs(w, s)
<1>1. PICK w \in Seq(S) : /\ w = SubSeq(s, Len(s) - z + 1, Len(s)) /\ Len(w) = z
                          /\ \A i \in 1..z : w[i] = s[Len(s) - z + i]
  <2>1. /\ SubSeq(s, Len(s) - z + 1, Len(s)) \in Seq(S)
        /\ Len(SubSeq(s, Len(s) - z + 1, Len(s))) = z
        /\ \A i \in 1..z : SubSeq(s, Len(s) - z + 1, Len(s))[i] = s[Len(s) - z + i]
    BY LastElements, Zenon
  <2> QED
    BY <2>1, Zenon
<1>2. EndsAs(w, s)
  BY <1>1 DEF EndsAs
<1> QED
  BY <1>1, <1>2

\* A sequence keeps the parts of another one before first and after last.
Parts(S, lines, s, first, last) ==
  \E x \in Seq(S), w \in Seq(S) :
    /\ lines \in Seq(S) /\ Len(lines) >= Len(x) + Len(w)
    /\ StartsAs(x, s) /\ StartsAs(x, lines) /\ Len(x) = first - 1
    /\ EndsAs(w, s) /\ EndsAs(w, lines) /\ Len(w) = Len(s) - last
    /\ w = SubSeq(s, last + 1, Len(s))

\* What stays when positions first .. last of a sequence make way for others.
LEMMA SpliceParts ==
  ASSUME NEW S, NEW s \in Seq(S), NEW middle \in Seq(S),
         NEW first \in Nat, NEW last \in Nat, 1 <= first, first <= last, last <= Len(s),
         NEW lines, Spliced(lines, s, first, middle, last)
  PROVE  Parts(S, lines, s, first, last)
<1>1. PICK p \in Nat, z \in Nat :
        p = first - 1 /\ z = Len(s) - last /\ p <= Len(s) /\ z <= Len(s) /\ Len(s) - z + 1 = last + 1
  <2>1. first - 1 \in Nat /\ Len(s) - last \in Nat
    OBVIOUS
  <2>2. /\ first - 1 <= Len(s) /\ Len(s) - last <= Len(s)
        /\ Len(s) - (Len(s) - last) + 1 = last + 1
    OBVIOUS
  <2> QED
    BY <2>1, <2>2, Zenon
<1>2. PICK x \in Seq(S) : x = SubSeq(s, 1, p) /\ Len(x) = p /\ StartsAs(x, s)
  BY <1>1, FirstElements, Zenon
<1>3. PICK w \in Seq(S) : w = SubSeq(s, Len(s) - z + 1, Len(s)) /\ Len(w) = z /\ EndsAs(w, s)
  BY <1>1, SuffixEnds, Zenon
<1>4. Row(lines, x, middle, w)
  BY <1>1, <1>2, <1>3, Zenon DEF Row, Spliced
<1>5. lines \in Seq(S) /\ StartsAs(x, lines) /\ EndsAs(w, lines) /\ Len(lines) >= Len(x) + Len(w)
  BY <1>4, RowEnds
<1>6. Len(x) = first - 1 /\ Len(w) = Len(s) - last /\ w = SubSeq(s, last + 1, Len(s))
  BY <1>1, <1>2, <1>3
<1> QED
  BY <1>2, <1>3, <1>5, <1>6 DEF Parts

\* What is far enough from the positions that made way is where it was.
Rest(lines, s, last, above, below) ==
  /\ SubSeq(lines, 1, above) = SubSeq(s, 1, above)
  /\ Len(lines) >= above + below
  /\ SameTail(lines, s, below)
  /\ below > 0 => SubSeq(s, last + 1, Len(s)) # <<>>

\* Positions first .. last of a sequence make way for others: what is far enough from
\* them stays.
LEMMA SpliceKeepsTheRest ==
  ASSUME NEW S, NEW s \in Seq(S), NEW middle \in Seq(S),
         NEW first \in Nat, NEW last \in Nat, 1 <= first, first <= last, last <= Len(s),
         NEW above \in Nat, above < first, NEW below \in Nat, below <= Len(s) - last,
         NEW lines, Spliced(lines, s, first, middle, last)
  PROVE  Rest(lines, s, last, above, below)
<1>1. PICK x \in Seq(S), w \in Seq(S) :
           /\ lines \in Seq(S) /\ Len(lines) >= Len(x) + Len(w)
           /\ StartsAs(x, s) /\ StartsAs(x, lines) /\ Len(x) = first - 1
           /\ EndsAs(w, s) /\ EndsAs(w, lines) /\ Len(w) = Len(s) - last
           /\ w = SubSeq(s, last + 1, Len(s))
  BY SpliceParts DEF Parts
<1>2. above <= Len(x) /\ below <= Len(w)
  BY <1>1
<1>3. SubSeq(lines, 1, above) = SubSeq(s, 1, above)
  <2>1. lines \in Seq(S) /\ StartsAs(x, s) /\ StartsAs(x, lines)
    BY <1>1
  <2> QED
    BY <2>1, <1>2, SameStart, Zenon
<1>4. SameTail(lines, s, below)
  <2>1. lines \in Seq(S) /\ EndsAs(w, s) /\ EndsAs(w, lines)
    BY <1>1
  <2> QED
    BY <2>1, <1>2, SameEnd
<1>5. Len(lines) >= above + below
  BY <1>1, <1>2
<1>6. below > 0 => w # <<>>
  <2> SUFFICES ASSUME below > 0, w = <<>> PROVE FALSE
    OBVIOUS
  <2>1. Len(w) = 0
    OBVIOUS
  <2> QED
    BY <1>2, <2>1
<1>7. below > 0 => SubSeq(s, last + 1, Len(s)) # <<>>
  BY <1>1, <1>6
<1> QED
  BY <1>3, <1>4, <1>5, <1>7 DEF Rest

\* What is above and below a window is where it was.
Kept(text, post, n, above, below) ==
  /\ SubSeq(post.lines, 1, above) = SubSeq(text.lines, 1, above)
  /\ Len(post.lines) >= above + below
  /\ SubSeq(post.lines, Len(post.lines) - below + 1, Len(post.lines))
       = SubSeq(text.lines, n - below + 1, n)
  /\ below > 0 => post.ends = text.ends

\* An edit within a window leaves what is above and below the window where it was.
LEMMA EditKeepsTheRest ==
  ASSUME NEW S, NEW text, text.lines \in Seq(S), NEW edit, edit.replacement.lines \in Seq(S),
         NEW n \in Nat, n = Len(text.lines), NEW a \in Nat, NEW b \in Nat, a >= 1, b <= n,
         edit.first \in a..b, edit.last \in edit.first..b,
         NEW above \in Nat, above = a - 1, NEW below \in Nat, below = n - b,
         NEW post, post = build_fix_postimage(text, edit)
  PROVE  Kept(text, post, n, above, below)
<1>1. PICK first \in Nat, last \in Nat :
        /\ first = edit.first /\ last = edit.last
        /\ 1 <= first /\ first <= last /\ last <= n /\ above < first /\ below <= n - last
  OBVIOUS
<1>2. PICK s \in Seq(S), middle \in Seq(S) : s = text.lines /\ middle = edit.replacement.lines
  OBVIOUS
<1>3. PICK suffix : suffix = SubSeq(s, last + 1, Len(s))
  OBVIOUS
<1>4. Spliced(post.lines, s, first, middle, last) /\ (suffix # <<>> => post.ends = text.ends)
  BY <1>1, <1>2, <1>3 DEF build_fix_postimage, Text, Spliced
<1>5. last <= Len(s) /\ below <= Len(s) - last /\ n = Len(s)
  BY <1>1, <1>2
<1>6. Rest(post.lines, s, last, above, below)
  <2>1. /\ 1 <= first /\ first <= last /\ last <= Len(s) /\ above < first /\ below <= Len(s) - last
        /\ Spliced(post.lines, s, first, middle, last)
    BY <1>1, <1>4, <1>5
  <2> QED
    BY <2>1, SpliceKeepsTheRest
<1> QED
  BY <1>2, <1>3, <1>4, <1>5, <1>6 DEF Rest, SameTail, Kept

\* An edit under way is one that was accepted.
EditInv ==
  \A k \in eCase :
    /\ k.text.lines \in Seq(LineNames) /\ k.edit.replacement.lines \in Seq({"new"})
    /\ k.window = build_source_excerpt(k.text, k.selected) /\ k.window # <<0, 0>>
    /\ k.edit.first \in Nat /\ k.edit.last \in Nat
    /\ validate_provider_edit(k.edit, k.window)

\* Every edit applied was accepted for the excerpt it was made for.
LEMMA EditsInvariant == EditSpec => []EditInv
<1>1. EditInit => EditInv
  BY DEF EditInit, EditInv
<1>2. EditInv /\ [EditNext]_editVars => EditInv'
  <2> SUFFICES ASSUME EditInv, [EditNext]_editVars PROVE EditInv'
    OBVIOUS
  <2>1. CASE propose_edit
    <3>1. PICK t \in Texts, selected \in 1..MaxLines, r \in Replacements, first \in 1..MaxLines, last \in 1..MaxLines :
            LET window == build_source_excerpt(t, selected)
                edit   == [first |-> first, last |-> last, replacement |-> r]
            IN  /\ window # <<0, 0>> /\ last <= Len(t.lines) /\ validate_provider_edit(edit, window)
                /\ eCase' = {[text |-> t, selected |-> selected, window |-> window, edit |-> edit]}
      BY <2>1 DEF propose_edit
    <3>2. t.lines \in Seq(LineNames)
      BY EditConstants DEF Texts, Text
    <3>3. r.lines \in Seq({"new"})
      <4>1. <<"new">> \in Seq({"new"}) /\ <<"new", "new">> \in Seq({"new"}) /\ <<>> \in Seq({"new"})
        OBVIOUS
      <4>2. r.lines \in {<<>>, <<"new">>, <<"new", "new">>}
        BY DEF Replacements, Text
      <4> QED
        BY <4>1, <4>2
    <3> DEFINE window == build_source_excerpt(t, selected)
               edit == [first |-> first, last |-> last, replacement |-> r]
               k == [text |-> t, selected |-> selected, window |-> window, edit |-> edit]
    <3>4. /\ k.text.lines \in Seq(LineNames) /\ k.edit.replacement.lines \in Seq({"new"})
          /\ k.window = build_source_excerpt(k.text, k.selected) /\ k.window # <<0, 0>>
          /\ k.edit.first \in Nat /\ k.edit.last \in Nat
          /\ validate_provider_edit(k.edit, k.window) /\ eCase' = {k}
      <4> HIDE DEF window
      <4> QED
        BY <3>1, <3>2, <3>3, EditConstants DEF window
    <3> HIDE DEF k, window, edit
    <3> QED
      BY <3>4 DEF EditInv
  <2>2. CASE UNCHANGED editVars
    BY <2>2 DEF EditInv, editVars
  <2> QED
    BY <2>1, <2>2 DEF EditNext
<1> QED
  BY <1>1, <1>2, PTL DEF EditSpec

\* For files and excerpts of every size: the excerpt is within its bound and around
\* the selected line, and an edit that is accepted changes nothing outside of it
\* (build_source_excerpt, validate_provider_edit and build_fix_postimage).
THEOREM EditsStayInside == EditSpec => []EditStaysInsideTheExcerpt
<1>1. EditInv => EditStaysInsideTheExcerpt
  <2> SUFFICES ASSUME EditInv, NEW k \in eCase,
                      NEW post, post = build_fix_postimage(k.text, k.edit)
               PROVE  LET above == k.window[1] - 1
                          below == Len(k.text.lines) - k.window[2]
                      IN  /\ k.window[1] <= k.selected /\ k.selected <= k.window[2]
                          /\ Rendered(k.text, k.window[1], k.window[2]) <= ExcerptBound
                          /\ SubSeq(post.lines, 1, above) = SubSeq(k.text.lines, 1, above)
                          /\ Len(post.lines) >= above + below
                          /\ SubSeq(post.lines, Len(post.lines) - below + 1, Len(post.lines))
                               = SubSeq(k.text.lines, k.window[2] + 1, Len(k.text.lines))
                          /\ below > 0 => post.ends = k.text.ends
    BY DEF EditStaysInsideTheExcerpt
  <2> DEFINE S == LineNames \cup {"new"}
             a == k.window[1]
             b == k.window[2]
  <2>1. /\ k.text.lines \in Seq(LineNames) /\ k.edit.replacement.lines \in Seq({"new"})
        /\ k.window = build_source_excerpt(k.text, k.selected) /\ k.window # <<0, 0>>
        /\ k.edit.first \in Nat /\ k.edit.last \in Nat
        /\ validate_provider_edit(k.edit, k.window)
    BY DEF EditInv
  <2>2. k.text.lines \in Seq(S) /\ k.edit.replacement.lines \in Seq(S) /\ Len(k.text.lines) \in Nat
    BY <2>1
  <2>3. /\ k.selected \in 1..Len(k.text.lines) /\ k.window \in (1..k.selected) \X (k.selected..Len(k.text.lines))
        /\ Rendered(k.text, a, b) <= ExcerptBound
    BY <2>1, <2>2, ExcerptIsSound
  <2>4. a \in 1..k.selected /\ b \in k.selected..Len(k.text.lines)
    BY <2>3
  <2>5. a \in Nat /\ b \in Nat /\ a >= 1 /\ b <= Len(k.text.lines) /\ a <= k.selected /\ k.selected <= b
    BY <2>2, <2>3, <2>4
  <2>6. k.edit.first \in a..b /\ k.edit.last \in k.edit.first..b
    BY <2>1, <2>5 DEF validate_provider_edit
  <2>7. PICK n \in Nat, above \in Nat, below \in Nat :
          n = Len(k.text.lines) /\ above = a - 1 /\ below = n - b
    BY <2>2, <2>5
  <2> HIDE DEF S, a, b
  <2>8. Kept(k.text, post, n, above, below)
    <3>1. b <= n
      BY <2>5, <2>7
    <3> QED
      BY <2>2, <2>5, <2>6, <2>7, <3>1, EditKeepsTheRest
  <2>9. n - below + 1 = b + 1
    BY <2>5, <2>7
  <2> QED
    BY <2>3, <2>5, <2>7, <2>8, <2>9 DEF a, b, Kept
<1> QED
  BY <1>1, EditsInvariant, PTL

-----------------------------------------------------------------------------
(* From a bounded observation to the verdict on a contract: interfaces,     *)
(* budgets and contracts of every size.                                     *)

\* Elements chosen in document order, each by those chosen before it.
Chosen(v, R, n) == v = [e \in 1..n |-> <<e, {f \in 1..(e - 1) : v[f]}>> \in R]

\* One more element to choose.
LEMMA ChosenExtends ==
  ASSUME NEW R, NEW n \in Nat \ {0}, NEW u, Chosen(u, R, n - 1)
  PROVE  \E v : Chosen(v, R, n)
<1> DEFINE v == [e \in 1..n |-> IF e < n THEN u[e] ELSE <<n, {f \in 1..(n - 1) : u[f]}>> \in R]
<1>1. \A e \in 1..(n - 1) : u[e] = (<<e, {f \in 1..(e - 1) : u[f]}>> \in R)
  BY Zenon DEF Chosen
<1>2. ASSUME NEW e \in 1..n PROVE {f \in 1..(e - 1) : v[f]} = {f \in 1..(e - 1) : u[f]}
  <2>1. \A f \in 1..(e - 1) : f \in 1..n /\ f < n
    OBVIOUS
  <2>2. \A f \in 1..(e - 1) : v[f] = u[f]
    BY <2>1
  <2> HIDE DEF v
  <2> QED
    BY <2>2
<1>3. ASSUME NEW e \in 1..n PROVE v[e] = (<<e, {f \in 1..(e - 1) : v[f]}>> \in R)
  <2>1. CASE e < n
    <3>1. e \in 1..(n - 1)
      BY <2>1
    <3>2. v[e] = u[e]
      BY <2>1
    <3> HIDE DEF v
    <3> QED
      BY <1>1, <1>2, <3>1, <3>2
  <2>2. CASE ~(e < n)
    <3>1. e = n
      BY <2>2
    <3>2. v[e] = (<<n, {f \in 1..(n - 1) : u[f]}>> \in R)
      BY <2>2
    <3> HIDE DEF v
    <3> QED
      BY <1>2, <3>1, <3>2
  <2> QED
    BY <2>1, <2>2
<1>4. v = [e \in 1..n |-> v[e]]
  OBVIOUS
<1>5. Chosen(v, R, n)
  <2> HIDE DEF v
  <2> QED
    BY <1>3, <1>4, Zenon DEF Chosen
<1> QED
  BY <1>5, Zenon

\* What is chosen is a truth value.
LEMMA ChosenBoolean ==
  ASSUME NEW v, NEW R, NEW n \in Nat, Chosen(v, R, n), NEW e \in 1..n, NEW f \in 1..(e - 1)
  PROVE  v[f] \in BOOLEAN
<1>1. f \in 1..n
  OBVIOUS
<1>2. v[f] = (<<f, {g \in 1..(f - 1) : v[g]}>> \in R)
  BY <1>1, Zenon DEF Chosen
<1> QED
  BY <1>2

\* The choice is a function on every number of elements.
LEMMA ChosenExists ==
  ASSUME NEW R, NEW n \in Nat
  PROVE  \E v : Chosen(v, R, n)
<1> DEFINE T == {j \in Nat : ~ \E v : Chosen(v, R, j)}
<1> SUFFICES ASSUME T # {} PROVE FALSE
  OBVIOUS
<1>1. PICK m \in T : \A j \in T : m <= j
  <2> HIDE DEF T
  <2>1. T \in SUBSET Nat
    BY DEF T
  <2> QED
    BY <2>1, LeastNatural
<1>2. CASE m = 0
  <2> DEFINE v == [e \in {} |-> TRUE]
  <2>1. 1..0 = {}
    OBVIOUS
  <2>2. Chosen(v, R, 0)
    BY <2>1, Zenon DEF Chosen
  <2> HIDE DEF v
  <2> QED
    BY <1>1, <1>2, <2>2
<1>3. CASE m # 0
  <2>1. m \in Nat \ {0} /\ m - 1 \in Nat /\ m - 1 \notin T
    BY <1>1, <1>3
  <2>2. PICK u : Chosen(u, R, m - 1)
    BY <2>1
  <2>3. \E v : Chosen(v, R, m)
    BY <2>1, <2>2, ChosenExtends
  <2> QED
    BY <1>1, <2>3
<1> QED
  BY <1>2, <1>3

\* What a tree is to these proofs.
LEMMA TreeElements ==
  ASSUME NEW t, TreeOK(t)
  PROVE  /\ Len(t.parent) \in Nat \ {0} /\ Elements(t) = 1..Len(t.parent)
         /\ t.parent[1] = 0
         /\ \A e \in 1..Len(t.parent) : /\ t.parent[e] \in Nat /\ t.parent[e] < e
                                        /\ e > 1 => t.parent[e] \in 1..(e - 1)
<1>1. /\ t.parent \in Seq(Nat) /\ t.parent # <<>> /\ t.parent[1] = 0
      /\ \A i \in DOMAIN t.parent : t.parent[i] < i /\ (i > 1 => t.parent[i] > 0)
  BY DEF TreeOK
<1>2. Len(t.parent) \in Nat \ {0} /\ DOMAIN t.parent = 1..Len(t.parent)
  BY <1>1
<1>3. \A e \in 1..Len(t.parent) : t.parent[e] \in Nat
  BY <1>1, <1>2
<1> QED
  BY <1>1, <1>2, <1>3 DEF Elements

\* The functions that Whole and semanticTree define.
Shows(v, t, provider) ==
  v = [e \in 1..Len(t.parent) |->
        (provider = "web" => e \notin t.marked) /\ (e > 1 => v[t.parent[e]])]

VisitOf(v, e, parent, marked, depth, before) ==
  /\ e \notin marked
  /\ e > 1 => v[parent]
  /\ depth <= DepthBudget
  /\ Cardinality(before) < NodeBudget

Visits(v, t) ==
  v = [e \in 1..Len(t.parent) |->
         VisitOf(v, e, t.parent[e], t.marked, Depth(t)[e], {f \in 1..(e - 1) : v[f]})]

\* There is such a choice (TLC evaluates it from the first element on).
LEMMA ShowsExists ==
  ASSUME NEW t, TreeOK(t), NEW provider
  PROVE  \E v : Shows(v, t, provider)
<1> DEFINE n == Len(t.parent)
           R == {x \in (1..n) \X (SUBSET (1..n)) :
                   (provider = "web" => x[1] \notin t.marked) /\ (x[1] > 1 => t.parent[x[1]] \in x[2])}
<1>1. n \in Nat /\ \A e \in 1..n : e > 1 => t.parent[e] \in 1..(e - 1)
  BY TreeElements
<1>2. PICK v : Chosen(v, R, n)
  <2> HIDE DEF R, n
  <2> QED
    BY <1>1, ChosenExists
<1>3. ASSUME NEW e \in 1..n
      PROVE  (<<e, {f \in 1..(e - 1) : v[f]}>> \in R)
               = ((provider = "web" => e \notin t.marked) /\ (e > 1 => v[t.parent[e]]))
  <2> DEFINE V == {f \in 1..(e - 1) : v[f]}
  <2>1. V \in SUBSET (1..n)
    BY <1>1
  <2>2. \A f \in 1..(e - 1) : v[f] \in BOOLEAN
    BY <1>1, <1>2, ChosenBoolean
  <2>3. e > 1 => (t.parent[e] \in V) = v[t.parent[e]]
    BY <1>1, <2>2
  <2> HIDE DEF V
  <2>4. <<e, V>> \in R <=> /\ provider = "web" => e \notin t.marked
                           /\ e > 1 => t.parent[e] \in V
    BY <2>1, Zenon
  <2> HIDE DEF R, n
  <2>5. <<e, V>> \in R <=> (provider = "web" => e \notin t.marked) /\ (e > 1 => v[t.parent[e]])
    BY <2>3, <2>4
  <2> QED
    BY <2>5 DEF V
<1> HIDE DEF R
<1>4. Shows(v, t, provider)
  BY <1>2, <1>3, Zenon DEF Chosen, Shows
<1> QED
  BY <1>4

\* A truth value and the condition it is equivalent to.
LEMMA VisitIsOne ==
  ASSUME NEW v, NEW e \in Nat, NEW p, NEW m, NEW d, NEW V, NEW R, e > 1 => v[p] \in BOOLEAN,
         <<e, V>> \in R <=> VisitOf(v, e, p, m, d, V)
  PROVE  (<<e, V>> \in R) = VisitOf(v, e, p, m, d, V)
<1>1. NodeBudget \in Nat /\ DepthBudget \in Nat
  BY PostconditionAssumption
<1>2. (<<e, V>> \in R) \in BOOLEAN
  OBVIOUS
<1> QED
  BY <1>1, <1>2 DEF VisitOf

\* There is such a visit.
LEMMA VisitsExists ==
  ASSUME NEW t, TreeOK(t)
  PROVE  \E v : Visits(v, t)
<1> DEFINE n == Len(t.parent)
           R == {x \in (1..n) \X (SUBSET (1..n)) :
                   /\ x[1] \notin t.marked
                   /\ x[1] > 1 => t.parent[x[1]] \in x[2]
                   /\ Depth(t)[x[1]] <= DepthBudget
                   /\ Cardinality(x[2]) < NodeBudget}
<1>1. n \in Nat /\ \A e \in 1..n : e > 1 => t.parent[e] \in 1..(e - 1)
  BY TreeElements
<1>2. PICK v : Chosen(v, R, n)
  <2> HIDE DEF R, n
  <2> QED
    BY <1>1, ChosenExists
<1>3. ASSUME NEW e \in 1..n
      PROVE  (<<e, {f \in 1..(e - 1) : v[f]}>> \in R)
               = VisitOf(v, e, t.parent[e], t.marked, Depth(t)[e], {f \in 1..(e - 1) : v[f]})
  <2> DEFINE V == {f \in 1..(e - 1) : v[f]}
  <2>1. V \in SUBSET (1..n)
    BY <1>1
  <2>2. \A f \in 1..(e - 1) : v[f] \in BOOLEAN
    BY <1>1, <1>2, ChosenBoolean
  <2>3. e > 1 => (t.parent[e] \in V) = v[t.parent[e]]
    BY <1>1, <2>2
  <2>4. e \in Nat /\ (e > 1 => v[t.parent[e]] \in BOOLEAN)
    BY <1>1, <2>2
  <2> HIDE DEF V
  <2>5. <<e, V>> \in R <=> /\ e \notin t.marked
                           /\ e > 1 => t.parent[e] \in V
                           /\ Depth(t)[e] <= DepthBudget
                           /\ Cardinality(V) < NodeBudget
    BY <2>1, Zenon
  <2> HIDE DEF R, n
  <2>6. <<e, V>> \in R <=> VisitOf(v, e, t.parent[e], t.marked, Depth(t)[e], V)
    BY <2>3, <2>5 DEF VisitOf
  <2>7. (<<e, V>> \in R) = VisitOf(v, e, t.parent[e], t.marked, Depth(t)[e], V)
    BY <2>4, <2>6, VisitIsOne
  <2> QED
    BY <2>7, Zenon DEF V
<1> HIDE DEF R
<1>4. Visits(v, t)
  BY <1>2, <1>3, Zenon DEF Chosen, Visits
<1> QED
  BY <1>4

\* The two recursive definitions are such functions.
LEMMA WholeIs ==
  ASSUME NEW t, TreeOK(t), NEW provider
  PROVE  \E v : Shows(v, t, provider) /\ Whole(t, provider) = {e \in Elements(t) : v[e]}
<1> DEFINE F == CHOOSE v : v = [e \in 1..Len(t.parent) |->
                   (provider = "web" => e \notin t.marked) /\ (e > 1 => v[t.parent[e]])]
<1>1. \E v : v = [e \in 1..Len(t.parent) |->
                   (provider = "web" => e \notin t.marked) /\ (e > 1 => v[t.parent[e]])]
  <2>1. PICK v : Shows(v, t, provider)
    BY ShowsExists
  <2> QED
    BY <2>1, Zenon DEF Shows
<1>2. F = [e \in 1..Len(t.parent) |->
             (provider = "web" => e \notin t.marked) /\ (e > 1 => F[t.parent[e]])]
  BY <1>1, Zenon
<1>3. Whole(t, provider) = {e \in Elements(t) : F[e]}
  BY Zenon DEF Whole
<1> HIDE DEF F
<1>4. Shows(F, t, provider)
  BY <1>2, Zenon DEF Shows
<1> QED
  BY <1>3, <1>4

\* The snapshot of a page (semanticTree) is what such a visit reaches.
LEMMA SemanticTreeIs ==
  ASSUME NEW t, TreeOK(t)
  PROVE  \E v : Visits(v, t) /\ semanticTree(t) = {e \in Elements(t) : v[e]}
<1> DEFINE F == CHOOSE v : v = [e \in 1..Len(t.parent) |->
                   /\ e \notin t.marked
                   /\ e > 1 => v[t.parent[e]]
                   /\ Depth(t)[e] <= DepthBudget
                   /\ Cardinality({f \in 1..(e - 1) : v[f]}) < NodeBudget]
<1>1. \E v : v = [e \in 1..Len(t.parent) |->
                   /\ e \notin t.marked
                   /\ e > 1 => v[t.parent[e]]
                   /\ Depth(t)[e] <= DepthBudget
                   /\ Cardinality({f \in 1..(e - 1) : v[f]}) < NodeBudget]
  BY VisitsExists, Zenon DEF Visits, VisitOf
<1>2. F = [e \in 1..Len(t.parent) |->
                   /\ e \notin t.marked
                   /\ e > 1 => F[t.parent[e]]
                   /\ Depth(t)[e] <= DepthBudget
                   /\ Cardinality({f \in 1..(e - 1) : F[f]}) < NodeBudget]
  BY <1>1, Zenon
<1>3. semanticTree(t) = {e \in Elements(t) : F[e]}
  BY Zenon DEF semanticTree
<1> HIDE DEF F
<1>4. Visits(F, t)
  BY <1>2, Zenon DEF Visits, VisitOf
<1> QED
  BY <1>3, <1>4

\* A set of elements that holds the first one, and every element whose parent it
\* holds, holds them all.
LEMMA AllElements ==
  ASSUME NEW t, TreeOK(t), NEW X,
         1 \in X, \A e \in Elements(t) : e > 1 /\ t.parent[e] \in X => e \in X
  PROVE  Elements(t) \subseteq X
<1> DEFINE T == {e \in Elements(t) : e \notin X}
<1> SUFFICES ASSUME T # {} PROVE FALSE
  OBVIOUS
<1>1. Elements(t) = 1..Len(t.parent) /\ Len(t.parent) \in Nat
      /\ \A e \in 1..Len(t.parent) : e > 1 => t.parent[e] \in 1..(e - 1)
  BY TreeElements
<1>2. PICK m \in T : \A j \in T : m <= j
  <2>1. T \in SUBSET Nat
    BY <1>1
  <2> HIDE DEF T
  <2> QED
    BY <2>1, LeastNatural
<1>3. m \in 1..Len(t.parent) /\ m \notin X /\ m > 1
  BY <1>1
<1>4. t.parent[m] \in 1..(m - 1) /\ t.parent[m] \in Elements(t)
  BY <1>1, <1>3
<1>5. t.parent[m] \notin T
  <2> HIDE DEF T
  <2> QED
    BY <1>1, <1>2, <1>3, <1>4
<1>6. t.parent[m] \in X
  BY <1>4, <1>5
<1> QED
  BY <1>1, <1>3, <1>6

\* The whole of a native tree is all of it.
LEMMA NativeWhole ==
  ASSUME NEW t, TreeOK(t)
  PROVE  Whole(t, "native") = Elements(t)
<1>1. PICK v : Shows(v, t, "native") /\ Whole(t, "native") = {e \in Elements(t) : v[e]}
  BY WholeIs
<1>2. Elements(t) = 1..Len(t.parent) /\ Len(t.parent) \in Nat \ {0}
      /\ \A e \in 1..Len(t.parent) : e > 1 => t.parent[e] \in 1..(e - 1)
  BY TreeElements
<1>3. \A e \in 1..Len(t.parent) : v[e] = (e > 1 => v[t.parent[e]])
  BY <1>1 DEF Shows
<1>4. 1 \in Whole(t, "native")
  <2>1. 1 \in 1..Len(t.parent)
    BY <1>2
  <2>2. v[1] = (1 > 1 => v[t.parent[1]])
    BY <1>3, <2>1
  <2>3. v[1]
    <3>1. ~(1 > 1)
      OBVIOUS
    <3> QED
      BY <2>2, <3>1, Zenon
  <2> QED
    BY <1>1, <1>2, <2>1, <2>3
<1>5. \A e \in Elements(t) : e > 1 /\ t.parent[e] \in Whole(t, "native") => e \in Whole(t, "native")
  BY <1>1, <1>2, <1>3
<1>6. Elements(t) \subseteq Whole(t, "native")
  BY <1>4, <1>5, AllElements
<1> QED
  BY <1>1, <1>6

\* A page's snapshot is of elements the page shows.
LEMMA PageWithinWhole ==
  ASSUME NEW t, TreeOK(t)
  PROVE  semanticTree(t) \subseteq Whole(t, "web")
<1>1. PICK v : Shows(v, t, "web") /\ Whole(t, "web") = {e \in Elements(t) : v[e]}
  BY WholeIs
<1>2. PICK u : Visits(u, t) /\ semanticTree(t) = {e \in Elements(t) : u[e]}
  BY SemanticTreeIs
<1>3. Elements(t) = 1..Len(t.parent) /\ Len(t.parent) \in Nat \ {0}
      /\ \A e \in 1..Len(t.parent) : e > 1 => t.parent[e] \in 1..(e - 1)
  BY TreeElements
<1>4. \A e \in 1..Len(t.parent) : v[e] = (e \notin t.marked /\ (e > 1 => v[t.parent[e]]))
  BY <1>1 DEF Shows
<1>5. \A e \in 1..Len(t.parent) : u[e] => e \notin t.marked /\ (e > 1 => u[t.parent[e]])
  BY <1>2, Zenon DEF Visits, VisitOf
<1> DEFINE T == {e \in Elements(t) : u[e] /\ ~v[e]}
<1> SUFFICES ASSUME T # {} PROVE FALSE
  BY <1>1, <1>2
<1>6. PICK m \in T : \A j \in T : m <= j
  <2>1. T \in SUBSET Nat
    BY <1>3
  <2> HIDE DEF T
  <2> QED
    BY <2>1, LeastNatural
<1>7. m \in 1..Len(t.parent) /\ u[m] /\ ~v[m]
  BY <1>3
<1>8. m > 1 /\ u[t.parent[m]] /\ ~v[t.parent[m]]
  BY <1>3, <1>4, <1>5, <1>7
<1>9. t.parent[m] \in T /\ t.parent[m] \in 1..(m - 1)
  BY <1>3, <1>7, <1>8
<1> HIDE DEF T
<1> QED
  BY <1>6, <1>7, <1>9

\* An enumeration of a set in ascending order.
Ascends(s, S) ==
  s \in [1..Cardinality(S) -> S] /\ \A i, j \in 1..Cardinality(S) : i < j => s[i] < s[j]

\* One more element, above the others.
LEMMA AscendsExtends ==
  ASSUME NEW n \in Nat \ {0}, NEW S \in SUBSET (1..n), n \in S,
         NEW s, Ascends(s, S \ {n})
  PROVE  \E r : Ascends(r, S)
<1>1. IsFiniteSet(S) /\ IsFiniteSet(S \ {n})
  <2>1. IsFiniteSet(1..n)
    BY FS_Interval
  <2> QED
    BY <2>1, FS_Subset, FS_RemoveElement
<1>2. PICK c \in Nat : c = Cardinality(S \ {n}) /\ Cardinality(S) = c + 1
  <2>1. Cardinality(S) \in Nat /\ Cardinality(S \ {n}) \in Nat
    BY <1>1, FS_CardinalityType
  <2>2. Cardinality(S \ {n}) = Cardinality(S) - 1
    BY <1>1, FS_RemoveElement
  <2> QED
    BY <2>1, <2>2
<1>3. s \in [1..c -> S \ {n}] /\ \A i, j \in 1..c : i < j => s[i] < s[j]
  BY <1>2 DEF Ascends
<1> DEFINE r == [i \in 1..(c + 1) |-> IF i <= c THEN s[i] ELSE n]
<1>4. \A i \in 1..c : s[i] \in S /\ s[i] \in 1..n /\ s[i] # n
  BY <1>3
<1>5. r \in [1..(c + 1) -> S]
  BY <1>4
<1>6. ASSUME NEW i \in 1..(c + 1), NEW j \in 1..(c + 1), i < j PROVE r[i] < r[j]
  <2>0. i \in 1..c
    BY <1>6
  <2>1. i \in 1..c /\ r[i] = s[i]
    BY <2>0
  <2>2. CASE j <= c
    <3>1. r[j] = s[j] /\ j \in 1..c
      BY <2>2
    <3>2. s[i] < s[j]
      BY <1>3, <1>6, <2>0, <3>1, Zenon
    <3> HIDE DEF r
    <3> QED
      BY <2>1, <3>1, <3>2
  <2>3. CASE ~(j <= c)
    <3>1. r[j] = n
      BY <2>3
    <3> HIDE DEF r
    <3> QED
      BY <1>4, <2>1, <3>1
  <2> QED
    BY <2>2, <2>3
<1>7. Ascends(r, S)
  <2> HIDE DEF r
  <2> QED
    BY <1>2, <1>5, <1>6 DEF Ascends
<1> QED
  BY <1>7

\* Every set of elements has an ascending order.
LEMMA AscendsExists ==
  ASSUME NEW n \in Nat
  PROVE  \A S \in SUBSET (1..n) : \E s : Ascends(s, S)
<1> DEFINE T == {j \in Nat : ~ \A S \in SUBSET (1..j) : \E s : Ascends(s, S)}
<1> SUFFICES ASSUME T # {} PROVE FALSE
  OBVIOUS
<1>1. PICK m \in T : \A j \in T : m <= j
  <2> HIDE DEF T
  <2>1. T \in SUBSET Nat
    BY DEF T
  <2> QED
    BY <2>1, LeastNatural
<1>2. PICK S \in SUBSET (1..m) : ~ \E s : Ascends(s, S)
  BY <1>1
<1>3. CASE m = 0
  <2>0. 1..0 = {}
    OBVIOUS
  <2>1. S = {} /\ Cardinality(S) = 0
    <3>1. S \subseteq 1..0
      BY <1>3
    <3>2. S = {}
      BY <2>0, <3>1
    <3> QED
      BY <3>2, FS_EmptySet
  <2> DEFINE s == [i \in {} |-> 0]
  <2>2. s \in [1..0 -> {}]
    OBVIOUS
  <2>3. \A i, j \in 1..0 : i < j => s[i] < s[j]
    OBVIOUS
  <2> HIDE DEF s
  <2> QED
    BY <1>2, <2>1, <2>2, <2>3 DEF Ascends
<1>4. CASE m # 0
  <2>1. m \in Nat \ {0} /\ m - 1 \in Nat /\ m - 1 \notin T
    BY <1>1, <1>4
  <2>2. \A U \in SUBSET (1..(m - 1)) : \E s : Ascends(s, U)
    BY <2>1
  <2>3. CASE m \in S
    <3>1. S \ {m} \in SUBSET (1..(m - 1))
      BY <2>1
    <3>2. PICK s : Ascends(s, S \ {m})
      BY <2>2, <3>1
    <3> QED
      BY <1>2, <2>1, <2>3, <3>2, AscendsExtends
  <2>4. CASE m \notin S
    <3>1. S \in SUBSET (1..(m - 1))
      BY <2>1, <2>4
    <3> QED
      BY <1>2, <2>2, <3>1
  <2> QED
    BY <2>3, <2>4
<1> QED
  BY <1>3, <1>4

\* InOrder enumerates every element of a set of elements, each once.
LEMMA InOrderIs ==
  ASSUME NEW n \in Nat, NEW S \in SUBSET (1..n)
  PROVE  \E s \in Seq(S) : /\ s = InOrder(S)
                           /\ \A i, j \in 1..Len(s) : s[i] = s[j] => i = j
                           /\ \A e \in S : \E i \in 1..Len(s) : s[i] = e
<1>1. IsFiniteSet(S) /\ Cardinality(S) \in Nat
  <2>1. IsFiniteSet(1..n)
    BY FS_Interval
  <2> QED
    BY <2>1, FS_Subset, FS_CardinalityType
<1>2. PICK c \in Nat : c = Cardinality(S)
  BY <1>1
<1>3. \E s \in [1..Cardinality(S) -> S] : \A i, j \in DOMAIN s : i < j => s[i] < s[j]
  <2>1. PICK s : Ascends(s, S)
    BY AscendsExists
  <2>2. s \in [1..Cardinality(S) -> S] /\ DOMAIN s = 1..Cardinality(S)
    BY <2>1 DEF Ascends
  <2> QED
    BY <2>1, <2>2 DEF Ascends
<1>4. PICK s : s = InOrder(S) /\ s \in [1..c -> S] /\ \A i, j \in 1..c : i < j => s[i] < s[j]
  <2> DEFINE F == CHOOSE s \in [1..Cardinality(S) -> S] : \A i, j \in DOMAIN s : i < j => s[i] < s[j]
  <2>1. F \in [1..Cardinality(S) -> S] /\ \A i, j \in DOMAIN F : i < j => F[i] < F[j]
    BY <1>3, Zenon
  <2>2. F = InOrder(S)
    BY Zenon DEF InOrder
  <2> HIDE DEF F
  <2>3. DOMAIN F = 1..c
    BY <1>2, <2>1
  <2> QED
    BY <1>2, <2>1, <2>2, <2>3
<1>5. s \in Seq(S) /\ Len(s) = c
  BY <1>4
<1>6. ASSUME NEW i \in 1..c, NEW j \in 1..c, s[i] = s[j] PROVE i = j
  <2>0. s[i] \in S /\ s[j] \in S
    BY <1>4
  <2>1. s[i] \in Nat /\ s[j] \in Nat
    <3>1. \A x \in S : x \in Nat
      OBVIOUS
    <3> QED
      BY <2>0, <3>1, Zenon
  <2>2. ~(i < j) /\ ~(j < i)
    BY <1>4, <1>6, <2>1
  <2> QED
    BY <2>2
<1>7. ASSUME NEW e \in S, \A i \in 1..c : s[i] # e PROVE FALSE
  <2>1. s \in [1..c -> S \ {e}]
    BY <1>4, <1>7
  <2>2. IsFiniteSet(1..c) /\ Cardinality(1..c) = c
    BY FS_Interval
  <2>3. IsFiniteSet(S \ {e}) /\ Cardinality(S \ {e}) = c - 1
    BY <1>1, <1>2, FS_RemoveElement
  <2>4. Cardinality(S \ {e}) < Cardinality(1..c)
    BY <2>2, <2>3
  <2>5. \E i, j \in 1..c : i # j /\ s[i] = s[j]
    BY <2>1, <2>2, <2>3, <2>4, FS_PigeonHole
  <2> QED
    BY <1>6, <2>5
<1> QED
  BY <1>4, <1>5, <1>6, <1>7

\* The children of an element, each once, in a sequence.
KidsOK(t, kids, e) ==
  /\ kids \in Seq(Elements(t))
  /\ \A i, j \in 1..Len(kids) : kids[i] = kids[j] => i = j
  /\ \A i \in 1..Len(kids) : t.parent[kids[i]] = e
  /\ \A c \in Elements(t) : t.parent[c] = e => \E i \in 1..Len(kids) : kids[i] = c

\* That is what they are where no element is surfaced twice.
LEMMA KidsAre ==
  ASSUME NEW t, TreeOK(t), t.twice.of = 0, NEW e \in Elements(t)
  PROVE  KidsOK(t, Kids(t, e), e)
<1> DEFINE S == {i \in Elements(t) : t.parent[i] = e}
<1>1. Elements(t) = 1..Len(t.parent) /\ Len(t.parent) \in Nat
  BY TreeElements
<1>2. S \in SUBSET (1..Len(t.parent))
  BY <1>1
<1>3. Kids(t, e) = InOrder(S)
  <2>1. t.twice.of # e
    BY <1>1
  <2> QED
    BY <2>1 DEF Kids, Offspring
<1>4. PICK kids \in Seq(S) : /\ kids = InOrder(S)
                             /\ \A i, j \in 1..Len(kids) : kids[i] = kids[j] => i = j
                             /\ \A c \in S : \E i \in 1..Len(kids) : kids[i] = c
  <2> HIDE DEF S
  <2> QED
    BY <1>1, <1>2, InOrderIs
<1>5. \A i \in 1..Len(kids) : kids[i] \in S
  <2> HIDE DEF S
  <2> QED
    OBVIOUS
<1>6. kids \in Seq(Elements(t))
  <2>1. S \subseteq Elements(t)
    OBVIOUS
  <2> HIDE DEF S
  <2> QED
    BY <2>1
<1>7. \A i \in 1..Len(kids) : t.parent[kids[i]] = e
  BY <1>5
<1>8. \A c \in Elements(t) : t.parent[c] = e => \E i \in 1..Len(kids) : kids[i] = c
  BY <1>4
<1>9. KidsOK(t, kids, e)
  BY <1>4, <1>6, <1>7, <1>8 DEF KidsOK
<1> QED
  BY <1>3, <1>4, <1>9, Zenon

\* Of the children all are queued, or as many as the budget allows and one more, or
\* one that is too deep.
LEMMA QueuedAre ==
  ASSUME NEW S, NEW kids \in Seq(S), NEW depth \in Nat, NEW held \in Nat
  PROVE  \E m \in 0..Len(kids) :
           /\ queued_children(kids, depth, held) = SubSeq(kids, 1, m)
           /\ m < Len(kids) => held + m > NodeBudget \/ (m >= 1 /\ depth + 1 > DepthBudget)
<1> DEFINE K == {k \in DOMAIN kids : held + k - 1 <= NodeBudget /\ (depth + 1 > DepthBudget => k = 1)}
<1>1. PICK l \in Nat : l = Len(kids) /\ DOMAIN kids = 1..l
  OBVIOUS
<1>2. NodeBudget \in Nat /\ DepthBudget \in Nat
  BY PostconditionAssumption
<1>3. queued_children(kids, depth, held) = SubSeq(kids, 1, Cardinality(K))
  BY DEF queued_children
<1>4. SUFFICES \E m \in 0..l :
                 /\ Cardinality(K) = m
                 /\ m < l => held + m > NodeBudget \/ (m >= 1 /\ depth + 1 > DepthBudget)
  BY <1>1, <1>3
<1>5. K = {k \in 1..l : held + k - 1 <= NodeBudget /\ (depth + 1 > DepthBudget => k = 1)}
  BY <1>1
<1> HIDE DEF K
<1>6. \A m \in Nat : Cardinality(1..m) = m
  BY FS_Interval
<1>7. CASE held > NodeBudget
  <2>1. K = 1..0
    BY <1>2, <1>5, <1>7
  <2> QED
    BY <1>2, <1>6, <1>7, <2>1
<1>8. CASE held <= NodeBudget /\ depth + 1 > DepthBudget
  <2>1. CASE l = 0
    <3>1. K = 1..0
      BY <1>5, <2>1
    <3> QED
      BY <1>6, <2>1, <3>1
  <2>2. CASE l # 0
    <3>1. K = 1..1
      BY <1>2, <1>5, <1>8, <2>2
    <3>2. Cardinality(K) = 1
      BY <1>6, <3>1
    <3>3. 1 \in 0..l
      BY <2>2
    <3> QED
      BY <1>8, <3>2, <3>3
  <2> QED
    BY <2>1, <2>2
<1>9. CASE held <= NodeBudget /\ ~(depth + 1 > DepthBudget)
  <2>1. CASE l <= NodeBudget - held + 1
    <3>1. K = 1..l
      BY <1>2, <1>5, <1>9, <2>1
    <3> QED
      BY <1>6, <3>1
  <2>2. CASE ~(l <= NodeBudget - held + 1)
    <3>1. PICK m \in Nat : m = NodeBudget - held + 1
      BY <1>2, <1>9
    <3>2. K = 1..m
      BY <1>2, <1>5, <1>9, <2>2, <3>1
    <3> QED
      BY <1>2, <1>6, <2>2, <3>1, <3>2
  <2> QED
    BY <2>1, <2>2
<1> QED
  BY <1>2, <1>7, <1>8, <1>9

\* What the walk has seen and holds back. An element that was not reached is below
\* one that is queued, or a bound will be found exhausted: there are more nodes and
\* queued elements than the budget, or a queued element is too deep.
Covered(t, queue, nodes) ==
  \A e \in Elements(t) : e > 1 /\ t.parent[e] \in nodes =>
     e \in nodes \/ \E i \in 1..Len(queue) : queue[i].elem = e

WalkItems(t) == [elem : Elements(t), depth : Nat]

WalkOK(t, queue, seen, nodes, exhausted) ==
  /\ queue \in Seq(WalkItems(t))
  /\ seen \subseteq Elements(t) /\ nodes \subseteq seen /\ Cardinality(nodes) <= NodeBudget
  /\ exhausted = {} => nodes = seen
  /\ 1 \in seen \/ \E i \in 1..Len(queue) : queue[i].elem = 1
  /\ \A i, j \in 1..Len(queue) : queue[i].elem = queue[j].elem => i = j
  /\ \A i \in 1..Len(queue) : queue[i].elem \notin seen
  /\ \A i \in 1..Len(queue) : queue[i].elem > 1 => t.parent[queue[i].elem] \in seen
  /\ \A e \in seen : e > 1 => t.parent[e] \in seen
  /\ exhausted = {} =>
       \/ Covered(t, queue, nodes)
       \/ Cardinality(nodes) + Len(queue) > NodeBudget
       \/ \E i \in 1..Len(queue) : queue[i].depth > DepthBudget

\* The walk starts with the first element queued.
LEMMA WalkStarts ==
  ASSUME NEW t, TreeOK(t)
  PROVE  WalkOK(t, <<Walk(1, 0)>>, {}, {}, {})
<1>1. 1 \in Elements(t)
  BY TreeElements
<1>2. PICK queue : queue = <<Walk(1, 0)>>
  OBVIOUS
<1>3. Walk(1, 0) \in WalkItems(t)
  BY <1>1 DEF Walk, WalkItems
<1>4. queue \in Seq(WalkItems(t)) /\ Len(queue) = 1 /\ queue[1].elem = 1
  BY <1>2, <1>3 DEF Walk
<1>5. Cardinality({}) = 0 /\ NodeBudget \in Nat
  BY FS_EmptySet, PostconditionAssumption
<1>6. Covered(t, queue, {})
  BY DEF Covered
<1>7. \A i \in 1..Len(queue) : i = 1 /\ queue[i].elem = 1
  BY <1>4
<1>8. \A i, j \in 1..Len(queue) : i = j
  BY <1>7
<1>9. 1 \in 1..Len(queue)
  BY <1>4
<1>10. WalkOK(t, queue, {}, {}, {})
  BY <1>4, <1>5, <1>6, <1>7, <1>8, <1>9 DEF WalkOK
<1> QED
  BY <1>2, <1>10

\* A walk that ends with no bound exhausted was of every element.
LEMMA WalkEnds ==
  ASSUME NEW t, TreeOK(t), NEW seen, NEW nodes, WalkOK(t, <<>>, seen, nodes, {})
  PROVE  nodes = Elements(t)
<1>1. PICK queue : queue = <<>> /\ Len(queue) = 0
  OBVIOUS
<1>2. WalkOK(t, queue, seen, nodes, {})
  BY <1>1
<1>3. ~ \E i \in 1..Len(queue) : TRUE
  BY <1>1
<1>4. nodes = seen /\ 1 \in seen /\ nodes \subseteq Elements(t) /\ Cardinality(nodes) <= NodeBudget
  BY <1>2, <1>3 DEF WalkOK
<1>5. Cardinality(nodes) \in Nat
  <2>1. IsFiniteSet(Elements(t))
    BY TreeElements, FS_Interval
  <2> QED
    BY <1>4, <2>1, FS_Subset, FS_CardinalityType
<1>6. ~(Cardinality(nodes) + Len(queue) > NodeBudget)
  BY <1>1, <1>4, <1>5, PostconditionAssumption
<1>7. Covered(t, queue, nodes)
  BY <1>2, <1>3, <1>6 DEF WalkOK
<1>8. \A e \in Elements(t) : e > 1 /\ t.parent[e] \in nodes => e \in nodes
  BY <1>3, <1>7 DEF Covered
<1> QED
  BY <1>4, <1>8, AllElements

\* The walk takes the first element queued and finds a bound exhausted.
LEMMA WalkRejects ==
  ASSUME NEW t, TreeOK(t), NEW queue, NEW seen, NEW nodes, NEW exhausted,
         WalkOK(t, queue, seen, nodes, exhausted), Len(queue) >= 1,
         NEW rest \in Seq(WalkItems(t)), Len(rest) = Len(queue) - 1,
         \A i \in 1..Len(rest) : rest[i] = queue[i + 1],
         NEW e, e = queue[1].elem, NEW found, found # {}
  PROVE  WalkOK(t, rest, seen \cup {e}, nodes, found)
<1>1. queue \in Seq(WalkItems(t))
  BY DEF WalkOK
<1>2. PICK l \in Nat, r \in Nat : l = Len(queue) /\ r = Len(rest) /\ l = r + 1
  BY <1>1
<1>3. \A i \in 1..l : queue[i].elem \in Elements(t)
  <2>1. \A i \in 1..l : queue[i] \in WalkItems(t)
    BY <1>1, <1>2
  <2> QED
    BY <2>1 DEF WalkItems
<1>4. /\ \A i, j \in 1..l : queue[i].elem = queue[j].elem => i = j
      /\ \A i \in 1..l : queue[i].elem \notin seen
      /\ \A i \in 1..l : queue[i].elem > 1 => t.parent[queue[i].elem] \in seen
      /\ 1 \in seen \/ \E i \in 1..l : queue[i].elem = 1
  BY <1>2 DEF WalkOK
<1>5. /\ seen \subseteq Elements(t) /\ nodes \subseteq seen /\ Cardinality(nodes) <= NodeBudget
      /\ \A c \in seen : c > 1 => t.parent[c] \in seen
  BY DEF WalkOK
<1>6. \A i \in 1..r : i + 1 \in 1..l /\ rest[i] = queue[i + 1] /\ i + 1 # 1
  BY <1>2
<1>7. 1 \in 1..l /\ e \in Elements(t)
  BY <1>2, <1>3
<1>8. \A i \in 1..r : rest[i].elem # e /\ rest[i].elem \notin seen
  BY <1>4, <1>6, <1>7
<1>9. ASSUME NEW i \in 1..r, NEW j \in 1..r, rest[i].elem = rest[j].elem PROVE i = j
  <2>1. PICK a \in 1..l, b \in 1..l : a = i + 1 /\ b = j + 1 /\ rest[i] = queue[a] /\ rest[j] = queue[b]
    BY <1>6
  <2>2. a = b
    BY <1>4, <1>9, <2>1
  <2> QED
    BY <2>1, <2>2
<1>10. \A i \in 1..r : rest[i].elem > 1 => t.parent[rest[i].elem] \in seen \cup {e}
  BY <1>4, <1>6
<1>11. \A c \in seen \cup {e} : c > 1 => t.parent[c] \in seen \cup {e}
  BY <1>4, <1>5, <1>7
<1>12. 1 \in seen \cup {e} \/ \E i \in 1..r : rest[i].elem = 1
  <2>1. ASSUME NEW i \in 1..l, queue[i].elem = 1, i # 1 PROVE \E k \in 1..r : rest[k].elem = 1
    <3>1. i - 1 \in 1..r /\ i = (i - 1) + 1
      BY <1>2, <2>1
    <3>2. PICK k \in 1..r : i = k + 1
      BY <3>1
    <3> QED
      BY <1>6, <2>1, <3>2
  <2>2. ASSUME NEW i \in 1..l, queue[i].elem = 1, i = 1 PROVE 1 \in seen \cup {e}
    BY <2>2
  <2>3. CASE 1 \in seen
    BY <2>3
  <2>4. CASE \E i \in 1..l : queue[i].elem = 1
    <3>1. PICK i \in 1..l : queue[i].elem = 1
      BY <2>4
    <3> QED
      BY <2>1, <2>2, <3>1, Zenon
  <2> QED
    BY <1>4, <2>3, <2>4, Zenon
<1> QED
  BY <1>2, <1>5, <1>7, <1>8, <1>9, <1>10, <1>11, <1>12 DEF WalkOK

\* The children of the element that is admitted were neither seen nor queued.
LEMMA KidsAreNew ==
  ASSUME NEW t, TreeOK(t), NEW queue, NEW seen, NEW nodes, NEW exhausted,
         WalkOK(t, queue, seen, nodes, exhausted), Len(queue) >= 1,
         NEW e, e = queue[1].elem, NEW c \in Elements(t), t.parent[c] = e
  PROVE  /\ c \notin seen /\ c # e /\ c > 1
         /\ \A i \in 1..Len(queue) : queue[i].elem # c
<1>1. queue \in Seq(WalkItems(t))
  BY DEF WalkOK
<1>2. PICK l \in Nat \ {0} : l = Len(queue)
  BY <1>1
<1>3. 1 \in 1..l /\ queue[1] \in WalkItems(t)
  BY <1>1, <1>2
<1>4. e \in Elements(t) /\ e \notin seen
  BY <1>2, <1>3 DEF WalkItems, WalkOK
<1>5. /\ \A i \in 1..l : queue[i].elem > 1 => t.parent[queue[i].elem] \in seen
      /\ \A d \in seen : d > 1 => t.parent[d] \in seen
  BY <1>2 DEF WalkOK
<1>6. e \in Nat \ {0} /\ c \in Nat /\ e < c
  BY <1>4, TreeElements
<1>7. c > 1 /\ c # e
  BY <1>6
<1>8. c \notin seen
  BY <1>4, <1>5, <1>7
<1>9. \A i \in 1..l : queue[i].elem # c
  BY <1>4, <1>5, <1>7
<1> QED
  BY <1>2, <1>7, <1>8, <1>9

\* The queue when children of the element that left it join it.
NextIs(next, queue, kids, r, m, depth) ==
  /\ Len(next) = r + m
  /\ \A i \in 1..r : next[i] = queue[i + 1]
  /\ \A k \in 1..m : next[r + k] = Walk(kids[k], depth + 1)

Behind(next, queue, r) ==
  /\ \A i \in 1..r : \E j \in 1..(r + 1) : j = i + 1 /\ j # 1 /\ next[i] = queue[j]
  /\ \A j \in 1..(r + 1) : j # 1 => \E i \in 1..r : next[i] = queue[j]

Joined(next, kids, r, m, depth) ==
  /\ \A i \in 1..(r + m) : i \notin 1..r =>
       \E k \in 1..m : i = r + k /\ next[i].elem = kids[k] /\ next[i].depth = depth + 1
  /\ \A k \in 1..m : \E i \in 1..(r + m) : next[i].elem = kids[k] /\ next[i].depth = depth + 1

\* The places of the old and of the new in that queue.
LEMMA NextPlaces ==
  ASSUME NEW next, NEW queue, NEW kids, NEW r \in Nat, NEW m \in Nat, NEW depth \in Nat,
         NextIs(next, queue, kids, r, m, depth)
  PROVE  Behind(next, queue, r) /\ Joined(next, kids, r, m, depth)
<1>1. /\ \A i \in 1..r : next[i] = queue[i + 1]
      /\ \A k \in 1..m : next[r + k] = Walk(kids[k], depth + 1)
  BY DEF NextIs
<1>2. \A i \in 1..r : \E j \in 1..(r + 1) : j = i + 1 /\ j # 1 /\ next[i] = queue[j]
  BY <1>1
<1>3. ASSUME NEW j \in 1..(r + 1), j # 1 PROVE \E i \in 1..r : next[i] = queue[j]
  <2>1. PICK i \in 1..r : j = i + 1
    <3>1. j - 1 \in 1..r /\ j = (j - 1) + 1
      BY <1>3
    <3> QED
      BY <3>1
  <2> QED
    BY <1>1, <2>1
<1>4. \A k \in 1..m : Walk(kids[k], depth + 1).elem = kids[k] /\ Walk(kids[k], depth + 1).depth = depth + 1
  BY DEF Walk
<1>5. ASSUME NEW i \in 1..(r + m), i \notin 1..r
      PROVE  \E k \in 1..m : i = r + k /\ next[i].elem = kids[k] /\ next[i].depth = depth + 1
  <2>1. PICK k \in 1..m : i = r + k
    <3>1. i - r \in 1..m /\ i = r + (i - r)
      BY <1>5
    <3> QED
      BY <3>1
  <2>2. next[i] = Walk(kids[k], depth + 1)
    BY <1>1, <2>1
  <2> QED
    BY <1>4, <2>1, <2>2
<1>6. ASSUME NEW k \in 1..m
      PROVE  \E i \in 1..(r + m) : next[i].elem = kids[k] /\ next[i].depth = depth + 1
  <2>1. PICK i \in 1..(r + m) : i = r + k
    <3>1. r + k \in 1..(r + m)
      OBVIOUS
    <3> QED
      BY <3>1
  <2>2. next[i] = Walk(kids[k], depth + 1)
    BY <1>1, <2>1
  <2> QED
    BY <1>4, <2>2
<1> QED
  BY <1>2, <1>3, <1>5, <1>6 DEF Behind, Joined

\* The walk admits the first element queued, and queues its children.
LEMMA WalkAdmits ==
  ASSUME NEW t, TreeOK(t), NEW queue, NEW seen, NEW nodes, NEW exhausted,
         WalkOK(t, queue, seen, nodes, exhausted), NEW r \in Nat, Len(queue) = r + 1,
         NEW e, e = queue[1].elem, NEW depth \in Nat, depth = queue[1].depth, depth <= DepthBudget,
         Cardinality(nodes) < NodeBudget,
         NEW kids, KidsOK(t, kids, e), NEW n \in Nat, n = Len(kids), NEW m \in 0..n,
         m < n => \/ Cardinality(nodes) + 1 + r + m > NodeBudget
                  \/ m >= 1 /\ depth + 1 > DepthBudget,
         NEW next, next \in Seq(WalkItems(t)), NextIs(next, queue, kids, r, m, depth)
  PROVE  WalkOK(t, next, seen \cup {e}, nodes \cup {e}, exhausted)
<1>1. Behind(next, queue, r) /\ Joined(next, kids, r, m, depth)
  <2>1. m \in Nat
    OBVIOUS
  <2> QED
    BY <2>1, NextPlaces
<1>2. PICK l \in Nat : l = Len(queue) /\ l = r + 1 /\ 1 \in 1..l
  OBVIOUS
<1>3. /\ \A i, j \in 1..l : queue[i].elem = queue[j].elem => i = j
      /\ \A i \in 1..l : queue[i].elem \notin seen
      /\ \A i \in 1..l : queue[i].elem > 1 => t.parent[queue[i].elem] \in seen
      /\ 1 \in seen \/ \E i \in 1..l : queue[i].elem = 1
  BY <1>2 DEF WalkOK
<1>4. /\ seen \subseteq Elements(t) /\ nodes \subseteq seen
      /\ exhausted = {} => nodes = seen
      /\ \A c \in seen : c > 1 => t.parent[c] \in seen
  BY DEF WalkOK
<1>5. e \in Elements(t) /\ e \notin seen
  <2>1. queue \in Seq(WalkItems(t))
    BY DEF WalkOK
  <2>2. queue[1] \in WalkItems(t)
    BY <1>2, <2>1
  <2> QED
    BY <1>2, <1>3, <2>2 DEF WalkItems
<1>6. /\ Cardinality(nodes) \in Nat
      /\ Cardinality(nodes \cup {e}) = Cardinality(nodes) + 1
  <2>1. IsFiniteSet(Elements(t))
    <3>1. PICK b \in Int : Elements(t) = 1..b
      BY TreeElements
    <3> QED
      BY <3>1, FS_Interval
  <2>2. nodes \in SUBSET Elements(t) /\ e \notin nodes
    BY <1>4, <1>5
  <2>3. IsFiniteSet(nodes) /\ Cardinality(nodes) \in Nat
    BY <2>1, <2>2, FS_Subset, FS_CardinalityType
  <2> QED
    BY <2>2, <2>3, FS_AddElement
<1>7. NodeBudget \in Nat /\ DepthBudget \in Nat
  BY PostconditionAssumption
<1>8. \A k \in 1..m : k \in 1..n /\ kids[k] \in Elements(t) /\ t.parent[kids[k]] = e
  BY DEF KidsOK
<1>9. \A k \in 1..m : /\ kids[k] \notin seen /\ kids[k] # e /\ kids[k] > 1
                      /\ \A i \in 1..l : queue[i].elem # kids[k]
  <2> SUFFICES ASSUME NEW k \in 1..m
               PROVE  /\ kids[k] \notin seen /\ kids[k] # e /\ kids[k] > 1
                      /\ \A i \in 1..l : queue[i].elem # kids[k]
    OBVIOUS
  <2>1. kids[k] \in Elements(t) /\ t.parent[kids[k]] = e
    BY <1>8
  <2>2. Len(queue) >= 1
    OBVIOUS
  <2> QED
    BY <1>2, <2>1, <2>2, KidsAreNew
<1>10. /\ \A i \in 1..r : \E j \in 1..l : j = i + 1 /\ j # 1 /\ next[i] = queue[j]
       /\ \A j \in 1..l : j # 1 => \E i \in 1..r : next[i] = queue[j]
  BY <1>1, <1>2 DEF Behind
<1>11. /\ \A i \in 1..(r + m) : i \notin 1..r =>
            \E k \in 1..m : i = r + k /\ next[i].elem = kids[k] /\ next[i].depth = depth + 1
       /\ \A k \in 1..m : \E i \in 1..(r + m) : next[i].elem = kids[k] /\ next[i].depth = depth + 1
  BY <1>1 DEF Joined
<1>12. \A i \in 1..r : i \in 1..(r + m)
  OBVIOUS
<1>13. ASSUME NEW i \in 1..r
       PROVE  /\ next[i].elem # e /\ next[i].elem \notin seen
              /\ next[i].elem > 1 => t.parent[next[i].elem] \in seen
              /\ \A k \in 1..m : next[i].elem # kids[k]
  <2>1. PICK j \in 1..l : j # 1 /\ next[i] = queue[j]
    BY <1>10
  <2>2. queue[j].elem # e
    BY <1>2, <1>3, <2>1
  <2>3. queue[j].elem \notin seen /\ (queue[j].elem > 1 => t.parent[queue[j].elem] \in seen)
    BY <1>3
  <2>4. \A k \in 1..m : queue[j].elem # kids[k]
    BY <1>9
  <2> QED
    BY <2>1, <2>2, <2>3, <2>4
<1>14. ASSUME NEW i \in 1..(r + m)
       PROVE  /\ next[i].elem \notin seen \cup {e}
              /\ next[i].elem > 1 => t.parent[next[i].elem] \in seen \cup {e}
  <2>1. CASE i \in 1..r
    BY <1>13, <2>1
  <2>2. CASE i \notin 1..r
    <3>1. PICK k \in 1..m : next[i].elem = kids[k]
      BY <1>11, <2>2
    <3> QED
      BY <1>8, <1>9, <3>1
  <2> QED
    BY <2>1, <2>2
<1>16. ASSUME NEW i \in 1..(r + m), NEW j \in 1..(r + m), next[i].elem = next[j].elem PROVE i = j
  <2>1. CASE i \in 1..r /\ j \in 1..r
    <3>1. PICK a \in 1..l, b \in 1..l : a = i + 1 /\ b = j + 1 /\ next[i] = queue[a] /\ next[j] = queue[b]
      BY <1>10, <2>1
    <3>2. a = b
      BY <1>3, <1>16, <3>1
    <3> QED
      BY <3>1, <3>2
  <2>2. CASE i \in 1..r /\ j \notin 1..r
    BY <1>11, <1>13, <1>16, <2>2
  <2>3. CASE i \notin 1..r /\ j \in 1..r
    BY <1>11, <1>13, <1>16, <2>3
  <2>4. CASE i \notin 1..r /\ j \notin 1..r
    <3>1. PICK a \in 1..m, b \in 1..m : /\ i = r + a /\ next[i].elem = kids[a]
                                        /\ j = r + b /\ next[j].elem = kids[b]
      BY <1>11, <2>4
    <3>2. a \in 1..n /\ b \in 1..n /\ kids[a] = kids[b]
      BY <1>8, <1>16, <3>1
    <3>3. a = b
      BY <3>2 DEF KidsOK
    <3> QED
      BY <3>1, <3>3
  <2> QED
    BY <2>1, <2>2, <2>3, <2>4
<1>17. \A c \in seen \cup {e} : c > 1 => t.parent[c] \in seen \cup {e}
  BY <1>2, <1>3, <1>4, <1>5
<1>18. 1 \in seen \cup {e} \/ \E i \in 1..(r + m) : next[i].elem = 1
  <2>1. ASSUME NEW j \in 1..l, queue[j].elem = 1, j # 1 PROVE \E i \in 1..(r + m) : next[i].elem = 1
    BY <1>10, <1>12, <2>1
  <2> QED
    BY <1>3, <2>1
<1>19. exhausted = {} =>
         \/ Covered(t, next, nodes \cup {e})
         \/ Cardinality(nodes \cup {e}) + (r + m) > NodeBudget
         \/ \E i \in 1..(r + m) : next[i].depth > DepthBudget
  <2> SUFFICES ASSUME exhausted = {},
                      ~(Cardinality(nodes \cup {e}) + (r + m) > NodeBudget),
                      ~ \E i \in 1..(r + m) : next[i].depth > DepthBudget
               PROVE  Covered(t, next, nodes \cup {e})
    OBVIOUS
  <2>1. ~(Cardinality(nodes) + Len(queue) > NodeBudget)
    BY <1>2, <1>6, <1>7
  <2>2. ~ \E i \in 1..l : queue[i].depth > DepthBudget
    <3> SUFFICES ASSUME NEW j \in 1..l, queue[j].depth > DepthBudget PROVE FALSE
      OBVIOUS
    <3>1. j # 1
      BY <1>7
    <3>2. PICK i \in 1..r : next[i] = queue[j]
      BY <1>10, <3>1
    <3> QED
      BY <1>12, <3>2
  <2>3. Covered(t, queue, nodes)
    BY <1>2, <2>1, <2>2 DEF WalkOK
  <2>4. m = n
    <3>1. m >= 1 => ~(depth + 1 > DepthBudget)
      <4> SUFFICES ASSUME m >= 1, depth + 1 > DepthBudget PROVE FALSE
        OBVIOUS
      <4>1. m \in 1..m
        OBVIOUS
      <4>2. PICK i \in 1..(r + m) : next[i].depth = depth + 1
        BY <1>11, <4>1
      <4> QED
        BY <4>2
    <3>2. ~(Cardinality(nodes) + 1 + r + m > NodeBudget)
      BY <1>6, <1>7
    <3> QED
      BY <3>1, <3>2
  <2>5. SUFFICES ASSUME NEW c \in Elements(t), c > 1, t.parent[c] \in nodes \cup {e}, c \notin nodes \cup {e}
                 PROVE  \E i \in 1..(r + m) : next[i].elem = c
    BY DEF Covered, NextIs
  <2>6. CASE t.parent[c] = e
    <3>1. PICK k \in 1..m : kids[k] = c
      BY <2>4, <2>6 DEF KidsOK
    <3> QED
      BY <1>11, <3>1
  <2>7. CASE t.parent[c] \in nodes
    <3>1. PICK j \in 1..l : queue[j].elem = c
      BY <1>2, <2>3, <2>5, <2>7 DEF Covered
    <3>2. j # 1
      BY <2>5, <3>1
    <3>3. PICK i \in 1..r : next[i] = queue[j]
      BY <1>10, <3>2
    <3> QED
      BY <1>12, <3>1, <3>3
  <2> QED
    BY <2>5, <2>6, <2>7
<1>20. /\ seen \cup {e} \subseteq Elements(t) /\ nodes \cup {e} \subseteq seen \cup {e}
       /\ Cardinality(nodes \cup {e}) <= NodeBudget
       /\ exhausted = {} => nodes \cup {e} = seen \cup {e}
  BY <1>4, <1>5, <1>6, <1>7
<1>21. Len(next) = r + m
  BY DEF NextIs
<1> QED
  BY <1>14, <1>16, <1>17, <1>18, <1>19, <1>20, <1>21 DEF WalkOK

\* What is known of the snapshot a verdict rests on: a complete native one is of every
\* element where none is surfaced twice, a page's is of elements the page shows.
Gathered(provider, t, nodes) ==
  /\ provider = "native" /\ t.twice.of = 0 => nodes = Elements(t)
  /\ provider = "web" => nodes \subseteq Whole(t, "web")

PostInv ==
  /\ TreeOK(pcTree) /\ pcProvider \in {"native", "web"}
  /\ pcStep = "observing" /\ pcProvider = "native" /\ pcTree.twice.of = 0 =>
       WalkOK(pcTree, pcQueue, pcSeen, pcNodes, pcExhausted)
  /\ pcStep # "observing" /\ pcComplete => Gathered(pcProvider, pcTree, pcNodes)
  /\ PostconditionsFailClosed

\* The property is of the interface, the evidence and the verdict alone.
LEMMA FailClosedStays ==
  ASSUME PostconditionsFailClosed, UNCHANGED <<pcProvider, pcTree, pcEvidence, pcVerdict>>
  PROVE  PostconditionsFailClosed'
  BY DEF PostconditionsFailClosed, Truth, Matching

\* The walk keeps its invariant.
LEMMA WalkKeeps ==
  ASSUME PostInv, observe_bounded_tree, pcTree.twice.of = 0
  PROVE  WalkOK(pcTree, pcQueue', pcSeen', pcNodes', pcExhausted')
<1> DEFINE item == Head(pcQueue)
           kids == Kids(pcTree, item.elem)
           rejected == admit_node(item.depth)
<1>1. /\ TreeOK(pcTree) /\ WalkOK(pcTree, pcQueue, pcSeen, pcNodes, pcExhausted)
      /\ pcQueue # <<>>
  BY DEF PostInv, observe_bounded_tree
<1>2. pcQueue \in Seq(WalkItems(pcTree))
  BY <1>1 DEF WalkOK
<1>3. PICK rest \in Seq(WalkItems(pcTree)), r \in Nat :
        /\ rest = Tail(pcQueue) /\ Len(rest) = r /\ Len(pcQueue) = r + 1
        /\ \A i \in 1..r : rest[i] = pcQueue[i + 1]
  <2>1. /\ Tail(pcQueue) \in Seq(WalkItems(pcTree)) /\ Len(Tail(pcQueue)) = Len(pcQueue) - 1
        /\ \A i \in 1..Len(Tail(pcQueue)) : Tail(pcQueue)[i] = pcQueue[i + 1]
    BY <1>1, <1>2, HeadTailProperties
  <2>2. Len(Tail(pcQueue)) \in Nat /\ Len(pcQueue) = Len(Tail(pcQueue)) + 1
    BY <1>1, <1>2, <2>1
  <2> QED
    BY <2>1, <2>2
<1>4. item = pcQueue[1] /\ item \in WalkItems(pcTree) /\ 1 \in 1..Len(pcQueue)
  BY <1>1, <1>2, HeadTailProperties
<1>5. item.elem \in Elements(pcTree) /\ item.depth \in Nat /\ item.elem \notin pcSeen
  <2>1. \A i \in 1..Len(pcQueue) : pcQueue[i].elem \notin pcSeen
    BY <1>1 DEF WalkOK
  <2> HIDE DEF item
  <2> QED
    BY <1>4, <2>1 DEF WalkItems
<1>6. /\ pcSeen' = pcSeen \cup {item.elem}
      /\ pcExhausted' = pcExhausted \cup rejected
      /\ rejected # {} => pcNodes' = pcNodes /\ pcQueue' = rest
      /\ rejected = {} =>
           /\ pcNodes' = pcNodes \cup {item.elem}
           /\ pcQueue' =
                LET queued == queued_children(kids, item.depth, Cardinality(pcNodes) + 1 + Len(rest))
                IN  rest \o [k \in DOMAIN queued |-> Walk(queued[k], item.depth + 1)]
  <2> HIDE DEF kids, rejected
  <2> QED
    BY <1>3, <1>5, Zenon DEF observe_bounded_tree, kids, rejected
<1> HIDE DEF kids, rejected
<1>7. CASE rejected # {}
  <2>1. pcExhausted' # {}
    BY <1>6, <1>7
  <2>2. WalkOK(pcTree, rest, pcSeen \cup {item.elem}, pcNodes, pcExhausted')
    <3>1. Len(pcQueue) >= 1 /\ Len(rest) = Len(pcQueue) - 1
      BY <1>3
    <3>2. \A i \in 1..Len(rest) : rest[i] = pcQueue[i + 1]
      BY <1>3
    <3> HIDE DEF item
    <3> QED
      BY <1>1, <1>4, <2>1, <3>1, <3>2, WalkRejects
  <2> QED
    BY <1>6, <1>7, <2>2
<1>8. CASE rejected = {}
  <2>1. item.depth <= DepthBudget /\ Cardinality(pcNodes) < NodeBudget
    <3>1. \A b \in {"nodes", "depth", "properties"} :
            ~ (\/ b = "nodes" /\ Cardinality(pcNodes) >= NodeBudget
               \/ b = "depth" /\ item.depth > DepthBudget)
      BY <1>8, Zenon DEF rejected, admit_node
    <3>2. ~(Cardinality(pcNodes) >= NodeBudget) /\ ~(item.depth > DepthBudget)
      BY <3>1
    <3>3. Cardinality(pcNodes) \in Nat
      <4>1. PICK b \in Int : Elements(pcTree) = 1..b
        BY <1>1, TreeElements
      <4>2. IsFiniteSet(Elements(pcTree))
        BY <4>1, FS_Interval
      <4>3. pcNodes \in SUBSET Elements(pcTree)
        BY <1>1 DEF WalkOK
      <4> QED
        BY <4>2, <4>3, FS_Subset, FS_CardinalityType
    <3> QED
      BY <1>5, <3>2, <3>3, PostconditionAssumption
  <2>2. KidsOK(pcTree, kids, item.elem)
    <3> HIDE DEF item
    <3>1. KidsOK(pcTree, Kids(pcTree, item.elem), item.elem)
      BY <1>1, <1>5, KidsAre
    <3> QED
      BY <3>1 DEF kids
  <2>3. PICK depth \in Nat, held \in Nat, n \in Nat :
          /\ depth = item.depth /\ held = Cardinality(pcNodes) + 1 + r /\ n = Len(kids)
    <3>1. kids \in Seq(Elements(pcTree))
      BY <2>2 DEF KidsOK
    <3>2. Cardinality(pcNodes) \in Nat
      <4>1. PICK b \in Int : Elements(pcTree) = 1..b
        BY <1>1, TreeElements
      <4>2. IsFiniteSet(Elements(pcTree))
        BY <4>1, FS_Interval
      <4>3. pcNodes \in SUBSET Elements(pcTree)
        BY <1>1 DEF WalkOK
      <4> QED
        BY <4>2, <4>3, FS_Subset, FS_CardinalityType
    <3>3. Cardinality(pcNodes) + 1 + r \in Nat /\ Len(kids) \in Nat
      BY <3>1, <3>2
    <3> QED
      BY <1>5, <3>3
  <2>4. PICK m \in 0..n :
          /\ queued_children(kids, depth, held) = SubSeq(kids, 1, m)
          /\ m < n => held + m > NodeBudget \/ (m >= 1 /\ depth + 1 > DepthBudget)
    <3>1. kids \in Seq(Elements(pcTree))
      BY <2>2 DEF KidsOK
    <3>2. \E m \in 0..Len(kids) :
             /\ queued_children(kids, depth, held) = SubSeq(kids, 1, m)
             /\ m < Len(kids) => held + m > NodeBudget \/ (m >= 1 /\ depth + 1 > DepthBudget)
      BY <3>1, QueuedAre, Zenon
    <3> QED
      BY <2>3, <3>2
  <2>5. PICK queued \in Seq(Elements(pcTree)) :
          /\ queued = queued_children(kids, depth, held) /\ Len(queued) = m
          /\ \A k \in 1..m : queued[k] = kids[k]
    <3>1. kids \in Seq(Elements(pcTree)) /\ m <= Len(kids) /\ m \in Nat
      BY <2>2, <2>3, <2>4 DEF KidsOK
    <3>2. /\ SubSeq(kids, 1, m) \in Seq(Elements(pcTree)) /\ Len(SubSeq(kids, 1, m)) = m
          /\ \A k \in 1..m : SubSeq(kids, 1, m)[k] = kids[k]
      BY <3>1
    <3> QED
      BY <2>4, <3>2
  <2>6. PICK tail : tail = [k \in 1..m |-> Walk(queued[k], depth + 1)]
    OBVIOUS
  <2>7. tail \in Seq(WalkItems(pcTree)) /\ Len(tail) = m /\ \A k \in 1..m : tail[k] = Walk(kids[k], depth + 1)
    <3>1. \A k \in 1..m : Walk(queued[k], depth + 1) \in WalkItems(pcTree)
      BY <2>5 DEF Walk, WalkItems
    <3>2. tail \in [1..m -> WalkItems(pcTree)] /\ m \in Nat
      BY <2>4, <2>6, <3>1
    <3>3. tail \in Seq(WalkItems(pcTree)) /\ Len(tail) = m
      BY <3>2
    <3>4. \A k \in 1..m : tail[k] = Walk(queued[k], depth + 1)
      BY <2>6
    <3> QED
      BY <2>5, <3>3, <3>4
  <2>8. pcQueue' = rest \o tail
    <3>1. DOMAIN queued = 1..m
      BY <2>5
    <3> QED
      BY <1>3, <1>6, <1>8, <2>3, <2>5, <2>6, <3>1
  <2>9. PICK next \in Seq(WalkItems(pcTree)) : next = pcQueue' /\ NextIs(next, pcQueue, kids, r, m, depth)
    <3>1. /\ rest \o tail \in Seq(WalkItems(pcTree)) /\ Len(rest \o tail) = r + m
          /\ \A i \in 1..r : (rest \o tail)[i] = rest[i]
          /\ \A k \in 1..m : (rest \o tail)[r + k] = tail[k]
      <4>1. r = Len(rest) /\ m = Len(tail) /\ tail \in Seq(WalkItems(pcTree))
        BY <1>3, <2>7
      <4> QED
        BY <4>1
    <3>2. NextIs(rest \o tail, pcQueue, kids, r, m, depth)
      BY <1>3, <2>7, <3>1 DEF NextIs
    <3> QED
      BY <2>8, <3>1, <3>2
  <2>10. WalkOK(pcTree, next, pcSeen \cup {item.elem}, pcNodes \cup {item.elem}, pcExhausted)
    <3>1. m < n => \/ Cardinality(pcNodes) + 1 + r + m > NodeBudget
                   \/ m >= 1 /\ depth + 1 > DepthBudget
      BY <2>3, <2>4
    <3>2. item.elem = pcQueue[1].elem /\ depth = pcQueue[1].depth /\ depth <= DepthBudget
      BY <1>4, <2>1, <2>3
    <3> HIDE DEF item
    <3> QED
      BY <1>1, <1>3, <2>1, <2>2, <2>3, <2>9, <3>1, <3>2, WalkAdmits
  <2> QED
    BY <1>6, <1>8, <2>9, <2>10
<1> QED
  BY <1>7, <1>8

\* What a matcher counts is whether there is one, and none of what there is not.
LEMMA MatchingSome ==
  ASSUME TreeOK(pcTree), NEW X \in SUBSET Elements(pcTree)
  PROVE  /\ Matching(X) \in Nat
         /\ Matching(X) > 0 <=> X \cap pcTree.matching # {}
<1>1. IsFiniteSet(Elements(pcTree))
  <2>1. PICK b \in Int : Elements(pcTree) = 1..b
    BY TreeElements
  <2> QED
    BY <2>1, FS_Interval
<1>2. PICK Y : Y = X \cap pcTree.matching /\ Y \in SUBSET Elements(pcTree)
  OBVIOUS
<1>3. IsFiniteSet(Y) /\ Cardinality(Y) \in Nat
  BY <1>1, <1>2, FS_Subset, FS_CardinalityType
<1>4. Cardinality(Y) = 0 <=> Y = {}
  BY <1>3, FS_EmptySet
<1> QED
  BY <1>2, <1>3, <1>4 DEF Matching

\* Whole holds elements of the interface only.
LEMMA WholeWithin ==
  ASSUME NEW t, TreeOK(t), NEW provider
  PROVE  Whole(t, provider) \subseteq Elements(t)
  BY WholeIs

\* What evaluation says of one contract.
Honest(ref, status) ==
  status # "unknown" =>
    /\ decode(ref, STANDARD_SCHEMAS) /\ ref.schema[1] = pcProvider
    /\ \/ pcProvider = "native" /\ pcTree.twice.of # 0
       \/ pcProvider = "web" /\ (status = "verified_pass" <=> ref.want = "absent")
       \/ status = Truth(ref)

\* A native contract is judged on the interface as a whole (evaluate_native_semantic).
LEMMA NativeIsHonest ==
  ASSUME PostInv, pcStep = "observed", pcComplete, pcProvider = "native", NEW ref
  PROVE  Honest(ref, evaluate_native_semantic(ref))
<1>1. evaluate_native_semantic(ref) # "unknown" =>
        /\ decode(ref, STANDARD_SCHEMAS) /\ ref.schema[1] = "native"
        /\ evaluate_native_semantic(ref) = StatusOf(Passes(ref, Matching(pcNodes)))
  BY Zenon DEF evaluate_native_semantic
<1>2. pcTree.twice.of = 0 => pcNodes = Whole(pcTree, "native")
  BY NativeWhole DEF PostInv, Gathered
<1>3. pcTree.twice.of = 0 => Truth(ref) = StatusOf(Passes(ref, Matching(pcNodes)))
  BY <1>2 DEF Truth
<1> QED
  BY <1>1, <1>3 DEF Honest

\* What a page was seen to hold it holds, so a failed contract really failed
\* (evaluate_web_semantic).
LEMMA WebIsHonest ==
  ASSUME PostInv, pcStep = "observed", pcComplete, pcProvider = "web", NEW ref, RefOK(ref)
  PROVE  Honest(ref, evaluate_web_semantic(ref))
<1>1. CASE ~(decode(ref, STANDARD_SCHEMAS) /\ ref.schema = <<"web", 1>>)
  BY <1>1 DEF evaluate_web_semantic, Honest
<1>2. CASE decode(ref, STANDARD_SCHEMAS) /\ ref.schema = <<"web", 1>>
  <2>1. ref.schema[1] = "web" /\ ref.want \in {"present", "absent"}
    BY <1>2 DEF RefOK
  <2>2. evaluate_web_semantic(ref) = StatusOf(Passes(ref, Matching(pcNodes)))
    BY <1>2, Zenon DEF evaluate_web_semantic
  <2>3. PICK w : w = Whole(pcTree, "web") /\ w \in SUBSET Elements(pcTree) /\ pcNodes \subseteq w
    BY WholeWithin DEF PostInv, Gathered
  <2>4. PICK n \in Nat, a \in Nat :
          n = Matching(pcNodes) /\ a = Matching(w) /\ (n > 0 => a > 0)
    <3>1. TreeOK(pcTree)
      BY DEF PostInv
    <3>2. Matching(w) \in Nat /\ (Matching(w) > 0 <=> w \cap pcTree.matching # {})
      BY <2>3, <3>1, MatchingSome
    <3>3. Matching(pcNodes) \in Nat /\ (Matching(pcNodes) > 0 <=> pcNodes \cap pcTree.matching # {})
      BY <2>3, <3>1, MatchingSome
    <3>4. pcNodes \cap pcTree.matching # {} => w \cap pcTree.matching # {}
      BY <2>3
    <3> QED
      BY <3>2, <3>3, <3>4
  <2>5. Truth(ref) = StatusOf(Passes(ref, a))
    BY <2>3, <2>4 DEF Truth
  <2>6. CASE ref.want = "present"
    <3>1. Passes(ref, n) = (n > 0) /\ Passes(ref, a) = (a > 0)
      BY <2>6 DEF Passes
    <3> QED
      BY <1>2, <2>1, <2>2, <2>4, <2>5, <2>6, <3>1 DEF Honest, StatusOf
  <2>7. CASE ref.want = "absent"
    <3>1. Passes(ref, n) = (n = 0) /\ Passes(ref, a) = (a = 0)
      BY <2>7 DEF Passes
    <3>2. CASE n > 0
      <4>1. n # 0 /\ a # 0
        BY <2>4, <3>2
      <4>2. ~Passes(ref, n) /\ ~Passes(ref, a)
        BY <3>1, <4>1
      <4>3. evaluate_web_semantic(ref) = Truth(ref)
        BY <2>2, <2>4, <2>5, <4>2 DEF StatusOf
      <4> QED
        BY <1>2, <2>1, <4>3 DEF Honest
    <3>3. CASE n = 0
      <4>1. Passes(ref, n)
        BY <3>1, <3>3
      <4>2. evaluate_web_semantic(ref) = "verified_pass"
        BY <2>2, <2>4, <4>1 DEF StatusOf
      <4> QED
        BY <1>2, <2>1, <2>7, <4>2 DEF Honest
    <3> QED
      BY <2>4, <3>2, <3>3
  <2> QED
    BY <2>1, <2>6, <2>7
<1> QED
  BY <1>1, <1>2

\* A verdict of success is of contracts that all passed.
LEMMA VerdictIsOfAll ==
  ASSUME NEW evidence, verdict(evidence) = "verified_expected"
  PROVE  \A ref \in DOMAIN evidence : evidence[ref] = "verified_pass"
<1>1. CASE \E ref \in DOMAIN evidence : evidence[ref] = "verified_fail"
  <2>1. ~ \A ref \in DOMAIN evidence : evidence[ref] = "verified_pass"
    BY <1>1
  <2> QED
    BY <1>1, <2>1 DEF verdict
<1>2. CASE ~ \E ref \in DOMAIN evidence : evidence[ref] = "verified_fail"
  BY <1>2 DEF verdict
<1> QED
  BY <1>1, <1>2

\* The invariant holds of every observation, walk and verdict.
LEMMA PostInvariant == PostSpec => []PostInv
<1>1. PostInit => PostInv
  <2> SUFFICES ASSUME PostInit PROVE PostInv
    OBVIOUS
  <2>1. TreeOK(pcTree) /\ pcProvider \in {"native", "web"}
    BY PostconditionAssumption DEF PostInit
  <2>2. WalkOK(pcTree, pcQueue, pcSeen, pcNodes, pcExhausted)
    BY <2>1, WalkStarts DEF PostInit
  <2>3. PostconditionsFailClosed
    BY DEF PostInit, PostconditionsFailClosed
  <2> QED
    BY <2>1, <2>2, <2>3 DEF PostInit, PostInv
<1>2. PostInv /\ [PostNext]_pcVars => PostInv'
  <2> SUFFICES ASSUME PostInv, [PostNext]_pcVars PROVE PostInv'
    OBVIOUS
  <2>1. CASE observe_bounded_tree
    <3>1. /\ pcProvider = "native" /\ pcStep = "observing"
          /\ UNCHANGED <<pcProvider, pcTree, pcStep, pcComplete, pcEvidence, pcVerdict>>
      BY <2>1 DEF observe_bounded_tree
    <3>2. PostconditionsFailClosed'
      BY <3>1, FailClosedStays DEF PostInv
    <3>3. pcTree.twice.of = 0 => WalkOK(pcTree, pcQueue', pcSeen', pcNodes', pcExhausted')
      BY <2>1, WalkKeeps
    <3> QED
      BY <3>1, <3>2, <3>3 DEF PostInv
  <2>2. CASE publish
    <3>1. /\ pcProvider = "native" /\ pcStep = "observing" /\ pcQueue = <<>>
          /\ pcStep' = "observed" /\ (pcComplete' => pcExhausted = {})
          /\ UNCHANGED <<pcProvider, pcTree, pcNodes, pcEvidence, pcVerdict>>
      BY <2>2 DEF publish, pcWalkVars
    <3>2. PostconditionsFailClosed'
      BY <3>1, FailClosedStays DEF PostInv
    <3>3. pcComplete' /\ pcTree.twice.of = 0 => pcNodes = Elements(pcTree)
      <4> SUFFICES ASSUME pcComplete', pcTree.twice.of = 0 PROVE pcNodes = Elements(pcTree)
        OBVIOUS
      <4>1. TreeOK(pcTree) /\ WalkOK(pcTree, <<>>, pcSeen, pcNodes, {})
        BY <3>1 DEF PostInv
      <4> QED
        BY <4>1, WalkEnds
    <3> QED
      BY <3>1, <3>2, <3>3 DEF PostInv, Gathered
  <2>3. CASE reconciliation_snapshot
    <3>1. /\ pcProvider = "web" /\ pcStep' = "observed" /\ pcNodes' = semanticTree(pcTree)
          /\ UNCHANGED <<pcProvider, pcTree, pcEvidence, pcVerdict>>
      BY <2>3 DEF reconciliation_snapshot
    <3>2. PostconditionsFailClosed'
      BY <3>1, FailClosedStays DEF PostInv
    <3>3. pcNodes' \subseteq Whole(pcTree, "web")
      BY <3>1, PageWithinWhole DEF PostInv
    <3> QED
      BY <3>1, <3>2, <3>3 DEF PostInv, Gathered
  <2>4. CASE reconcile_consequential_postconditions
    <3>1. PICK refs \in SUBSET ContractRefs : pcEvidence' = exact_observed_postconditions(refs)
      BY <2>4 DEF reconcile_consequential_postconditions
    <3>2. /\ pcStep = "observed" /\ pcComplete /\ pcVerdict' = verdict(pcEvidence') /\ pcStep' = "judged"
          /\ UNCHANGED <<pcProvider, pcTree, pcNodes, pcComplete>>
      BY <2>4 DEF reconcile_consequential_postconditions, pcWalkVars
    <3>3. DOMAIN pcEvidence' = refs
      BY <3>1 DEF exact_observed_postconditions
    <3>4. ASSUME NEW ref \in refs PROVE Honest(ref, pcEvidence'[ref])
      <4>1. RefOK(ref)
        BY PostconditionAssumption
      <4>2. CASE pcProvider = "web"
        <5>1. pcEvidence'[ref] = evaluate_web_semantic(ref)
          BY <3>1, <4>2 DEF exact_observed_postconditions
        <5> QED
          BY <3>2, <4>1, <4>2, <5>1, WebIsHonest
      <4>3. CASE pcProvider = "native"
        <5>1. pcEvidence'[ref] = evaluate_native_semantic(ref)
          BY <3>1, <4>3 DEF exact_observed_postconditions
        <5> QED
          BY <3>2, <4>3, <5>1, NativeIsHonest
      <4> QED
        BY <4>2, <4>3 DEF PostInv
    <3>5. pcVerdict' = "verified_expected" => \A ref \in DOMAIN pcEvidence' : pcEvidence'[ref] = "verified_pass"
      BY <3>2, VerdictIsOfAll
    <3>6. \A ref : Truth(ref)' = Truth(ref)
      BY <3>2 DEF Truth, Matching
    <3>7. PostconditionsFailClosed'
      BY <3>2, <3>3, <3>4, <3>5, <3>6 DEF PostconditionsFailClosed, Honest
    <3> QED
      BY <3>2, <3>7 DEF PostInv
  <2>5. CASE UNCHANGED pcVars
    <3>1. PostconditionsFailClosed'
      BY <2>5, FailClosedStays DEF PostInv, pcVars
    <3> QED
      BY <2>5, <3>1 DEF PostInv, pcVars
  <2> QED
    BY <2>1, <2>2, <2>3, <2>4, <2>5 DEF PostNext
<1> QED
  BY <1>1, <1>2, PTL DEF PostSpec

\* For interfaces, budgets and contracts of every size: a verified status is of the
\* interface as it is, within what the property excepts (observe_bounded_tree,
\* semanticTree, evaluate_native_semantic and evaluate_web_semantic).
THEOREM PostconditionsStayClosed == PostSpec => []PostconditionsFailClosed
<1>1. PostInv => PostconditionsFailClosed
  BY DEF PostInv
<1> QED
  BY <1>1, PostInvariant, PTL
=============================================================================
