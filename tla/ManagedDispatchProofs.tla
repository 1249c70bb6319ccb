----------------------- MODULE ManagedDispatchProofs -----------------------
(***************************************************************************)
(* Proofs about ManagedConsequential: what an executor is handed, what it  *)
(* may still do when its effects are observed, and what the journal says   *)
(* of it.                                                                  *)
(***************************************************************************)
EXTENDS ManagedConsequentialProofs

-----------------------------------------------------------------------------
(***************************************************************************)
(* Nothing is observed before the executor has reported.                   *)
(***************************************************************************)
\* The report of an action is under way before anything is done about it.
ResultIsReported ==
  \A i \in Surfaces :
    request[i].result # NoAction => reported[request[i].result] # "no"

\* Until the executor reports, no reconciliation has begun.
ObservedIsReported ==
  \A a \in Actions :
    reported[a] = "no" =>
      /\ task[a] = "idle" /\ grant[a] # "observation"
      /\ stage[a] \notin {"unverified", "verified", "committed"}

\* Every step leaves the report of each result under way.
LEMMA NextResultIsReported ==
  ASSUME ResultIsReported, RequestShape, WorldShape, [Next]_vars
  PROVE  ResultIsReported'
<1> USE DEF ResultIsReported, RequestShape, RequestType, WorldShape
<1>1. ASSUME NEW i \in Surfaces, surface_request_dropped(i)
      PROVE  ResultIsReported'
  BY <1>1 DEF surface_request_dropped, Idle, world
<1>2. ASSUME NEW a \in Actions, complete_action(a)
      PROVE  ResultIsReported'
  BY <1>2 DEF complete_action
<1>3. ASSUME NEW i \in Surfaces, take_surface_actions(i)
      PROVE  ResultIsReported'
  BY <1>3 DEF take_surface_actions, Idle, world
<1>4. ASSUME NEW i \in Surfaces, NEW a \in Actions, complete_surface_action(i, a)
      PROVE  ResultIsReported'
  BY <1>4 DEF complete_surface_action, Idle
<1>5. ASSUME NEW i \in Surfaces, ensure_managed_surface_action_authority(i)
      PROVE  ResultIsReported'
  BY <1>5 DEF ensure_managed_surface_action_authority, world
<1>6. ASSUME NEW i \in Surfaces, ensure_managed_surface_observation_binding(i)
      PROVE  ResultIsReported'
  BY <1>6 DEF ensure_managed_surface_observation_binding, world
<1>7. ASSUME NEW i \in Surfaces, take_managed_surface_actions(i)
      PROVE  ResultIsReported'
  BY <1>7 DEF take_managed_surface_actions, Drained, world
<1>8. ASSUME NEW i \in Surfaces, arm_begin(i)
      PROVE  ResultIsReported'
  BY <1>8 DEF arm_begin, world
<1>9. ASSUME NEW i \in Surfaces, NEW a \in Actions, arm_untracked(i, a)
      PROVE  ResultIsReported'
  BY <1>9 DEF arm_untracked, world
<1>10. ASSUME NEW i \in Surfaces, NEW a \in Actions, arm_tracked(i, a)
       PROVE  ResultIsReported'
  BY <1>10 DEF arm_tracked, world
<1>11. ASSUME NEW i \in Surfaces, arm_exchange(i)
       PROVE  ResultIsReported'
  BY <1>11 DEF arm_exchange, world
<1>12. ASSUME NEW i \in Surfaces, NEW a \in Actions, arm_without_capability(i, a)
       PROVE  ResultIsReported'
  BY <1>12 DEF arm_without_capability, Withheld, world
<1>13. ASSUME NEW i \in Surfaces, NEW a \in Actions, reject_managed_action_before_executor(i, a)
       PROVE  ResultIsReported'
  BY <1>13 DEF reject_managed_action_before_executor, Withheld, world
<1>14. ASSUME NEW i \in Surfaces, take_return(i)
       PROVE  ResultIsReported'
  BY <1>14 DEF take_return, Idle
<1>15. ASSUME NEW i \in Surfaces, complete_managed_surface_action(i)
       PROVE  ResultIsReported'
  BY <1>15 DEF complete_managed_surface_action, Idle
<1>16. ASSUME NEW i \in Surfaces, record_managed_consequential_executor_completion(i)
       PROVE  ResultIsReported'
  BY <1>16 DEF record_managed_consequential_executor_completion, Idle
<1>17. ASSUME Handlers
       PROVE  UNCHANGED <<request, reported>>
  BY <1>17 DEF Handlers, plan, plan_snapshot, plan_bind, plan_refused, plan_admit, confirm,
        confirm_refused, confirm_authorize, confirm_prepare, confirm_hold, confirm_enqueue,
        world
<1>18. ASSUME NEW i \in Surfaces, Worker(i)
       PROVE  \/ UNCHANGED <<request, reported>>
              \/ take_surface_actions(i)
              \/ \E a \in Actions : complete_surface_action(i, a)
              \/ ensure_managed_surface_action_authority(i)
              \/ ensure_managed_surface_observation_binding(i)
              \/ take_managed_surface_actions(i)
              \/ arm_begin(i)
              \/ \E a \in Actions : arm_untracked(i, a)
              \/ \E a \in Actions : arm_tracked(i, a)
              \/ arm_exchange(i)
              \/ \E a \in Actions : arm_without_capability(i, a)
              \/ \E a \in Actions : reject_managed_action_before_executor(i, a)
              \/ take_return(i)
              \/ complete_managed_surface_action(i)
              \/ record_managed_consequential_executor_completion(i)
  BY <1>18 DEF Worker, world
<1>19. ASSUME NEW a \in Actions, Reconcile(a)
       PROVE  UNCHANGED <<request, reported>>
  BY <1>19 DEF Reconcile, reconcile_begin, reconcile_capture, abandon_postcondition_observation,
        reconcile_admit, reconcile_consequential_postconditions, record_committed, world
<1>20. ASSUME Release
       PROVE  UNCHANGED <<request, reported>>
  BY <1>20 DEF Release, release_collect, release_report, release_records, release_session, world
<1>21. ASSUME Surroundings
       PROVE  \/ UNCHANGED <<request, reported>>
              \/ \E i \in Surfaces : surface_request_dropped(i)
              \/ \E a \in Actions : complete_action(a)
  BY <1>21 DEF Surroundings, session_removed, request_dropped, take_actions,
        clear_managed_surface_action_authority, release_provider_observation,
        reap_expired_surface_owner, activate_surface_resource, release_surface_resource,
        prune_expired, prune_expired_reconciliations, executor_acts,
        request_action_cancellation, Forget, push_bounded, world
<1> QED
  BY <1>1, <1>2, <1>3, <1>4, <1>5, <1>6, <1>7, <1>8, <1>9, <1>10, <1>11, <1>12, <1>13, <1>14,
     <1>15, <1>16, <1>17, <1>18, <1>19, <1>20, <1>21 DEF Next, vars, world

\* Every step leaves an action that was not reported without an observation.
LEMMA NextObservedIsReported ==
  ASSUME ObservedIsReported, ResultIsReported, RequestShape, GateShape, WorldShape, JournalShape, TaskShape, [Next]_vars
  PROVE  ObservedIsReported'
<1> USE DEF ObservedIsReported
<1>1. ASSUME plan_admit
      PROVE  ObservedIsReported'
  BY <1>1 DEF plan_admit, WorldShape, JournalShape, TaskShape, GateShape, GateHoldsAction, world
<1>2. ASSUME confirm_authorize
      PROVE  ObservedIsReported'
  BY <1>2 DEF confirm_authorize, WorldShape, JournalShape, TaskShape, GateShape,
        GateHoldsAction, world
<1>3. ASSUME confirm_prepare
      PROVE  ObservedIsReported'
  BY <1>3 DEF confirm_prepare, WorldShape, JournalShape, TaskShape, GateShape, GateHoldsAction,
        world
<1>4. ASSUME confirm_enqueue
      PROVE  ObservedIsReported'
  BY <1>4 DEF confirm_enqueue, RuleOut, WorldShape, JournalShape, TaskShape, GateShape,
        GateHoldsAction, journal, world
<1>5. ASSUME release_report
      PROVE  ObservedIsReported'
  BY <1>5 DEF release_report, RuleOut, WorldShape, JournalShape, TaskShape, world
<1>6. ASSUME NEW a \in Actions, complete_action(a)
      PROVE  ObservedIsReported'
  BY <1>6 DEF complete_action, WorldShape, JournalShape, TaskShape, journal
<1>7. ASSUME NEW i \in Surfaces, NEW a \in Actions, complete_surface_action(i, a)
      PROVE  ObservedIsReported'
  BY <1>7 DEF complete_surface_action, WorldShape, JournalShape, TaskShape, RequestShape,
        journal
<1>8. ASSUME NEW i \in Surfaces, arm_exchange(i)
      PROVE  ObservedIsReported'
  BY <1>8, RequestFields DEF arm_exchange, WorldShape, JournalShape, TaskShape, RequestShape,
        world
<1>9. ASSUME NEW i \in Surfaces, NEW a \in Actions, reject_managed_action_before_executor(i, a)
      PROVE  ObservedIsReported'
  BY <1>9 DEF reject_managed_action_before_executor, Arming, Withheld, RuleOut, WorldShape,
        JournalShape, TaskShape, world
<1>10. ASSUME NEW i \in Surfaces, complete_managed_surface_action(i)
       PROVE  ObservedIsReported'
  BY <1>10, RequestFields DEF complete_managed_surface_action, WorldShape, JournalShape,
        TaskShape, RequestShape, journal
<1>11. ASSUME NEW i \in Surfaces, record_managed_consequential_executor_completion(i)
       PROVE  ObservedIsReported'
  <2> DEFINE r == request[i].result
  <2>1. r # NoAction => reported[r] # "no"
    BY DEF ResultIsReported
  <2>2. r = NoAction => r \notin Actions
    BY ConstantsAssumption
  <2>3. /\ \A b \in Actions : b # r => /\ task'[b] = task[b] /\ reported'[b] = reported[b]
                                      /\ grant'[b] = grant[b] /\ stage'[b] = stage[b]
        /\ r \in Actions => reported'[r] \in {reported[r], "settled"}
    BY <1>11 DEF record_managed_consequential_executor_completion, WorldShape, JournalShape,
          TaskShape, journal
  <2> QED
    BY <2>1, <2>2, <2>3
<1>12. ASSUME NEW a \in Actions, reconcile_begin(a)
       PROVE  ObservedIsReported'
  BY <1>12 DEF reconcile_begin, Advance, set_reconciliation_required, WorldShape, JournalShape,
        TaskShape, world
<1>13. ASSUME NEW a \in Actions, reconcile_capture(a)
       PROVE  ObservedIsReported'
  BY <1>13 DEF reconcile_capture, Advance, WorldShape, JournalShape, TaskShape, journal
<1>14. ASSUME NEW a \in Actions, abandon_postcondition_observation(a)
       PROVE  ObservedIsReported'
  BY <1>14 DEF abandon_postcondition_observation, set_reconciliation_required, WorldShape,
        JournalShape, TaskShape, world
<1>15. ASSUME NEW a \in Actions, reconcile_admit(a)
       PROVE  ObservedIsReported'
  BY <1>15 DEF reconcile_admit, Advance, WorldShape, JournalShape, TaskShape, world
<1>16. ASSUME NEW a \in Actions, reconcile_consequential_postconditions(a)
       PROVE  ObservedIsReported'
  BY <1>16 DEF reconcile_consequential_postconditions, Advance, set_reconciliation_required,
        WorldShape, JournalShape, TaskShape, world
<1>17. ASSUME NEW a \in Actions, record_committed(a)
       PROVE  ObservedIsReported'
  BY <1>17 DEF record_committed, Advance, set_reconciliation_required, WorldShape, JournalShape,
        TaskShape, world
<1>18. ASSUME Handlers
       PROVE  \/ UNCHANGED <<reported, task, grant, stage>>
              \/ plan_admit
              \/ confirm_authorize
              \/ confirm_prepare
              \/ confirm_enqueue
  BY <1>18 DEF Handlers, plan, plan_snapshot, plan_bind, plan_refused, confirm, confirm_refused,
        confirm_hold, journal, world
<1>19. ASSUME NEW i \in Surfaces, Worker(i)
       PROVE  \/ UNCHANGED <<reported, task, grant, stage>>
              \/ \E a \in Actions : complete_surface_action(i, a)
              \/ arm_exchange(i)
              \/ \E a \in Actions : reject_managed_action_before_executor(i, a)
              \/ complete_managed_surface_action(i)
              \/ record_managed_consequential_executor_completion(i)
  BY <1>19 DEF Worker, take_surface_actions, ensure_managed_surface_action_authority,
        ensure_managed_surface_observation_binding, take_managed_surface_actions, arm_begin,
        arm_untracked, arm_tracked, arm_without_capability, Withheld, take_return, journal,
        world
<1>20. ASSUME NEW a \in Actions, Reconcile(a)
       PROVE  \/ UNCHANGED <<reported, task, grant, stage>>
              \/ reconcile_begin(a)
              \/ reconcile_capture(a)
              \/ abandon_postcondition_observation(a)
              \/ reconcile_admit(a)
              \/ reconcile_consequential_postconditions(a)
              \/ record_committed(a)
  BY <1>20 DEF Reconcile, journal, world
<1>21. ASSUME Release
       PROVE  \/ UNCHANGED <<reported, task, grant, stage>>
              \/ release_report
  BY <1>21 DEF Release, release_collect, release_records, release_session, journal, world
<1>22. ASSUME Surroundings
       PROVE  \/ UNCHANGED <<reported, task, grant, stage>>
              \/ \E a \in Actions : complete_action(a)
  BY <1>22 DEF Surroundings, session_removed, request_dropped, take_actions,
        clear_managed_surface_action_authority, release_provider_observation,
        reap_expired_surface_owner, activate_surface_resource, release_surface_resource,
        surface_request_dropped, prune_expired, prune_expired_reconciliations, executor_acts,
        request_action_cancellation, Forget, push_bounded, journal, world
<1> QED
  BY <1>1, <1>2, <1>3, <1>4, <1>5, <1>6, <1>7, <1>8, <1>9, <1>10, <1>11, <1>12, <1>13, <1>14,
     <1>15, <1>16, <1>17, <1>18, <1>19, <1>20, <1>21, <1>22 DEF Next, vars, journal, world

\* What the proof needs of every step.
ReportInv == ShapeInv /\ ResultIsReported /\ ObservedIsReported

\* Results and observations are of reported actions in every reachable state.
LEMMA ReportInvariant == Spec => []ReportInv
<1>1. ASSUME Init PROVE ReportInv
  BY <1>1, InitShape DEF Init, Idle, ReportInv, ResultIsReported, ObservedIsReported
<1>2. ASSUME ReportInv, [Next]_vars PROVE ReportInv'
  <2>1. /\ ShapeInv /\ ResultIsReported /\ ObservedIsReported
        /\ WorldShape /\ JournalShape /\ TaskShape /\ GateShape /\ RequestShape
    BY <1>2 DEF ReportInv, ShapeInv, Shape, GateShape, RequestShape, TaskShape
  <2> QED
    BY <1>2, <2>1, NextShape, NextResultIsReported, NextObservedIsReported DEF ReportInv
<1> QED
  BY <1>1, <1>2, PTL DEF Spec

\* A page changes for an action only while nothing has been observed of it:
\* complete_surface_action has not been called, so no reconciliation runs
\* (schedule_managed_consequential_reconciliation), no observation grant is
\* live and the journal holds no verdict.
THEOREM ObservationAfterEffects == Spec => EffectsPrecedeObservation
<1>1. ASSUME ReportInv, [Next]_vars, NEW a \in acted' \ acted
      PROVE  /\ task[a] = "idle" /\ grant[a] # "observation"
             /\ stage[a] \notin {"unverified", "verified", "committed"}
  <2>1. ObservedIsReported
    BY <1>1 DEF ReportInv
  <2>2. a \in Actions /\ reported[a] = "no"
    <3>1. ASSUME Handlers
          PROVE  a \in Actions /\ reported[a] = "no"
      BY <1>1, <3>1 DEF Handlers, plan, plan_snapshot, plan_bind, plan_refused, plan_admit,
            confirm, confirm_refused, confirm_authorize, confirm_prepare, confirm_hold,
            confirm_enqueue, world
    <3>2. ASSUME NEW i \in Surfaces, Worker(i)
          PROVE  a \in Actions /\ reported[a] = "no"
      BY <1>1, <3>2 DEF Worker, take_surface_actions, complete_surface_action,
            ensure_managed_surface_action_authority, ensure_managed_surface_observation_binding,
            take_managed_surface_actions, arm_begin, arm_untracked, arm_tracked, arm_exchange,
            arm_without_capability, Withheld, reject_managed_action_before_executor,
            take_return, complete_managed_surface_action,
            record_managed_consequential_executor_completion, world
    <3>3. ASSUME NEW b \in Actions, Reconcile(b)
          PROVE  a \in Actions /\ reported[a] = "no"
      BY <1>1, <3>3 DEF Reconcile, reconcile_begin, reconcile_capture,
            abandon_postcondition_observation, reconcile_admit,
            reconcile_consequential_postconditions, record_committed, world
    <3>4. ASSUME Release
          PROVE  a \in Actions /\ reported[a] = "no"
      BY <1>1, <3>4 DEF Release, release_collect, release_report, release_records,
            release_session, world
    <3>5. ASSUME Surroundings
          PROVE  a \in Actions /\ reported[a] = "no"
      BY <1>1, <3>5 DEF Surroundings, session_removed, request_dropped, take_actions,
            clear_managed_surface_action_authority, release_provider_observation,
            reap_expired_surface_owner, activate_surface_resource, release_surface_resource,
            surface_request_dropped, prune_expired, prune_expired_reconciliations,
            complete_action, request_action_cancellation, Forget, push_bounded, world,
            executor_acts
    <3> QED
      BY <1>1, <3>1, <3>2, <3>3, <3>4, <3>5 DEF Next, vars, world
  <2> QED
    BY <2>1, <2>2 DEF ObservedIsReported
<1>2. ReportInv /\ [Next]_vars =>
        [\A a \in acted' \ acted :
           /\ task[a] = "idle" /\ grant[a] # "observation"
           /\ stage[a] \notin {"unverified", "verified", "committed"}]_vars
  BY <1>1
<1> QED
  BY <1>2, ReportInvariant, PTL DEF Spec, EffectsPrecedeObservation

-----------------------------------------------------------------------------
(***************************************************************************)
(* An action is at one place at a time.                                    *)
(***************************************************************************)
Held(i, a) == a \in request[i].batch \cup request[i].ready

\* Queued, drained into a request or handed out.
Sent(a) == a \in queue \/ delivered[a] # 0 \/ \E i \in Surfaces : Held(i, a)

\* The handler that holds the gate for a plan has not bound it yet; without
\* one of these handlers the gate names no action.
GateMarks ==
  /\ gate.step \in {"plan", "snapshot"} =>
       planned[gate.action] = 0 /\ gate.authority \in Surfaces
  /\ gate.step \in {"free", "release", "records"} => gate.action = NoAction

\* A capability is taken for an action of the batch, and exchanged before
\* anything else happens to the request.
CapabilityHeld ==
  \A i \in Surfaces :
    request[i].capability # NoAction =>
      request[i].step = "arming" /\ request[i].capability \in request[i].batch

\* What was never planned is nowhere.
UnplannedNowhere ==
  \A a \in Actions :
    planned[a] = 0 =>
      /\ a \notin pending \cup envelopes /\ ~Sent(a)
      /\ gate.action = a => gate.step \in {"plan", "snapshot"}

\* Once sent, an action has left its plan, its envelope and the gate; while it
\* has the gate, it has left its plan.
SentOnce ==
  \A a \in Actions :
    /\ Sent(a) => a \notin pending \cup envelopes /\ gate.action # a
    /\ gate.action = a => a \notin pending

\* Queue, requests and executor do not share an action.
HeldOnce ==
  \A a \in Actions :
    /\ a \in queue => delivered[a] = 0 /\ \A i \in Surfaces : ~Held(i, a)
    /\ \A i \in Surfaces :
         /\ Held(i, a) => delivered[a] = 0 /\ \A j \in Surfaces \ {i} : ~Held(j, a)
         /\ a \notin request[i].batch \cap request[i].ready

OneShotInv ==
  ShapeInv /\ GateMarks /\ CapabilityHeld /\ UnplannedNowhere /\ SentOnce /\ HeldOnce

\* Every step leaves the gate's marks true.
LEMMA NextGateMarks ==
  ASSUME GateMarks, GateShape, ControlShape, live \subseteq Surfaces, [Next]_vars
  PROVE  GateMarks'
<1> USE DEF GateMarks, GateShape, GateType, GateHoldsAction
<1>1. ASSUME NEW a \in Actions, plan(a)
      PROVE  GateMarks'
  BY <1>1, PrimaryIsLive DEF plan, primary_live_surface, Free, Holding, control
<1>2. ASSUME plan_snapshot
      PROVE  GateMarks'
  BY <1>2 DEF plan_snapshot, control
<1>3. ASSUME plan_bind
      PROVE  GateMarks'
  BY <1>3 DEF plan_bind, Free, Holding
<1>4. ASSUME plan_refused
      PROVE  GateMarks'
  BY <1>4 DEF plan_refused, Free, control
<1>5. ASSUME plan_admit
      PROVE  GateMarks'
  BY <1>5 DEF plan_admit, Free
<1>6. ASSUME NEW a \in Actions, confirm(a)
      PROVE  GateMarks'
  BY <1>6 DEF confirm, Free, Holding
<1>7. ASSUME confirm_refused
      PROVE  GateMarks'
  BY <1>7 DEF confirm_refused, Free, control
<1>8. ASSUME confirm_authorize
      PROVE  GateMarks'
  BY <1>8 DEF confirm_authorize, Free, Holding, control
<1>9. ASSUME confirm_prepare
      PROVE  GateMarks'
  BY <1>9 DEF confirm_prepare, Free, Holding, control
<1>10. ASSUME confirm_hold
       PROVE  GateMarks'
  BY <1>10 DEF confirm_hold, Free, Holding
<1>11. ASSUME confirm_enqueue
       PROVE  GateMarks'
  BY <1>11 DEF confirm_enqueue, Free
<1>12. ASSUME release_collect
       PROVE  GateMarks'
  BY <1>12 DEF release_collect, Free
<1>13. ASSUME release_report
       PROVE  GateMarks'
  BY <1>13 DEF release_report, control
<1>14. ASSUME release_records
       PROVE  GateMarks'
  BY <1>14 DEF release_records, Free
<1>15. ASSUME request_dropped
       PROVE  GateMarks'
  BY <1>15 DEF request_dropped, Free, control
<1>16. ASSUME Handlers
       PROVE  \/ UNCHANGED <<gate, planned>>
              \/ \E a \in Actions : plan(a)
              \/ plan_snapshot
              \/ plan_bind
              \/ plan_refused
              \/ plan_admit
              \/ \E a \in Actions : confirm(a)
              \/ confirm_refused
              \/ confirm_authorize
              \/ confirm_prepare
              \/ confirm_hold
              \/ confirm_enqueue
  BY <1>16 DEF Handlers, control
<1>17. ASSUME NEW i \in Surfaces, Worker(i)
       PROVE  UNCHANGED <<gate, planned>>
  BY <1>17 DEF Worker, take_surface_actions, complete_surface_action,
        ensure_managed_surface_action_authority, ensure_managed_surface_observation_binding,
        take_managed_surface_actions, arm_begin, arm_untracked, arm_tracked, arm_exchange,
        arm_without_capability, Withheld, reject_managed_action_before_executor, take_return,
        complete_managed_surface_action, record_managed_consequential_executor_completion,
        control
<1>18. ASSUME NEW a \in Actions, Reconcile(a)
       PROVE  UNCHANGED <<gate, planned>>
  BY <1>18 DEF Reconcile, reconcile_begin, reconcile_capture, abandon_postcondition_observation,
        reconcile_admit, reconcile_consequential_postconditions, record_committed, control
<1>19. ASSUME Release
       PROVE  \/ UNCHANGED <<gate, planned>>
              \/ release_collect
              \/ release_report
              \/ release_records
  BY <1>19 DEF Release, release_session, control
<1>20. ASSUME Surroundings
       PROVE  \/ UNCHANGED <<gate, planned>>
              \/ request_dropped
  BY <1>20 DEF Surroundings, session_removed, take_actions,
        clear_managed_surface_action_authority, release_provider_observation,
        reap_expired_surface_owner, activate_surface_resource, release_surface_resource,
        surface_request_dropped, prune_expired, prune_expired_reconciliations, executor_acts,
        complete_action, request_action_cancellation, Forget, push_bounded, control
<1> QED
  BY <1>1, <1>2, <1>3, <1>4, <1>5, <1>6, <1>7, <1>8, <1>9, <1>10, <1>11, <1>12, <1>13, <1>14,
     <1>15, <1>16, <1>17, <1>18, <1>19, <1>20 DEF Next, vars, control

\* Every step leaves a capability with the request that holds it.
LEMMA NextCapabilityHeld ==
  ASSUME CapabilityHeld, RequestShape, [Next]_vars
  PROVE  CapabilityHeld'
<1> USE DEF CapabilityHeld
<1>1. ASSUME NEW i \in Surfaces, surface_request_dropped(i)
      PROVE  CapabilityHeld'
  BY <1>1 DEF surface_request_dropped, RequestShape, RequestType, Idle
<1>2. ASSUME NEW i \in Surfaces, take_surface_actions(i)
      PROVE  CapabilityHeld'
  BY <1>2 DEF take_surface_actions, RequestShape, RequestType, Idle,
        validate_primary_surface_action_request
<1>3. ASSUME NEW i \in Surfaces, NEW a \in Actions, complete_surface_action(i, a)
      PROVE  CapabilityHeld'
  BY <1>3 DEF complete_surface_action, RequestShape, RequestType, Idle,
        validate_primary_surface_action_request
<1>4. ASSUME NEW i \in Surfaces, ensure_managed_surface_action_authority(i)
      PROVE  CapabilityHeld'
  BY <1>4 DEF ensure_managed_surface_action_authority, RequestShape, RequestType
<1>5. ASSUME NEW i \in Surfaces, ensure_managed_surface_observation_binding(i)
      PROVE  CapabilityHeld'
  BY <1>5 DEF ensure_managed_surface_observation_binding, RequestShape, RequestType
<1>6. ASSUME NEW i \in Surfaces, take_managed_surface_actions(i)
      PROVE  CapabilityHeld'
  BY <1>6 DEF take_managed_surface_actions, RequestShape, RequestType, Drained
<1>7. ASSUME NEW i \in Surfaces, arm_begin(i)
      PROVE  CapabilityHeld'
  BY <1>7 DEF arm_begin, RequestShape, RequestType
<1>8. ASSUME NEW i \in Surfaces, NEW a \in Actions, arm_untracked(i, a)
      PROVE  CapabilityHeld'
  BY <1>8 DEF arm_untracked, RequestShape, RequestType, Arming
<1>9. ASSUME NEW i \in Surfaces, NEW a \in Actions, arm_tracked(i, a)
      PROVE  CapabilityHeld'
  BY <1>9 DEF arm_tracked, RequestShape, RequestType, Arming
<1>10. ASSUME NEW i \in Surfaces, arm_exchange(i)
       PROVE  CapabilityHeld'
  BY <1>10 DEF arm_exchange, RequestShape, RequestType
<1>11. ASSUME NEW i \in Surfaces, NEW a \in Actions, arm_without_capability(i, a)
       PROVE  CapabilityHeld'
  BY <1>11 DEF arm_without_capability, RequestShape, RequestType, Withheld, Arming
<1>12. ASSUME NEW i \in Surfaces, NEW a \in Actions, reject_managed_action_before_executor(i, a)
       PROVE  CapabilityHeld'
  BY <1>12 DEF reject_managed_action_before_executor, RequestShape, RequestType, Withheld,
        Arming
<1>13. ASSUME NEW i \in Surfaces, take_return(i)
       PROVE  CapabilityHeld'
  BY <1>13 DEF take_return, RequestShape, RequestType, Idle
<1>14. ASSUME NEW i \in Surfaces, complete_managed_surface_action(i)
       PROVE  CapabilityHeld'
  BY <1>14 DEF complete_managed_surface_action, RequestShape, RequestType, Idle
<1>15. ASSUME NEW i \in Surfaces, record_managed_consequential_executor_completion(i)
       PROVE  CapabilityHeld'
  BY <1>15 DEF record_managed_consequential_executor_completion, RequestShape, RequestType, Idle
<1>16. ASSUME Handlers
       PROVE  UNCHANGED request
  BY <1>16 DEF Handlers, plan, plan_snapshot, plan_bind, plan_refused, plan_admit, confirm,
        confirm_refused, confirm_authorize, confirm_prepare, confirm_hold, confirm_enqueue
<1>17. ASSUME NEW i \in Surfaces, Worker(i)
       PROVE  \/ UNCHANGED request
              \/ take_surface_actions(i)
              \/ \E a \in Actions : complete_surface_action(i, a)
              \/ ensure_managed_surface_action_authority(i)
              \/ ensure_managed_surface_observation_binding(i)
              \/ take_managed_surface_actions(i)
              \/ arm_begin(i)
              \/ \E a \in Actions : arm_untracked(i, a)
              \/ \E a \in Actions : arm_tracked(i, a)
              \/ arm_exchange(i)
              \/ \E a \in Actions : arm_without_capability(i, a)
              \/ \E a \in Actions : reject_managed_action_before_executor(i, a)
              \/ take_return(i)
              \/ complete_managed_surface_action(i)
              \/ record_managed_consequential_executor_completion(i)
  BY <1>17 DEF Worker
<1>18. ASSUME NEW a \in Actions, Reconcile(a)
       PROVE  UNCHANGED request
  BY <1>18 DEF Reconcile, reconcile_begin, reconcile_capture, abandon_postcondition_observation,
        reconcile_admit, reconcile_consequential_postconditions, record_committed
<1>19. ASSUME Release
       PROVE  UNCHANGED request
  BY <1>19 DEF Release, release_collect, release_report, release_records, release_session
<1>20. ASSUME Surroundings
       PROVE  \/ UNCHANGED request
              \/ \E i \in Surfaces : surface_request_dropped(i)
  BY <1>20 DEF Surroundings, session_removed, request_dropped, take_actions,
        clear_managed_surface_action_authority, release_provider_observation,
        reap_expired_surface_owner, activate_surface_resource, release_surface_resource,
        prune_expired, prune_expired_reconciliations, executor_acts, complete_action,
        request_action_cancellation, Forget, push_bounded
<1> QED
  BY <1>1, <1>2, <1>3, <1>4, <1>5, <1>6, <1>7, <1>8, <1>9, <1>10, <1>11, <1>12, <1>13, <1>14,
     <1>15, <1>16, <1>17, <1>18, <1>19, <1>20 DEF Next, vars

\* Every step leaves an action in at most one place.
LEMMA NextHeldOnce ==
  ASSUME HeldOnce, SentOnce, CapabilityHeld, RequestShape, WorldShape, BridgeShape, GateShape, [Next]_vars
  PROVE  HeldOnce'
<1>1. ASSUME confirm_enqueue
      PROVE  HeldOnce'
  BY <1>1 DEF confirm_enqueue, HeldOnce, Held, Sent, SentOnce, GateMarks, GateShape,
        GateHoldsAction, world
<1>2. ASSUME release_session
      PROVE  HeldOnce'
  BY <1>2 DEF release_session, HeldOnce, Held, Sent, world
<1>3. ASSUME take_actions
      PROVE  HeldOnce'
  BY <1>3 DEF take_actions, HeldOnce, Held, Sent, PublicClient, WorldShape
<1>4. ASSUME clear_managed_surface_action_authority
      PROVE  HeldOnce'
  BY <1>4 DEF clear_managed_surface_action_authority, HeldOnce, Held, Sent, world
<1>5. ASSUME NEW i \in Surfaces, surface_request_dropped(i)
      PROVE  HeldOnce'
  BY <1>5 DEF surface_request_dropped, HeldOnce, Held, Sent, RequestShape, RequestType, Idle,
        bridge, world
<1>6. ASSUME NEW a \in Actions, request_action_cancellation(a)
      PROVE  HeldOnce'
  BY <1>6 DEF request_action_cancellation, HeldOnce, Held, Sent, Forget, world
<1>7. ASSUME NEW a \in Actions, push_bounded(a)
      PROVE  HeldOnce'
  BY <1>7 DEF push_bounded, HeldOnce, Held, Sent, Forget, world
<1>8. ASSUME NEW i \in Surfaces, take_surface_actions(i)
      PROVE  HeldOnce'
  BY <1>8 DEF take_surface_actions, HeldOnce, Held, Sent, RequestShape, RequestType, Idle,
        validate_primary_surface_action_request, bridge, world
<1>9. ASSUME NEW i \in Surfaces, NEW a \in Actions, complete_surface_action(i, a)
      PROVE  HeldOnce'
  BY <1>9 DEF complete_surface_action, HeldOnce, Held, Sent, RequestShape, RequestType, Idle,
        validate_primary_surface_action_request, bridge
<1>10. ASSUME NEW i \in Surfaces, ensure_managed_surface_action_authority(i)
       PROVE  HeldOnce'
  BY <1>10 DEF ensure_managed_surface_action_authority, HeldOnce, Held, Sent, RequestShape,
        RequestType, Rebind, world
<1>11. ASSUME NEW i \in Surfaces, ensure_managed_surface_observation_binding(i)
       PROVE  HeldOnce'
  BY <1>11 DEF ensure_managed_surface_observation_binding, HeldOnce, Held, Sent, RequestShape,
        RequestType, world
<1>12. ASSUME NEW i \in Surfaces, take_managed_surface_actions(i)
       PROVE  HeldOnce'
  BY <1>12 DEF take_managed_surface_actions, HeldOnce, Held, Sent, RequestShape, RequestType,
        Drained, world
<1>13. ASSUME NEW i \in Surfaces, arm_begin(i)
       PROVE  HeldOnce'
  BY <1>13 DEF arm_begin, HeldOnce, Held, Sent, RequestShape, RequestType, bridge, world
<1>14. ASSUME NEW i \in Surfaces, NEW a \in Actions, arm_untracked(i, a)
       PROVE  HeldOnce'
  BY <1>14 DEF arm_untracked, HeldOnce, Held, Sent, RequestShape, RequestType, Arming, bridge,
        world
<1>15. ASSUME NEW i \in Surfaces, NEW a \in Actions, arm_tracked(i, a)
       PROVE  HeldOnce'
  BY <1>15 DEF arm_tracked, HeldOnce, Held, Sent, RequestShape, RequestType, Arming, bridge,
        world
<1>16. ASSUME NEW i \in Surfaces, arm_exchange(i)
       PROVE  HeldOnce'
  BY <1>16 DEF arm_exchange, HeldOnce, Held, Sent, RequestShape, RequestType, CapabilityHeld,
        bridge, world
<1>17. ASSUME NEW i \in Surfaces, NEW a \in Actions, arm_without_capability(i, a)
       PROVE  HeldOnce'
  BY <1>17 DEF arm_without_capability, HeldOnce, Held, Sent, RequestShape, RequestType,
        Withheld, Arming, world
<1>18. ASSUME NEW i \in Surfaces, NEW a \in Actions, reject_managed_action_before_executor(i, a)
       PROVE  HeldOnce'
  BY <1>18 DEF reject_managed_action_before_executor, HeldOnce, Held, Sent, RequestShape,
        RequestType, Withheld, Arming, world
<1>19. ASSUME NEW i \in Surfaces, take_return(i)
       PROVE  HeldOnce'
  BY <1>19 DEF take_return, HeldOnce, Held, Sent, RequestShape, RequestType, Idle, WorldShape,
        bridge
<1>20. ASSUME NEW i \in Surfaces, complete_managed_surface_action(i)
       PROVE  HeldOnce'
  <2>1. /\ UNCHANGED <<queue, delivered>>
        /\ \/ request' = [request EXCEPT ![i].step = "claimed"]
           \/ request' = [request EXCEPT ![i] = Idle]
    BY <1>20 DEF complete_managed_surface_action
  <2>2. CASE request' = [request EXCEPT ![i].step = "claimed"]
    BY <2>1, <2>2 DEF HeldOnce, Held, RequestShape, RequestType
  <2>3. CASE request' = [request EXCEPT ![i] = Idle]
    BY <2>1, <2>3 DEF HeldOnce, Held, RequestShape, RequestType, Idle
  <2> QED
    BY <2>1, <2>2, <2>3
<1>21. ASSUME NEW i \in Surfaces, record_managed_consequential_executor_completion(i)
       PROVE  HeldOnce'
  BY <1>21 DEF record_managed_consequential_executor_completion, HeldOnce, Held, Sent,
        RequestShape, RequestType, Idle, bridge
<1>22. ASSUME Handlers
       PROVE  \/ UNCHANGED <<queue, request, delivered>>
              \/ confirm_enqueue
  BY <1>22 DEF Handlers, plan, plan_snapshot, plan_bind, plan_refused, plan_admit, confirm,
        confirm_refused, confirm_authorize, confirm_prepare, confirm_hold, bridge, world
<1>23. ASSUME NEW i \in Surfaces, Worker(i)
       PROVE  \/ UNCHANGED <<queue, request, delivered>>
              \/ take_surface_actions(i)
              \/ \E a \in Actions : complete_surface_action(i, a)
              \/ ensure_managed_surface_action_authority(i)
              \/ ensure_managed_surface_observation_binding(i)
              \/ take_managed_surface_actions(i)
              \/ arm_begin(i)
              \/ \E a \in Actions : arm_untracked(i, a)
              \/ \E a \in Actions : arm_tracked(i, a)
              \/ arm_exchange(i)
              \/ \E a \in Actions : arm_without_capability(i, a)
              \/ \E a \in Actions : reject_managed_action_before_executor(i, a)
              \/ take_return(i)
              \/ complete_managed_surface_action(i)
              \/ record_managed_consequential_executor_completion(i)
  BY <1>23 DEF Worker, bridge, world
<1>24. ASSUME NEW a \in Actions, Reconcile(a)
       PROVE  UNCHANGED <<queue, request, delivered>>
  BY <1>24 DEF Reconcile, reconcile_begin, reconcile_capture, abandon_postcondition_observation,
        reconcile_admit, reconcile_consequential_postconditions, record_committed, bridge, world
<1>25. ASSUME Release
       PROVE  \/ UNCHANGED <<queue, request, delivered>>
              \/ release_session
  BY <1>25 DEF Release, release_collect, release_report, release_records, bridge, world
<1>26. ASSUME Surroundings
       PROVE  \/ UNCHANGED <<queue, request, delivered>>
              \/ take_actions
              \/ clear_managed_surface_action_authority
              \/ \E i \in Surfaces : surface_request_dropped(i)
              \/ \E a \in Actions : request_action_cancellation(a)
              \/ \E a \in Actions : push_bounded(a)
  BY <1>26 DEF Surroundings, session_removed, request_dropped, release_provider_observation,
        reap_expired_surface_owner, activate_surface_resource, release_surface_resource,
        prune_expired, prune_expired_reconciliations, executor_acts, complete_action, bridge,
        world
<1> QED
  BY <1>1, <1>2, <1>3, <1>4, <1>5, <1>6, <1>7, <1>8, <1>9, <1>10, <1>11, <1>12, <1>13, <1>14,
     <1>15, <1>16, <1>17, <1>18, <1>19, <1>20, <1>21, <1>22, <1>23, <1>24, <1>25, <1>26
     DEF Next, vars, bridge, world, HeldOnce, Held

\* Only the end of a confirmation sends an action.
SentByConfirmation ==
  \A b \in Actions :
    Sent(b)' =>
      \/ Sent(b)
      \/ /\ gate.step = "hold" /\ gate.action = b /\ gate' = Free
         /\ envelopes' = envelopes \ {b} /\ UNCHANGED <<planned, pending>>

\* Only a confirmation sends an action.
LEMMA NextSent ==
  ASSUME CapabilityHeld, RequestShape, WorldShape, [Next]_vars
  PROVE  SentByConfirmation
<1>1. ASSUME confirm_enqueue
      PROVE  SentByConfirmation
  BY <1>1 DEF confirm_enqueue, SentByConfirmation, Sent, Held, Free, world
<1>2. ASSUME release_session
      PROVE  SentByConfirmation
  BY <1>2 DEF release_session, SentByConfirmation, Sent, Held, world
<1>3. ASSUME take_actions
      PROVE  SentByConfirmation
  BY <1>3 DEF take_actions, SentByConfirmation, Sent, Held, PublicClient, WorldShape
<1>4. ASSUME clear_managed_surface_action_authority
      PROVE  SentByConfirmation
  BY <1>4 DEF clear_managed_surface_action_authority, SentByConfirmation, Sent, Held, world
<1>5. ASSUME NEW i \in Surfaces, surface_request_dropped(i)
      PROVE  SentByConfirmation
  BY <1>5 DEF surface_request_dropped, SentByConfirmation, Sent, Held, RequestShape,
        RequestType, Idle, bridge, world
<1>6. ASSUME NEW a \in Actions, request_action_cancellation(a)
      PROVE  SentByConfirmation
  BY <1>6 DEF request_action_cancellation, SentByConfirmation, Sent, Held, Forget, world
<1>7. ASSUME NEW a \in Actions, push_bounded(a)
      PROVE  SentByConfirmation
  BY <1>7 DEF push_bounded, SentByConfirmation, Sent, Held, Forget, world
<1>8. ASSUME NEW i \in Surfaces, take_surface_actions(i)
      PROVE  SentByConfirmation
  BY <1>8 DEF take_surface_actions, SentByConfirmation, Sent, Held, RequestShape, RequestType,
        Idle, validate_primary_surface_action_request, bridge, world
<1>9. ASSUME NEW i \in Surfaces, NEW a \in Actions, complete_surface_action(i, a)
      PROVE  SentByConfirmation
  BY <1>9 DEF complete_surface_action, SentByConfirmation, Sent, Held, RequestShape,
        RequestType, Idle, validate_primary_surface_action_request, bridge
<1>10. ASSUME NEW i \in Surfaces, ensure_managed_surface_action_authority(i)
       PROVE  SentByConfirmation
  BY <1>10 DEF ensure_managed_surface_action_authority, SentByConfirmation, Sent, Held,
        RequestShape, RequestType, Rebind, world
<1>11. ASSUME NEW i \in Surfaces, ensure_managed_surface_observation_binding(i)
       PROVE  SentByConfirmation
  BY <1>11 DEF ensure_managed_surface_observation_binding, SentByConfirmation, Sent, Held,
        RequestShape, RequestType, world
<1>12. ASSUME NEW i \in Surfaces, take_managed_surface_actions(i)
       PROVE  SentByConfirmation
  BY <1>12 DEF take_managed_surface_actions, SentByConfirmation, Sent, Held, RequestShape,
        RequestType, Drained, world
<1>13. ASSUME NEW i \in Surfaces, arm_begin(i)
       PROVE  SentByConfirmation
  BY <1>13 DEF arm_begin, SentByConfirmation, Sent, Held, RequestShape, RequestType, bridge,
        world
<1>14. ASSUME NEW i \in Surfaces, NEW a \in Actions, arm_untracked(i, a)
       PROVE  SentByConfirmation
  BY <1>14 DEF arm_untracked, SentByConfirmation, Sent, Held, RequestShape, RequestType, Arming,
        bridge, world
<1>15. ASSUME NEW i \in Surfaces, NEW a \in Actions, arm_tracked(i, a)
       PROVE  SentByConfirmation
  BY <1>15 DEF arm_tracked, SentByConfirmation, Sent, Held, RequestShape, RequestType, Arming,
        bridge, world
<1>16. ASSUME NEW i \in Surfaces, arm_exchange(i)
       PROVE  SentByConfirmation
  BY <1>16 DEF arm_exchange, SentByConfirmation, Sent, Held, RequestShape, RequestType,
        CapabilityHeld, bridge, world
<1>17. ASSUME NEW i \in Surfaces, NEW a \in Actions, arm_without_capability(i, a)
       PROVE  SentByConfirmation
  BY <1>17 DEF arm_without_capability, SentByConfirmation, Sent, Held, RequestShape,
        RequestType, Withheld, Arming, world
<1>18. ASSUME NEW i \in Surfaces, NEW a \in Actions, reject_managed_action_before_executor(i, a)
       PROVE  SentByConfirmation
  BY <1>18 DEF reject_managed_action_before_executor, SentByConfirmation, Sent, Held,
        RequestShape, RequestType, Withheld, Arming, world
<1>19. ASSUME NEW i \in Surfaces, take_return(i)
       PROVE  SentByConfirmation
  BY <1>19 DEF take_return, SentByConfirmation, Sent, Held, RequestShape, RequestType, Idle,
        WorldShape, bridge
<1>20. ASSUME NEW i \in Surfaces, complete_managed_surface_action(i)
       PROVE  SentByConfirmation
  <2>1. /\ UNCHANGED <<queue, delivered>>
        /\ \/ request' = [request EXCEPT ![i].step = "claimed"]
           \/ request' = [request EXCEPT ![i] = Idle]
    BY <1>20 DEF complete_managed_surface_action
  <2>2. CASE request' = [request EXCEPT ![i].step = "claimed"]
    BY <2>1, <2>2 DEF SentByConfirmation, Sent, Held, RequestShape, RequestType
  <2>3. CASE request' = [request EXCEPT ![i] = Idle]
    BY <2>1, <2>3 DEF SentByConfirmation, Sent, Held, RequestShape, RequestType, Idle
  <2> QED
    BY <2>1, <2>2, <2>3
<1>21. ASSUME NEW i \in Surfaces, record_managed_consequential_executor_completion(i)
       PROVE  SentByConfirmation
  BY <1>21 DEF record_managed_consequential_executor_completion, SentByConfirmation, Sent, Held,
        RequestShape, RequestType, Idle, bridge
<1>22. ASSUME Handlers
       PROVE  \/ UNCHANGED <<queue, request, delivered>>
              \/ confirm_enqueue
  BY <1>22 DEF Handlers, plan, plan_snapshot, plan_bind, plan_refused, plan_admit, confirm,
        confirm_refused, confirm_authorize, confirm_prepare, confirm_hold, bridge, world
<1>23. ASSUME NEW i \in Surfaces, Worker(i)
       PROVE  \/ UNCHANGED <<queue, request, delivered>>
              \/ take_surface_actions(i)
              \/ \E a \in Actions : complete_surface_action(i, a)
              \/ ensure_managed_surface_action_authority(i)
              \/ ensure_managed_surface_observation_binding(i)
              \/ take_managed_surface_actions(i)
              \/ arm_begin(i)
              \/ \E a \in Actions : arm_untracked(i, a)
              \/ \E a \in Actions : arm_tracked(i, a)
              \/ arm_exchange(i)
              \/ \E a \in Actions : arm_without_capability(i, a)
              \/ \E a \in Actions : reject_managed_action_before_executor(i, a)
              \/ take_return(i)
              \/ complete_managed_surface_action(i)
              \/ record_managed_consequential_executor_completion(i)
  BY <1>23 DEF Worker, bridge, world
<1>24. ASSUME NEW a \in Actions, Reconcile(a)
       PROVE  UNCHANGED <<queue, request, delivered>>
  BY <1>24 DEF Reconcile, reconcile_begin, reconcile_capture, abandon_postcondition_observation,
        reconcile_admit, reconcile_consequential_postconditions, record_committed, bridge, world
<1>25. ASSUME Release
       PROVE  \/ UNCHANGED <<queue, request, delivered>>
              \/ release_session
  BY <1>25 DEF Release, release_collect, release_report, release_records, bridge, world
<1>26. ASSUME Surroundings
       PROVE  \/ UNCHANGED <<queue, request, delivered>>
              \/ take_actions
              \/ clear_managed_surface_action_authority
              \/ \E i \in Surfaces : surface_request_dropped(i)
              \/ \E a \in Actions : request_action_cancellation(a)
              \/ \E a \in Actions : push_bounded(a)
  BY <1>26 DEF Surroundings, session_removed, request_dropped, release_provider_observation,
        reap_expired_surface_owner, activate_surface_resource, release_surface_resource,
        prune_expired, prune_expired_reconciliations, executor_acts, complete_action, bridge,
        world
<1> QED
  BY <1>1, <1>2, <1>3, <1>4, <1>5, <1>6, <1>7, <1>8, <1>9, <1>10, <1>11, <1>12, <1>13, <1>14,
     <1>15, <1>16, <1>17, <1>18, <1>19, <1>20, <1>21, <1>22, <1>23, <1>24, <1>25, <1>26
     DEF Next, vars, bridge, world, SentByConfirmation, Sent, Held

\* Every step leaves an action that was not planned nowhere.
LEMMA NextUnplannedNowhere ==
  ASSUME UnplannedNowhere, SentByConfirmation, GateMarks, GateShape, ControlShape, [Next]_vars
  PROVE  UnplannedNowhere'
<1>1. ASSUME NEW a \in Actions, plan(a)
      PROVE  UnplannedNowhere'
  BY <1>1, ConstantsAssumption DEF plan, UnplannedNowhere, SentByConfirmation, GateShape,
        GateType, GateHoldsAction, GateMarks, Free, Holding, bridge, control
<1>2. ASSUME plan_snapshot
      PROVE  UnplannedNowhere'
  BY <1>2, ConstantsAssumption DEF plan_snapshot, UnplannedNowhere, SentByConfirmation,
        GateShape, GateType, GateHoldsAction, GateMarks, bridge, control
<1>3. ASSUME plan_bind
      PROVE  UnplannedNowhere'
  <2>1. gate.authority # 0 /\ gate.action \in Actions /\ gate.step = "snapshot"
    BY <1>3, ConstantsAssumption DEF plan_bind, GateMarks, GateShape, GateHoldsAction, Surfaces
  <2>2. \A b \in Actions : planned'[b] = 0 => planned[b] = 0 /\ b # gate.action
    BY <1>3, <2>1 DEF plan_bind, ControlShape
  <2>3. /\ pending' = pending /\ envelopes' = envelopes \cup {gate.action}
        /\ gate'.action = gate.action /\ gate'.step = "bind"
    BY <1>3 DEF plan_bind, Free, Holding
  <2>4. \A b \in Actions : Sent(b)' => Sent(b)
    BY <2>1 DEF SentByConfirmation
  <2> QED
    BY <2>2, <2>3, <2>4 DEF UnplannedNowhere
<1>4. ASSUME plan_refused
      PROVE  UnplannedNowhere'
  BY <1>4, ConstantsAssumption DEF plan_refused, UnplannedNowhere, SentByConfirmation,
        GateShape, GateType, GateHoldsAction, GateMarks, Free, bridge, control
<1>5. ASSUME plan_admit
      PROVE  UnplannedNowhere'
  BY <1>5, ConstantsAssumption DEF plan_admit, UnplannedNowhere, SentByConfirmation, GateShape,
        GateType, GateHoldsAction, GateMarks, Free
<1>6. ASSUME NEW a \in Actions, confirm(a)
      PROVE  UnplannedNowhere'
  <2>1. gate = Free /\ a \in pending /\ planned' = planned /\ planned[a] # 0
    BY <1>6 DEF confirm, UnplannedNowhere
  <2>2. pending' \subseteq pending /\ envelopes' \subseteq envelopes
    BY <1>6 DEF confirm
  <2>3. gate' = gate \/ gate'.action = a
    BY <1>6 DEF confirm, Free, Holding
  <2>4. \A b \in Actions : Sent(b)' => Sent(b)
    BY <2>1 DEF SentByConfirmation, Free
  <2> QED
    BY <2>1, <2>2, <2>3, <2>4 DEF UnplannedNowhere
<1>7. ASSUME confirm_refused
      PROVE  UnplannedNowhere'
  BY <1>7, ConstantsAssumption DEF confirm_refused, UnplannedNowhere, SentByConfirmation,
        GateShape, GateType, GateHoldsAction, GateMarks, Free, control
<1>8. ASSUME confirm_authorize
      PROVE  UnplannedNowhere'
  BY <1>8, ConstantsAssumption DEF confirm_authorize, UnplannedNowhere, SentByConfirmation,
        GateShape, GateType, GateHoldsAction, GateMarks, Free, Holding, bridge, control
<1>9. ASSUME confirm_prepare
      PROVE  UnplannedNowhere'
  BY <1>9, ConstantsAssumption DEF confirm_prepare, UnplannedNowhere, SentByConfirmation,
        GateShape, GateType, GateHoldsAction, GateMarks, Free, Holding, bridge, control
<1>10. ASSUME confirm_hold
       PROVE  UnplannedNowhere'
  BY <1>10, ConstantsAssumption DEF confirm_hold, UnplannedNowhere, SentByConfirmation,
        GateShape, GateType, GateHoldsAction, GateMarks, Free, Holding, bridge
<1>11. ASSUME confirm_enqueue
       PROVE  UnplannedNowhere'
  BY <1>11, ConstantsAssumption DEF confirm_enqueue, UnplannedNowhere, SentByConfirmation,
        GateShape, GateType, GateHoldsAction, GateMarks, Free
<1>12. ASSUME release_collect
       PROVE  UnplannedNowhere'
  BY <1>12, ConstantsAssumption DEF release_collect, UnplannedNowhere, SentByConfirmation,
        GateShape, GateType, GateHoldsAction, GateMarks, Free, bridge
<1>13. ASSUME release_report
       PROVE  UnplannedNowhere'
  BY <1>13, ConstantsAssumption DEF release_report, UnplannedNowhere, SentByConfirmation,
        GateShape, GateType, GateHoldsAction, GateMarks, bridge, control
<1>14. ASSUME release_records
       PROVE  UnplannedNowhere'
  BY <1>14, ConstantsAssumption DEF release_records, UnplannedNowhere, SentByConfirmation,
        GateShape, GateType, GateHoldsAction, GateMarks, Free, bridge
<1>15. ASSUME release_session
       PROVE  UnplannedNowhere'
  BY <1>15 DEF release_session, UnplannedNowhere, SentByConfirmation, GateShape, GateType,
        GateHoldsAction, control
<1>16. ASSUME request_dropped
       PROVE  UnplannedNowhere'
  BY <1>16, ConstantsAssumption DEF request_dropped, UnplannedNowhere, SentByConfirmation,
        GateShape, GateType, GateHoldsAction, GateMarks, Free, bridge, control
<1>17. ASSUME clear_managed_surface_action_authority
       PROVE  UnplannedNowhere'
  BY <1>17 DEF clear_managed_surface_action_authority, UnplannedNowhere, SentByConfirmation,
        GateShape, GateType, GateHoldsAction, control
<1>18. ASSUME NEW a \in Actions, prune_expired(a)
       PROVE  UnplannedNowhere'
  BY <1>18 DEF prune_expired, UnplannedNowhere, SentByConfirmation, GateShape, GateType,
        GateHoldsAction, Free
<1>19. ASSUME NEW i \in Surfaces, ensure_managed_surface_action_authority(i)
       PROVE  UnplannedNowhere'
  BY <1>19 DEF ensure_managed_surface_action_authority, UnplannedNowhere, SentByConfirmation,
        GateShape, GateType, GateHoldsAction, Rebind, control
<1>20. ASSUME NEW i \in Surfaces, take_managed_surface_actions(i)
       PROVE  UnplannedNowhere'
  BY <1>20 DEF take_managed_surface_actions, UnplannedNowhere, SentByConfirmation, GateShape,
        GateType, GateHoldsAction, control
<1>21. ASSUME Handlers
       PROVE  \/ UNCHANGED <<pending, envelopes, gate, planned>>
              \/ \E a \in Actions : plan(a)
              \/ plan_snapshot
              \/ plan_bind
              \/ plan_refused
              \/ plan_admit
              \/ \E a \in Actions : confirm(a)
              \/ confirm_refused
              \/ confirm_authorize
              \/ confirm_prepare
              \/ confirm_hold
              \/ confirm_enqueue
  BY <1>21 DEF Handlers, bridge, control
<1>22. ASSUME NEW i \in Surfaces, Worker(i)
       PROVE  \/ UNCHANGED <<pending, envelopes, gate, planned>>
              \/ ensure_managed_surface_action_authority(i)
              \/ take_managed_surface_actions(i)
  BY <1>22 DEF Worker, take_surface_actions, complete_surface_action,
        ensure_managed_surface_observation_binding, arm_begin, arm_untracked, arm_tracked,
        arm_exchange, arm_without_capability, Withheld, reject_managed_action_before_executor,
        take_return, complete_managed_surface_action,
        record_managed_consequential_executor_completion, bridge, control
<1>23. ASSUME NEW a \in Actions, Reconcile(a)
       PROVE  UNCHANGED <<pending, envelopes, gate, planned>>
  BY <1>23 DEF Reconcile, reconcile_begin, reconcile_capture, abandon_postcondition_observation,
        reconcile_admit, reconcile_consequential_postconditions, record_committed, bridge,
        control
<1>24. ASSUME Release
       PROVE  \/ UNCHANGED <<pending, envelopes, gate, planned>>
              \/ release_collect
              \/ release_report
              \/ release_records
              \/ release_session
  BY <1>24 DEF Release, bridge, control
<1>25. ASSUME Surroundings
       PROVE  \/ UNCHANGED <<pending, envelopes, gate, planned>>
              \/ request_dropped
              \/ clear_managed_surface_action_authority
              \/ \E a \in Actions : prune_expired(a)
  BY <1>25 DEF Surroundings, session_removed, take_actions, release_provider_observation,
        reap_expired_surface_owner, activate_surface_resource, release_surface_resource,
        surface_request_dropped, prune_expired_reconciliations, executor_acts, complete_action,
        request_action_cancellation, Forget, push_bounded, bridge, control
<1> QED
  BY <1>1, <1>2, <1>3, <1>4, <1>5, <1>6, <1>7, <1>8, <1>9, <1>10, <1>11, <1>12, <1>13, <1>14,
     <1>15, <1>16, <1>17, <1>18, <1>19, <1>20, <1>21, <1>22, <1>23, <1>24, <1>25 DEF Next, vars,
        bridge, control, UnplannedNowhere, SentByConfirmation

\* Every step leaves what was sent without a plan or an envelope to send it again.
LEMMA NextSentOnce ==
  ASSUME SentOnce, UnplannedNowhere, SentByConfirmation, GateMarks, GateShape, [Next]_vars
  PROVE  SentOnce'
<1>1. ASSUME NEW a \in Actions, plan(a)
      PROVE  SentOnce'
  BY <1>1, ConstantsAssumption DEF plan, SentOnce, SentByConfirmation, GateShape, GateType,
        GateHoldsAction, GateMarks, UnplannedNowhere, Free, Holding, bridge, control
<1>2. ASSUME plan_snapshot
      PROVE  SentOnce'
  BY <1>2, ConstantsAssumption DEF plan_snapshot, SentOnce, SentByConfirmation, GateShape,
        GateType, GateHoldsAction, GateMarks, UnplannedNowhere, bridge, control
<1>3. ASSUME plan_bind
      PROVE  SentOnce'
  BY <1>3, ConstantsAssumption DEF plan_bind, SentOnce, SentByConfirmation, GateShape, GateType,
        GateHoldsAction, GateMarks, UnplannedNowhere, Free, Holding
<1>4. ASSUME plan_refused
      PROVE  SentOnce'
  BY <1>4, ConstantsAssumption DEF plan_refused, SentOnce, SentByConfirmation, GateShape,
        GateType, GateHoldsAction, GateMarks, Free, bridge, control
<1>5. ASSUME plan_admit
      PROVE  SentOnce'
  BY <1>5, ConstantsAssumption DEF plan_admit, SentOnce, SentByConfirmation, GateShape,
        GateType, GateHoldsAction, GateMarks, Free
<1>6. ASSUME NEW a \in Actions, confirm(a)
      PROVE  SentOnce'
  BY <1>6, ConstantsAssumption DEF confirm, SentOnce, SentByConfirmation, GateShape, GateType,
        GateHoldsAction, GateMarks, Free, Holding
<1>7. ASSUME confirm_refused
      PROVE  SentOnce'
  BY <1>7, ConstantsAssumption DEF confirm_refused, SentOnce, SentByConfirmation, GateShape,
        GateType, GateHoldsAction, GateMarks, Free, control
<1>8. ASSUME confirm_authorize
      PROVE  SentOnce'
  BY <1>8, ConstantsAssumption DEF confirm_authorize, SentOnce, SentByConfirmation, GateShape,
        GateType, GateHoldsAction, GateMarks, Free, Holding, bridge, control
<1>9. ASSUME confirm_prepare
      PROVE  SentOnce'
  BY <1>9, ConstantsAssumption DEF confirm_prepare, SentOnce, SentByConfirmation, GateShape,
        GateType, GateHoldsAction, GateMarks, Free, Holding, bridge, control
<1>10. ASSUME confirm_hold
       PROVE  SentOnce'
  BY <1>10, ConstantsAssumption DEF confirm_hold, SentOnce, SentByConfirmation, GateShape,
        GateType, GateHoldsAction, GateMarks, Free, Holding, bridge
<1>11. ASSUME confirm_enqueue
       PROVE  SentOnce'
  BY <1>11, ConstantsAssumption DEF confirm_enqueue, SentOnce, SentByConfirmation, GateShape,
        GateType, GateHoldsAction, GateMarks, Free
<1>12. ASSUME release_collect
       PROVE  SentOnce'
  BY <1>12, ConstantsAssumption DEF release_collect, SentOnce, SentByConfirmation, GateShape,
        GateType, GateHoldsAction, GateMarks, Free, bridge
<1>13. ASSUME release_report
       PROVE  SentOnce'
  BY <1>13, ConstantsAssumption DEF release_report, SentOnce, SentByConfirmation, GateShape,
        GateType, GateHoldsAction, GateMarks, bridge, control
<1>14. ASSUME release_records
       PROVE  SentOnce'
  BY <1>14, ConstantsAssumption DEF release_records, SentOnce, SentByConfirmation, GateShape,
        GateType, GateHoldsAction, GateMarks, Free, bridge
<1>15. ASSUME release_session
       PROVE  SentOnce'
  BY <1>15 DEF release_session, SentOnce, SentByConfirmation, GateShape, GateType,
        GateHoldsAction, Free, control
<1>16. ASSUME request_dropped
       PROVE  SentOnce'
  BY <1>16, ConstantsAssumption DEF request_dropped, SentOnce, SentByConfirmation, GateShape,
        GateType, GateHoldsAction, GateMarks, Free, bridge, control
<1>17. ASSUME clear_managed_surface_action_authority
       PROVE  SentOnce'
  BY <1>17 DEF clear_managed_surface_action_authority, SentOnce, SentByConfirmation, GateShape,
        GateType, GateHoldsAction, Free, control
<1>18. ASSUME NEW a \in Actions, prune_expired(a)
       PROVE  SentOnce'
  BY <1>18 DEF prune_expired, SentOnce, SentByConfirmation, GateShape, GateType,
        GateHoldsAction, Free
<1>19. ASSUME NEW i \in Surfaces, ensure_managed_surface_action_authority(i)
       PROVE  SentOnce'
  BY <1>19 DEF ensure_managed_surface_action_authority, SentOnce, SentByConfirmation, GateShape,
        GateType, GateHoldsAction, Rebind, Free, control
<1>20. ASSUME NEW i \in Surfaces, take_managed_surface_actions(i)
       PROVE  SentOnce'
  BY <1>20 DEF take_managed_surface_actions, SentOnce, SentByConfirmation, GateShape, GateType,
        GateHoldsAction, Free, control
<1>21. ASSUME Handlers
       PROVE  \/ UNCHANGED <<pending, envelopes, gate>>
              \/ \E a \in Actions : plan(a)
              \/ plan_snapshot
              \/ plan_bind
              \/ plan_refused
              \/ plan_admit
              \/ \E a \in Actions : confirm(a)
              \/ confirm_refused
              \/ confirm_authorize
              \/ confirm_prepare
              \/ confirm_hold
              \/ confirm_enqueue
  BY <1>21 DEF Handlers, bridge, control
<1>22. ASSUME NEW i \in Surfaces, Worker(i)
       PROVE  \/ UNCHANGED <<pending, envelopes, gate>>
              \/ ensure_managed_surface_action_authority(i)
              \/ take_managed_surface_actions(i)
  BY <1>22 DEF Worker, take_surface_actions, complete_surface_action,
        ensure_managed_surface_observation_binding, arm_begin, arm_untracked, arm_tracked,
        arm_exchange, arm_without_capability, Withheld, reject_managed_action_before_executor,
        take_return, complete_managed_surface_action,
        record_managed_consequential_executor_completion, bridge, control
<1>23. ASSUME NEW a \in Actions, Reconcile(a)
       PROVE  UNCHANGED <<pending, envelopes, gate>>
  BY <1>23 DEF Reconcile, reconcile_begin, reconcile_capture, abandon_postcondition_observation,
        reconcile_admit, reconcile_consequential_postconditions, record_committed, bridge,
        control
<1>24. ASSUME Release
       PROVE  \/ UNCHANGED <<pending, envelopes, gate>>
              \/ release_collect
              \/ release_report
              \/ release_records
              \/ release_session
  BY <1>24 DEF Release, bridge, control
<1>25. ASSUME Surroundings
       PROVE  \/ UNCHANGED <<pending, envelopes, gate>>
              \/ request_dropped
              \/ clear_managed_surface_action_authority
              \/ \E a \in Actions : prune_expired(a)
  BY <1>25 DEF Surroundings, session_removed, take_actions, release_provider_observation,
        reap_expired_surface_owner, activate_surface_resource, release_surface_resource,
        surface_request_dropped, prune_expired_reconciliations, executor_acts, complete_action,
        request_action_cancellation, Forget, push_bounded, bridge, control
<1> QED
  BY <1>1, <1>2, <1>3, <1>4, <1>5, <1>6, <1>7, <1>8, <1>9, <1>10, <1>11, <1>12, <1>13, <1>14,
     <1>15, <1>16, <1>17, <1>18, <1>19, <1>20, <1>21, <1>22, <1>23, <1>24, <1>25 DEF Next, vars,
        bridge, control, SentOnce, SentByConfirmation, Free

\* Before the first plan nothing is on its way.
LEMMA InitOneShot ==
  ASSUME Init
  PROVE  OneShotInv
<1>1. GateMarks /\ CapabilityHeld
  BY DEF Init, GateMarks, CapabilityHeld, Free, Idle
<1>2. \A a \in Actions : ~Sent(a) /\ a \notin pending \cup envelopes /\ gate.action # a
  BY ConstantsAssumption DEF Init, Sent, Held, Free, Idle
<1>3. HeldOnce
  BY DEF Init, HeldOnce, Held, Idle
<1> QED
  BY <1>1, <1>2, <1>3, InitShape DEF OneShotInv, UnplannedNowhere, SentOnce

\* Every step keeps the one-shot invariant.
LEMMA NextOneShot ==
  ASSUME OneShotInv, [Next]_vars
  PROVE  OneShotInv'
<1>1. /\ ShapeInv /\ GateMarks /\ CapabilityHeld /\ UnplannedNowhere /\ SentOnce /\ HeldOnce
      /\ RequestShape /\ WorldShape /\ ControlShape /\ BridgeShape /\ GateShape
      /\ live \subseteq Surfaces
  BY DEF OneShotInv, ShapeInv, Shape, PlacesShape, GateShape, RequestShape
<1>2. ShapeInv' /\ SentByConfirmation
  BY <1>1, NextShape, NextSent
<1>3. GateMarks' /\ CapabilityHeld' /\ HeldOnce'
  BY <1>1, NextGateMarks, NextCapabilityHeld, NextHeldOnce
<1>4. UnplannedNowhere' /\ SentOnce'
  BY <1>1, <1>2, NextUnplannedNowhere, NextSentOnce
<1> QED
  BY <1>2, <1>3, <1>4 DEF OneShotInv

\* The one-shot invariant holds in every reachable state.
LEMMA OneShotInvariant == Spec => []OneShotInv
<1> QED
  BY InitOneShot, NextOneShot, PTL DEF Spec

\* A confirmation delivers its action once: consume_plan takes the plan,
\* enqueue_bound_canonical_action_for_dispatch the envelope, the drain the
\* queue entry, and take_managed_surface_actions the batch, before the executor
\* has the action; nothing brings one of them back.
THEOREM OneConfirmationOneDelivery == Spec => []ConfirmationIsOneShot
<1>1. OneShotInv => ConfirmationIsOneShot
  BY DEF OneShotInv, SentOnce, HeldOnce, Sent, Held, ConfirmationIsOneShot
<1> QED
  BY <1>1, OneShotInvariant, PTL

-----------------------------------------------------------------------------
(***************************************************************************)
(* Permits.                                                                *)
(***************************************************************************)
Early == {"none", "admitted", "authorized"}

\* What is on its way has a PREPARED entry in the journal.
SentIsPrepared ==
  /\ \A a \in Actions : Sent(a) => stage[a] \notin Early
  /\ gate.step \in {"prepare", "hold"} => stage[gate.action] \notin Early

\* Queued, or drained and not yet looked at.
Waiting(a) ==
  \/ a \in queue
  \/ \E i \in Surfaces : request[i].step = "drained" /\ a \in request[i].batch

\* An action that waits with a live prepared grant will be found to be managed,
\* and its capability is where it can be exchanged or reported.
WaitingIsTracked ==
  /\ \A a \in Actions :
       Waiting(a) /\ grant[a] = "prepared" =>
         /\ record[a] # "none"
         /\ a \in prepared \/ (gate.step = "release" /\ a \in gate.capabilities)
  /\ gate.step = "hold" => record[gate.action] # "none" /\ gate.action \in prepared
  /\ gate.step \in {"release", "records"} => prepared = {}

\* Handed out, or on its way there without anything left to exchange.
Exposed(a) ==
  \/ delivered[a] \in Surfaces
  \/ \E i \in Surfaces :
       \/ a \in request[i].ready
       \/ request[i].step = "arming" /\ a \in request[i].batch \ request[i].tracked

ExposedIsExchanged == \A a \in Actions : Exposed(a) => grant[a] # "prepared"

PermitInv == OneShotInv /\ SentIsPrepared /\ WaitingIsTracked /\ ExposedIsExchanged

\* Every step leaves each sent action with its durable preparation.
LEMMA NextSentIsPrepared ==
  ASSUME SentIsPrepared, SentByConfirmation, SentOnce, GateShape, JournalShape, [Next]_vars
  PROVE  SentIsPrepared'
<1>1. ASSUME NEW a \in Actions, plan(a)
      PROVE  SentIsPrepared'
  BY <1>1 DEF plan, SentIsPrepared, SentByConfirmation, SentOnce, JournalShape, GateShape,
        GateType, GateHoldsAction, Early, Free, Holding, journal
<1>2. ASSUME plan_snapshot
      PROVE  SentIsPrepared'
  BY <1>2 DEF plan_snapshot, SentIsPrepared, SentByConfirmation, SentOnce, JournalShape,
        GateShape, GateType, GateHoldsAction, Early, journal
<1>3. ASSUME plan_bind
      PROVE  SentIsPrepared'
  BY <1>3 DEF plan_bind, SentIsPrepared, SentByConfirmation, SentOnce, JournalShape, GateShape,
        GateType, GateHoldsAction, Early, Free, Holding, journal
<1>4. ASSUME plan_refused
      PROVE  SentIsPrepared'
  BY <1>4 DEF plan_refused, SentIsPrepared, SentByConfirmation, SentOnce, JournalShape,
        GateShape, GateType, GateHoldsAction, Early, Free, journal
<1>5. ASSUME plan_admit
      PROVE  SentIsPrepared'
  BY <1>5 DEF plan_admit, SentIsPrepared, SentByConfirmation, SentOnce, JournalShape, GateShape,
        GateType, GateHoldsAction, Early, Free
<1>6. ASSUME NEW a \in Actions, confirm(a)
      PROVE  SentIsPrepared'
  BY <1>6 DEF confirm, SentIsPrepared, SentByConfirmation, SentOnce, JournalShape, GateShape,
        GateType, GateHoldsAction, Early, Free, Holding, journal
<1>7. ASSUME confirm_refused
      PROVE  SentIsPrepared'
  BY <1>7 DEF confirm_refused, SentIsPrepared, SentByConfirmation, SentOnce, JournalShape,
        GateShape, GateType, GateHoldsAction, Early, Free, journal
<1>8. ASSUME confirm_authorize
      PROVE  SentIsPrepared'
  BY <1>8 DEF confirm_authorize, SentIsPrepared, SentByConfirmation, SentOnce, JournalShape,
        GateShape, GateType, GateHoldsAction, Early, Free, Holding
<1>9. ASSUME confirm_prepare
      PROVE  SentIsPrepared'
  BY <1>9 DEF confirm_prepare, SentIsPrepared, SentByConfirmation, SentOnce, JournalShape,
        GateShape, GateType, GateHoldsAction, Early, Free, Holding
<1>10. ASSUME confirm_hold
       PROVE  SentIsPrepared'
  BY <1>10 DEF confirm_hold, SentIsPrepared, SentByConfirmation, SentOnce, JournalShape,
        GateShape, GateType, GateHoldsAction, Early, Free, Holding, journal
<1>11. ASSUME confirm_enqueue
       PROVE  SentIsPrepared'
  BY <1>11 DEF confirm_enqueue, SentIsPrepared, SentByConfirmation, SentOnce, JournalShape,
        GateShape, GateType, GateHoldsAction, Early, RuleOut, Free, journal
<1>12. ASSUME release_collect
       PROVE  SentIsPrepared'
  BY <1>12 DEF release_collect, SentIsPrepared, SentByConfirmation, SentOnce, JournalShape,
        GateShape, GateType, GateHoldsAction, Early, Free, journal
<1>13. ASSUME release_report
       PROVE  SentIsPrepared'
  BY <1>13 DEF release_report, SentIsPrepared, SentByConfirmation, SentOnce, JournalShape,
        GateShape, GateType, GateHoldsAction, Early, RuleOut
<1>14. ASSUME release_records
       PROVE  SentIsPrepared'
  BY <1>14 DEF release_records, SentIsPrepared, SentByConfirmation, SentOnce, JournalShape,
        GateShape, GateType, GateHoldsAction, Early, Free, journal
<1>15. ASSUME request_dropped
       PROVE  SentIsPrepared'
  BY <1>15 DEF request_dropped, SentIsPrepared, SentByConfirmation, SentOnce, JournalShape,
        GateShape, GateType, GateHoldsAction, Early, Free, journal
<1>16. ASSUME NEW i \in Surfaces, NEW a \in Actions, reject_managed_action_before_executor(i, a)
       PROVE  SentIsPrepared'
  BY <1>16 DEF reject_managed_action_before_executor, SentIsPrepared, SentByConfirmation,
        SentOnce, JournalShape, GateShape, GateType, GateHoldsAction, Early, RuleOut, Withheld
<1>17. ASSUME NEW i \in Surfaces, record_managed_consequential_executor_completion(i)
       PROVE  SentIsPrepared'
  BY <1>17 DEF record_managed_consequential_executor_completion, SentIsPrepared,
        SentByConfirmation, SentOnce, JournalShape, GateShape, GateType, GateHoldsAction, Early,
        journal
<1>18. ASSUME NEW a \in Actions, reconcile_consequential_postconditions(a)
       PROVE  SentIsPrepared'
  BY <1>18 DEF reconcile_consequential_postconditions, SentIsPrepared, SentByConfirmation,
        SentOnce, JournalShape, GateShape, GateType, GateHoldsAction, Early
<1>19. ASSUME NEW a \in Actions, record_committed(a)
       PROVE  SentIsPrepared'
  BY <1>19 DEF record_committed, SentIsPrepared, SentByConfirmation, SentOnce, JournalShape,
        GateShape, GateType, GateHoldsAction, Early
<1>20. ASSUME Handlers
       PROVE  \/ UNCHANGED <<stage, gate>>
              \/ \E a \in Actions : plan(a)
              \/ plan_snapshot
              \/ plan_bind
              \/ plan_refused
              \/ plan_admit
              \/ \E a \in Actions : confirm(a)
              \/ confirm_refused
              \/ confirm_authorize
              \/ confirm_prepare
              \/ confirm_hold
              \/ confirm_enqueue
  BY <1>20 DEF Handlers, journal
<1>21. ASSUME NEW i \in Surfaces, Worker(i)
       PROVE  \/ UNCHANGED <<stage, gate>>
              \/ \E a \in Actions : reject_managed_action_before_executor(i, a)
              \/ record_managed_consequential_executor_completion(i)
  BY <1>21 DEF Worker, take_surface_actions, complete_surface_action,
        ensure_managed_surface_action_authority, ensure_managed_surface_observation_binding,
        take_managed_surface_actions, arm_begin, arm_untracked, arm_tracked, arm_exchange,
        arm_without_capability, Withheld, take_return, complete_managed_surface_action, journal
<1>22. ASSUME NEW a \in Actions, Reconcile(a)
       PROVE  \/ UNCHANGED <<stage, gate>>
              \/ reconcile_consequential_postconditions(a)
              \/ record_committed(a)
  BY <1>22 DEF Reconcile, reconcile_begin, reconcile_capture, abandon_postcondition_observation,
        reconcile_admit, journal
<1>23. ASSUME Release
       PROVE  \/ UNCHANGED <<stage, gate>>
              \/ release_collect
              \/ release_report
              \/ release_records
  BY <1>23 DEF Release, release_session, journal
<1>24. ASSUME Surroundings
       PROVE  \/ UNCHANGED <<stage, gate>>
              \/ request_dropped
  BY <1>24 DEF Surroundings, session_removed, take_actions,
        clear_managed_surface_action_authority, release_provider_observation,
        reap_expired_surface_owner, activate_surface_resource, release_surface_resource,
        surface_request_dropped, prune_expired, prune_expired_reconciliations, executor_acts,
        complete_action, request_action_cancellation, Forget, push_bounded, journal
<1> QED
  BY <1>1, <1>2, <1>3, <1>4, <1>5, <1>6, <1>7, <1>8, <1>9, <1>10, <1>11, <1>12, <1>13, <1>14,
     <1>15, <1>16, <1>17, <1>18, <1>19, <1>20, <1>21, <1>22, <1>23, <1>24 DEF Next, vars,
        journal, SentIsPrepared, SentByConfirmation, Free, Early

\* Only the end of a confirmation makes an action wait for a surface.
WaitingByConfirmation ==
  \A b \in Actions :
    Waiting(b)' =>
      \/ Waiting(b)
      \/ /\ gate.step = "hold" /\ gate.action = b /\ gate' = Free
         /\ UNCHANGED <<record, prepared, grant>>

\* Only a confirmation puts an action among the waiting.
LEMMA NextWaiting ==
  ASSUME RequestShape, [Next]_vars
  PROVE  WaitingByConfirmation
<1>1. ASSUME confirm_enqueue
      PROVE  WaitingByConfirmation
  BY <1>1 DEF confirm_enqueue, WaitingByConfirmation, Waiting, Free, journal
<1>2. ASSUME release_session
      PROVE  WaitingByConfirmation
  BY <1>2 DEF release_session, WaitingByConfirmation, Waiting, journal
<1>3. ASSUME take_actions
      PROVE  WaitingByConfirmation
  BY <1>3 DEF take_actions, WaitingByConfirmation, Waiting, PublicClient, journal
<1>4. ASSUME clear_managed_surface_action_authority
      PROVE  WaitingByConfirmation
  BY <1>4 DEF clear_managed_surface_action_authority, WaitingByConfirmation, Waiting, journal
<1>5. ASSUME NEW i \in Surfaces, surface_request_dropped(i)
      PROVE  WaitingByConfirmation
  BY <1>5 DEF surface_request_dropped, WaitingByConfirmation, Waiting, RequestShape,
        RequestType, Idle, bridge, journal
<1>6. ASSUME NEW a \in Actions, request_action_cancellation(a)
      PROVE  WaitingByConfirmation
  BY <1>6 DEF request_action_cancellation, WaitingByConfirmation, Waiting, Forget, journal
<1>7. ASSUME NEW a \in Actions, push_bounded(a)
      PROVE  WaitingByConfirmation
  BY <1>7 DEF push_bounded, WaitingByConfirmation, Waiting, Forget, journal
<1>8. ASSUME NEW i \in Surfaces, take_surface_actions(i)
      PROVE  WaitingByConfirmation
  BY <1>8 DEF take_surface_actions, WaitingByConfirmation, Waiting, RequestShape, RequestType,
        Idle, validate_primary_surface_action_request, bridge, journal
<1>9. ASSUME NEW i \in Surfaces, NEW a \in Actions, complete_surface_action(i, a)
      PROVE  WaitingByConfirmation
  BY <1>9 DEF complete_surface_action, WaitingByConfirmation, Waiting, RequestShape,
        RequestType, Idle, validate_primary_surface_action_request, bridge, journal
<1>10. ASSUME NEW i \in Surfaces, ensure_managed_surface_action_authority(i)
       PROVE  WaitingByConfirmation
  BY <1>10 DEF ensure_managed_surface_action_authority, WaitingByConfirmation, Waiting,
        RequestShape, RequestType, Rebind, journal
<1>11. ASSUME NEW i \in Surfaces, ensure_managed_surface_observation_binding(i)
       PROVE  WaitingByConfirmation
  BY <1>11 DEF ensure_managed_surface_observation_binding, WaitingByConfirmation, Waiting,
        RequestShape, RequestType, journal
<1>12. ASSUME NEW i \in Surfaces, take_managed_surface_actions(i)
       PROVE  WaitingByConfirmation
  BY <1>12 DEF take_managed_surface_actions, WaitingByConfirmation, Waiting, RequestShape,
        RequestType, Drained, journal
<1>13. ASSUME NEW i \in Surfaces, arm_begin(i)
       PROVE  WaitingByConfirmation
  BY <1>13 DEF arm_begin, WaitingByConfirmation, Waiting, RequestShape, RequestType, bridge,
        journal
<1>14. ASSUME NEW i \in Surfaces, NEW a \in Actions, arm_untracked(i, a)
       PROVE  WaitingByConfirmation
  BY <1>14 DEF arm_untracked, WaitingByConfirmation, Waiting, RequestShape, RequestType, Arming,
        bridge, journal
<1>15. ASSUME NEW i \in Surfaces, NEW a \in Actions, arm_tracked(i, a)
       PROVE  WaitingByConfirmation
  BY <1>15 DEF arm_tracked, WaitingByConfirmation, Waiting, RequestShape, RequestType, Arming,
        bridge, journal
<1>16. ASSUME NEW i \in Surfaces, arm_exchange(i)
       PROVE  WaitingByConfirmation
  BY <1>16 DEF arm_exchange, WaitingByConfirmation, Waiting, RequestShape, RequestType, bridge
<1>17. ASSUME NEW i \in Surfaces, NEW a \in Actions, arm_without_capability(i, a)
       PROVE  WaitingByConfirmation
  BY <1>17 DEF arm_without_capability, WaitingByConfirmation, Waiting, RequestShape,
        RequestType, Withheld, Arming, journal
<1>18. ASSUME NEW i \in Surfaces, NEW a \in Actions, reject_managed_action_before_executor(i, a)
       PROVE  WaitingByConfirmation
  BY <1>18 DEF reject_managed_action_before_executor, WaitingByConfirmation, Waiting,
        RequestShape, RequestType, Withheld, Arming
<1>19. ASSUME NEW i \in Surfaces, take_return(i)
       PROVE  WaitingByConfirmation
  BY <1>19 DEF take_return, WaitingByConfirmation, Waiting, RequestShape, RequestType, Idle,
        bridge, journal
<1>20. ASSUME NEW i \in Surfaces, complete_managed_surface_action(i)
       PROVE  WaitingByConfirmation
  <2>1. /\ UNCHANGED queue
        /\ \/ request' = [request EXCEPT ![i].step = "claimed"]
           \/ request' = [request EXCEPT ![i] = Idle]
    BY <1>20 DEF complete_managed_surface_action
  <2>2. CASE request' = [request EXCEPT ![i].step = "claimed"]
    BY <2>1, <2>2 DEF WaitingByConfirmation, Waiting, RequestShape, RequestType
  <2>3. CASE request' = [request EXCEPT ![i] = Idle]
    BY <2>1, <2>3 DEF WaitingByConfirmation, Waiting, RequestShape, RequestType, Idle
  <2> QED
    BY <2>1, <2>2, <2>3
<1>21. ASSUME NEW i \in Surfaces, record_managed_consequential_executor_completion(i)
       PROVE  WaitingByConfirmation
  BY <1>21 DEF record_managed_consequential_executor_completion, WaitingByConfirmation, Waiting,
        RequestShape, RequestType, Idle, bridge, journal
<1>22. ASSUME Handlers
       PROVE  \/ UNCHANGED <<queue, request>>
              \/ confirm_enqueue
  BY <1>22 DEF Handlers, plan, plan_snapshot, plan_bind, plan_refused, plan_admit, confirm,
        confirm_refused, confirm_authorize, confirm_prepare, confirm_hold, bridge
<1>23. ASSUME NEW i \in Surfaces, Worker(i)
       PROVE  \/ UNCHANGED <<queue, request>>
              \/ take_surface_actions(i)
              \/ \E a \in Actions : complete_surface_action(i, a)
              \/ ensure_managed_surface_action_authority(i)
              \/ ensure_managed_surface_observation_binding(i)
              \/ take_managed_surface_actions(i)
              \/ arm_begin(i)
              \/ \E a \in Actions : arm_untracked(i, a)
              \/ \E a \in Actions : arm_tracked(i, a)
              \/ arm_exchange(i)
              \/ \E a \in Actions : arm_without_capability(i, a)
              \/ \E a \in Actions : reject_managed_action_before_executor(i, a)
              \/ take_return(i)
              \/ complete_managed_surface_action(i)
              \/ record_managed_consequential_executor_completion(i)
  BY <1>23 DEF Worker, bridge
<1>24. ASSUME NEW a \in Actions, Reconcile(a)
       PROVE  UNCHANGED <<queue, request>>
  BY <1>24 DEF Reconcile, reconcile_begin, reconcile_capture, abandon_postcondition_observation,
        reconcile_admit, reconcile_consequential_postconditions, record_committed, bridge
<1>25. ASSUME Release
       PROVE  \/ UNCHANGED <<queue, request>>
              \/ release_session
  BY <1>25 DEF Release, release_collect, release_report, release_records, bridge
<1>26. ASSUME Surroundings
       PROVE  \/ UNCHANGED <<queue, request>>
              \/ take_actions
              \/ clear_managed_surface_action_authority
              \/ \E i \in Surfaces : surface_request_dropped(i)
              \/ \E a \in Actions : request_action_cancellation(a)
              \/ \E a \in Actions : push_bounded(a)
  BY <1>26 DEF Surroundings, session_removed, request_dropped, release_provider_observation,
        reap_expired_surface_owner, activate_surface_resource, release_surface_resource,
        prune_expired, prune_expired_reconciliations, executor_acts, complete_action, bridge
<1> QED
  BY <1>1, <1>2, <1>3, <1>4, <1>5, <1>6, <1>7, <1>8, <1>9, <1>10, <1>11, <1>12, <1>13, <1>14,
     <1>15, <1>16, <1>17, <1>18, <1>19, <1>20, <1>21, <1>22, <1>23, <1>24, <1>25, <1>26
     DEF Next, vars, bridge, WaitingByConfirmation, Waiting

\* While no record expires, every step leaves a waiting action with its record.
LEMMA NextWaitingIsTracked ==
  ASSUME "record_expires" \notin Events, WaitingIsTracked, WaitingByConfirmation, SentOnce, HeldOnce,
         GateShape, ControlShape, JournalShape, [Next]_vars
  PROVE  WaitingIsTracked'
<1>1. ASSUME NEW a \in Actions, plan(a)
      PROVE  WaitingIsTracked'
  BY <1>1 DEF plan, WaitingIsTracked, WaitingByConfirmation, ControlShape, JournalShape,
        GateShape, GateType, GateHoldsAction, SentOnce, Sent, Waiting, Held, Free, Holding,
        control, journal
<1>2. ASSUME plan_snapshot
      PROVE  WaitingIsTracked'
  BY <1>2 DEF plan_snapshot, WaitingIsTracked, WaitingByConfirmation, ControlShape,
        JournalShape, GateShape, GateType, GateHoldsAction, SentOnce, Sent, Waiting, Held,
        control, journal
<1>3. ASSUME plan_bind
      PROVE  WaitingIsTracked'
  BY <1>3 DEF plan_bind, WaitingIsTracked, WaitingByConfirmation, ControlShape, JournalShape,
        GateShape, GateType, GateHoldsAction, SentOnce, Sent, Waiting, Held, Free, Holding,
        journal
<1>4. ASSUME plan_refused
      PROVE  WaitingIsTracked'
  BY <1>4 DEF plan_refused, WaitingIsTracked, WaitingByConfirmation, ControlShape, JournalShape,
        GateShape, GateType, GateHoldsAction, SentOnce, Sent, Waiting, Held, Free, control,
        journal
<1>5. ASSUME plan_admit
      PROVE  WaitingIsTracked'
  BY <1>5 DEF plan_admit, WaitingIsTracked, WaitingByConfirmation, ControlShape, JournalShape,
        GateShape, GateType, GateHoldsAction, SentOnce, Sent, Waiting, Held, Free
<1>6. ASSUME NEW a \in Actions, confirm(a)
      PROVE  WaitingIsTracked'
  <2>1. gate.step = "free" /\ (gate'.step = "free" \/ gate'.step = "confirm")
    <3>1. gate = Free /\ (gate' = Holding("confirm", a, planned[a]) \/ gate' = gate)
      BY <1>6 DEF confirm
    <3>2. Free.step = "free" /\ Holding("confirm", a, planned[a]).step = "confirm"
      BY DEF Free, Holding
    <3> QED
      BY <3>1, <3>2
  <2>2. UNCHANGED <<queue, request, prepared, record, grant>>
    BY <1>6 DEF confirm, journal
  <2>3. \A b \in Actions : Waiting(b)' => Waiting(b)
    BY <2>2 DEF Waiting
  <2>4. \A b \in Actions : Waiting(b)' /\ grant'[b] = "prepared" =>
          record'[b] # "none" /\ b \in prepared'
    BY <2>1, <2>2, <2>3 DEF WaitingIsTracked
  <2> QED
    BY <2>1, <2>4 DEF WaitingIsTracked
<1>7. ASSUME confirm_refused
      PROVE  WaitingIsTracked'
  BY <1>7 DEF confirm_refused, WaitingIsTracked, WaitingByConfirmation, ControlShape,
        JournalShape, GateShape, GateType, GateHoldsAction, SentOnce, Sent, Waiting, Held, Free,
        control, journal
<1>8. ASSUME confirm_authorize
      PROVE  WaitingIsTracked'
  BY <1>8 DEF confirm_authorize, WaitingIsTracked, WaitingByConfirmation, ControlShape,
        JournalShape, GateShape, GateType, GateHoldsAction, SentOnce, Sent, Waiting, Held, Free,
        Holding, control
<1>9. ASSUME confirm_prepare
      PROVE  WaitingIsTracked'
  BY <1>9 DEF confirm_prepare, WaitingIsTracked, WaitingByConfirmation, ControlShape,
        JournalShape, GateShape, GateType, GateHoldsAction, SentOnce, Sent, Waiting, Held, Free,
        Holding, control
<1>10. ASSUME confirm_hold
       PROVE  WaitingIsTracked'
  BY <1>10 DEF confirm_hold, WaitingIsTracked, WaitingByConfirmation, ControlShape,
        JournalShape, GateShape, GateType, GateHoldsAction, SentOnce, Sent, Waiting, Held, Free,
        Holding, journal
<1>11. ASSUME confirm_enqueue
       PROVE  WaitingIsTracked'
  BY <1>11 DEF confirm_enqueue, WaitingIsTracked, WaitingByConfirmation, ControlShape,
        JournalShape, GateShape, GateType, GateHoldsAction, SentOnce, Sent, Waiting, Held,
        RuleOut, Free, journal
<1>12. ASSUME release_collect
       PROVE  WaitingIsTracked'
  BY <1>12 DEF release_collect, WaitingIsTracked, WaitingByConfirmation, ControlShape,
        JournalShape, GateShape, GateType, GateHoldsAction, SentOnce, Sent, Waiting, Held, Free,
        journal
<1>13. ASSUME release_report
       PROVE  WaitingIsTracked'
  BY <1>13 DEF release_report, WaitingIsTracked, WaitingByConfirmation, ControlShape,
        JournalShape, GateShape, GateType, GateHoldsAction, SentOnce, Sent, Waiting, Held,
        RuleOut, control
<1>14. ASSUME release_records
       PROVE  WaitingIsTracked'
  BY <1>14 DEF release_records, WaitingIsTracked, WaitingByConfirmation, ControlShape,
        JournalShape, GateShape, GateType, GateHoldsAction, SentOnce, Sent, Waiting, Held, Free,
        journal
<1>15. ASSUME request_dropped
       PROVE  WaitingIsTracked'
  BY <1>15 DEF request_dropped, WaitingIsTracked, WaitingByConfirmation, ControlShape,
        JournalShape, GateShape, GateType, GateHoldsAction, SentOnce, Sent, Waiting, Held, Free,
        control, journal
<1>16. ASSUME NEW a \in Actions, prune_expired_reconciliations(a)
       PROVE  WaitingIsTracked'
  BY <1>16 DEF prune_expired_reconciliations, Error, journal
<1>17. ASSUME NEW i \in Surfaces, NEW a \in Actions, arm_tracked(i, a)
       PROVE  WaitingIsTracked'
  BY <1>17 DEF arm_tracked, WaitingIsTracked, WaitingByConfirmation, ControlShape, JournalShape,
        Free, Arming, HeldOnce, Held, Waiting, SentOnce, Sent, journal
<1>18. ASSUME NEW i \in Surfaces, arm_exchange(i)
       PROVE  WaitingIsTracked'
  BY <1>18 DEF arm_exchange, WaitingIsTracked, WaitingByConfirmation, ControlShape,
        JournalShape, Free
<1>19. ASSUME NEW i \in Surfaces, NEW a \in Actions, arm_without_capability(i, a)
       PROVE  WaitingIsTracked'
  BY <1>19 DEF arm_without_capability, WaitingIsTracked, WaitingByConfirmation, ControlShape,
        JournalShape, Free, Withheld, SetRecord, journal
<1>20. ASSUME NEW i \in Surfaces, NEW a \in Actions, reject_managed_action_before_executor(i, a)
       PROVE  WaitingIsTracked'
  BY <1>20 DEF reject_managed_action_before_executor, WaitingIsTracked, WaitingByConfirmation,
        ControlShape, JournalShape, Free, RuleOut, Arming, HeldOnce, Held, Waiting, SentOnce,
        Sent, Withheld, SetRecord
<1>21. ASSUME NEW i \in Surfaces, record_managed_consequential_executor_completion(i)
       PROVE  WaitingIsTracked'
  BY <1>21 DEF record_managed_consequential_executor_completion, WaitingIsTracked,
        WaitingByConfirmation, ControlShape, JournalShape, Free, journal
<1>22. ASSUME NEW a \in Actions, reconcile_begin(a)
       PROVE  WaitingIsTracked'
  BY <1>22 DEF reconcile_begin, WaitingIsTracked, WaitingByConfirmation, ControlShape,
        JournalShape, Free, SetRecord, set_reconciliation_required
<1>23. ASSUME NEW a \in Actions, abandon_postcondition_observation(a)
       PROVE  WaitingIsTracked'
  BY <1>23 DEF abandon_postcondition_observation, WaitingIsTracked, WaitingByConfirmation,
        ControlShape, JournalShape, Free, SetRecord, set_reconciliation_required
<1>24. ASSUME NEW a \in Actions, reconcile_admit(a)
       PROVE  WaitingIsTracked'
  BY <1>24 DEF reconcile_admit, WaitingIsTracked, WaitingByConfirmation, ControlShape,
        JournalShape, Free, control
<1>25. ASSUME NEW a \in Actions, reconcile_consequential_postconditions(a)
       PROVE  WaitingIsTracked'
  BY <1>25 DEF reconcile_consequential_postconditions, WaitingIsTracked, WaitingByConfirmation,
        ControlShape, JournalShape, Free, SetRecord, set_reconciliation_required
<1>26. ASSUME NEW a \in Actions, record_committed(a)
       PROVE  WaitingIsTracked'
  BY <1>26 DEF record_committed, WaitingIsTracked, WaitingByConfirmation, ControlShape,
        JournalShape, Free, SetRecord, set_reconciliation_required
<1>27. ASSUME Handlers
       PROVE  \/ UNCHANGED <<record, grant, prepared, gate>>
              \/ \E a \in Actions : plan(a)
              \/ plan_snapshot
              \/ plan_bind
              \/ plan_refused
              \/ plan_admit
              \/ \E a \in Actions : confirm(a)
              \/ confirm_refused
              \/ confirm_authorize
              \/ confirm_prepare
              \/ confirm_hold
              \/ confirm_enqueue
  BY <1>27 DEF Handlers, journal, control
<1>28. ASSUME NEW i \in Surfaces, Worker(i)
       PROVE  \/ UNCHANGED <<record, grant, prepared, gate>>
              \/ \E a \in Actions : arm_tracked(i, a)
              \/ arm_exchange(i)
              \/ \E a \in Actions : arm_without_capability(i, a)
              \/ \E a \in Actions : reject_managed_action_before_executor(i, a)
              \/ record_managed_consequential_executor_completion(i)
  BY <1>28 DEF Worker, take_surface_actions, complete_surface_action,
        ensure_managed_surface_action_authority, ensure_managed_surface_observation_binding,
        take_managed_surface_actions, arm_begin, arm_untracked, take_return,
        complete_managed_surface_action, journal, control
<1>29. ASSUME NEW a \in Actions, Reconcile(a)
       PROVE  \/ UNCHANGED <<record, grant, prepared, gate>>
              \/ reconcile_begin(a)
              \/ abandon_postcondition_observation(a)
              \/ reconcile_admit(a)
              \/ reconcile_consequential_postconditions(a)
              \/ record_committed(a)
  BY <1>29 DEF Reconcile, reconcile_capture, journal, control
<1>30. ASSUME Release
       PROVE  \/ UNCHANGED <<record, grant, prepared, gate>>
              \/ release_collect
              \/ release_report
              \/ release_records
  BY <1>30 DEF Release, release_session, journal, control
<1>31. ASSUME Surroundings
       PROVE  \/ UNCHANGED <<record, grant, prepared, gate>>
              \/ request_dropped
              \/ \E a \in Actions : prune_expired_reconciliations(a)
  BY <1>31 DEF Surroundings, session_removed, take_actions,
        clear_managed_surface_action_authority, release_provider_observation,
        reap_expired_surface_owner, activate_surface_resource, release_surface_resource,
        surface_request_dropped, prune_expired, executor_acts, complete_action,
        request_action_cancellation, Forget, push_bounded, journal, control
<1> QED
  BY <1>1, <1>2, <1>3, <1>4, <1>5, <1>6, <1>7, <1>8, <1>9, <1>10, <1>11, <1>12, <1>13, <1>14,
     <1>15, <1>16, <1>17, <1>18, <1>19, <1>20, <1>21, <1>22, <1>23, <1>24, <1>25, <1>26, <1>27,
     <1>28, <1>29, <1>30, <1>31 DEF Next, vars, journal, control, WaitingIsTracked,
        WaitingByConfirmation, Free

\* Nothing is exposed that still has its grant.
ExposedByExchange ==
  \A b \in Actions : Exposed(b)' => Exposed(b) \/ grant'[b] # "prepared"

\* Only a confirmation prepares a grant, and of its own action.
PreparedByConfirmation ==
  \A b \in Actions : grant'[b] = "prepared" => grant[b] = "prepared" \/ gate.action = b

\* No step exposes an action and leaves its grant prepared.
LEMMA NextExposed ==
  ASSUME WaitingIsTracked, RequestShape, JournalShape, WorldShape, [Next]_vars
  PROVE  ExposedByExchange
<1>1. ASSUME take_actions
      PROVE  ExposedByExchange
  BY <1>1, ConstantsAssumption DEF take_actions, ExposedByExchange, Exposed, WorldShape,
        PublicClient, Surfaces
<1>2. ASSUME NEW i \in Surfaces, surface_request_dropped(i)
      PROVE  ExposedByExchange
  BY <1>2 DEF surface_request_dropped, ExposedByExchange, Exposed, RequestShape, RequestType,
        Idle, world
<1>3. ASSUME NEW i \in Surfaces, take_surface_actions(i)
      PROVE  ExposedByExchange
  BY <1>3 DEF take_surface_actions, ExposedByExchange, Exposed, RequestShape, RequestType, Idle,
        validate_primary_surface_action_request, world
<1>4. ASSUME NEW i \in Surfaces, NEW a \in Actions, complete_surface_action(i, a)
      PROVE  ExposedByExchange
  BY <1>4 DEF complete_surface_action, ExposedByExchange, Exposed, RequestShape, RequestType,
        Idle, validate_primary_surface_action_request
<1>5. ASSUME NEW i \in Surfaces, ensure_managed_surface_action_authority(i)
      PROVE  ExposedByExchange
  BY <1>5 DEF ensure_managed_surface_action_authority, ExposedByExchange, Exposed, RequestShape,
        RequestType, world
<1>6. ASSUME NEW i \in Surfaces, ensure_managed_surface_observation_binding(i)
      PROVE  ExposedByExchange
  BY <1>6 DEF ensure_managed_surface_observation_binding, ExposedByExchange, Exposed,
        RequestShape, RequestType, world
<1>7. ASSUME NEW i \in Surfaces, take_managed_surface_actions(i)
      PROVE  ExposedByExchange
  BY <1>7 DEF take_managed_surface_actions, ExposedByExchange, Exposed, RequestShape,
        RequestType, Drained, world
<1>8. ASSUME NEW i \in Surfaces, arm_begin(i)
      PROVE  ExposedByExchange
  BY <1>8 DEF arm_begin, ExposedByExchange, Exposed, RequestShape, RequestType,
        WaitingIsTracked, Waiting, Records, journal, world
<1>9. ASSUME NEW i \in Surfaces, NEW a \in Actions, arm_untracked(i, a)
      PROVE  ExposedByExchange
  BY <1>9 DEF arm_untracked, ExposedByExchange, Exposed, RequestShape, RequestType, Arming,
        world
<1>10. ASSUME NEW i \in Surfaces, NEW a \in Actions, arm_tracked(i, a)
       PROVE  ExposedByExchange
  BY <1>10 DEF arm_tracked, ExposedByExchange, Exposed, RequestShape, RequestType, Arming, world
<1>11. ASSUME NEW i \in Surfaces, arm_exchange(i)
       PROVE  ExposedByExchange
  BY <1>11, RequestFields DEF arm_exchange, ExposedByExchange, Exposed, RequestShape,
        RequestType, JournalShape, world
<1>12. ASSUME NEW i \in Surfaces, NEW a \in Actions, arm_without_capability(i, a)
       PROVE  ExposedByExchange
  BY <1>12 DEF arm_without_capability, ExposedByExchange, Exposed, RequestShape, RequestType,
        Withheld, Arming, world
<1>13. ASSUME NEW i \in Surfaces, NEW a \in Actions, reject_managed_action_before_executor(i, a)
       PROVE  ExposedByExchange
  BY <1>13 DEF reject_managed_action_before_executor, ExposedByExchange, Exposed, RequestShape,
        RequestType, Withheld, Arming, world
<1>14. ASSUME NEW i \in Surfaces, take_return(i)
       PROVE  ExposedByExchange
  BY <1>14 DEF take_return, ExposedByExchange, Exposed, RequestShape, RequestType, Idle,
        WorldShape
<1>15. ASSUME NEW i \in Surfaces, complete_managed_surface_action(i)
       PROVE  ExposedByExchange
  <2>1. /\ UNCHANGED delivered
        /\ \/ request' = [request EXCEPT ![i].step = "claimed"]
           \/ request' = [request EXCEPT ![i] = Idle]
    BY <1>15 DEF complete_managed_surface_action
  <2>2. CASE request' = [request EXCEPT ![i].step = "claimed"]
    BY <2>1, <2>2 DEF ExposedByExchange, Exposed, RequestShape, RequestType
  <2>3. CASE request' = [request EXCEPT ![i] = Idle]
    BY <2>1, <2>3 DEF ExposedByExchange, Exposed, RequestShape, RequestType, Idle
  <2> QED
    BY <2>1, <2>2, <2>3
<1>16. ASSUME NEW i \in Surfaces, record_managed_consequential_executor_completion(i)
       PROVE  ExposedByExchange
  BY <1>16 DEF record_managed_consequential_executor_completion, ExposedByExchange, Exposed,
        RequestShape, RequestType, Idle, JournalShape
<1>17. ASSUME Handlers
       PROVE  UNCHANGED <<request, delivered>>
  BY <1>17 DEF Handlers, plan, plan_snapshot, plan_bind, plan_refused, plan_admit, confirm,
        confirm_refused, confirm_authorize, confirm_prepare, confirm_hold, confirm_enqueue,
        world
<1>18. ASSUME NEW i \in Surfaces, Worker(i)
       PROVE  \/ UNCHANGED <<request, delivered>>
              \/ take_surface_actions(i)
              \/ \E a \in Actions : complete_surface_action(i, a)
              \/ ensure_managed_surface_action_authority(i)
              \/ ensure_managed_surface_observation_binding(i)
              \/ take_managed_surface_actions(i)
              \/ arm_begin(i)
              \/ \E a \in Actions : arm_untracked(i, a)
              \/ \E a \in Actions : arm_tracked(i, a)
              \/ arm_exchange(i)
              \/ \E a \in Actions : arm_without_capability(i, a)
              \/ \E a \in Actions : reject_managed_action_before_executor(i, a)
              \/ take_return(i)
              \/ complete_managed_surface_action(i)
              \/ record_managed_consequential_executor_completion(i)
  BY <1>18 DEF Worker, world
<1>19. ASSUME NEW a \in Actions, Reconcile(a)
       PROVE  UNCHANGED <<request, delivered>>
  BY <1>19 DEF Reconcile, reconcile_begin, reconcile_capture, abandon_postcondition_observation,
        reconcile_admit, reconcile_consequential_postconditions, record_committed, world
<1>20. ASSUME Release
       PROVE  UNCHANGED <<request, delivered>>
  BY <1>20 DEF Release, release_collect, release_report, release_records, release_session, world
<1>21. ASSUME Surroundings
       PROVE  \/ UNCHANGED <<request, delivered>>
              \/ take_actions
              \/ \E i \in Surfaces : surface_request_dropped(i)
  BY <1>21 DEF Surroundings, session_removed, request_dropped,
        clear_managed_surface_action_authority, release_provider_observation,
        reap_expired_surface_owner, activate_surface_resource, release_surface_resource,
        prune_expired, prune_expired_reconciliations, executor_acts, complete_action,
        request_action_cancellation, Forget, push_bounded, world
<1> QED
  BY <1>1, <1>2, <1>3, <1>4, <1>5, <1>6, <1>7, <1>8, <1>9, <1>10, <1>11, <1>12, <1>13, <1>14,
     <1>15, <1>16, <1>17, <1>18, <1>19, <1>20, <1>21 DEF Next, vars, world, ExposedByExchange,
        Exposed

\* Only a confirmation prepares a grant.
LEMMA NextPrepared ==
  ASSUME JournalShape, [Next]_vars
  PROVE  PreparedByConfirmation
<1>1. ASSUME confirm_prepare
      PROVE  PreparedByConfirmation
  BY <1>1 DEF confirm_prepare, PreparedByConfirmation, JournalShape
<1>2. ASSUME confirm_enqueue
      PROVE  PreparedByConfirmation
  BY <1>2 DEF confirm_enqueue, PreparedByConfirmation, JournalShape, RuleOut, journal
<1>3. ASSUME release_report
      PROVE  PreparedByConfirmation
  BY <1>3 DEF release_report, PreparedByConfirmation, JournalShape, RuleOut
<1>4. ASSUME NEW i \in Surfaces, arm_exchange(i)
      PROVE  PreparedByConfirmation
  BY <1>4 DEF arm_exchange, PreparedByConfirmation, JournalShape
<1>5. ASSUME NEW i \in Surfaces, NEW a \in Actions, reject_managed_action_before_executor(i, a)
      PROVE  PreparedByConfirmation
  BY <1>5 DEF reject_managed_action_before_executor, PreparedByConfirmation, JournalShape,
        RuleOut
<1>6. ASSUME NEW i \in Surfaces, record_managed_consequential_executor_completion(i)
      PROVE  PreparedByConfirmation
  BY <1>6 DEF record_managed_consequential_executor_completion, PreparedByConfirmation,
        JournalShape, journal
<1>7. ASSUME NEW a \in Actions, reconcile_begin(a)
      PROVE  PreparedByConfirmation
  BY <1>7 DEF reconcile_begin, PreparedByConfirmation, JournalShape
<1>8. ASSUME NEW a \in Actions, abandon_postcondition_observation(a)
      PROVE  PreparedByConfirmation
  BY <1>8 DEF abandon_postcondition_observation, PreparedByConfirmation, JournalShape
<1>9. ASSUME NEW a \in Actions, reconcile_admit(a)
      PROVE  PreparedByConfirmation
  BY <1>9 DEF reconcile_admit, PreparedByConfirmation, JournalShape
<1>10. ASSUME Handlers
       PROVE  \/ UNCHANGED grant
              \/ confirm_prepare
              \/ confirm_enqueue
  BY <1>10 DEF Handlers, plan, plan_snapshot, plan_bind, plan_refused, plan_admit, confirm,
        confirm_refused, confirm_authorize, confirm_hold, journal
<1>11. ASSUME NEW i \in Surfaces, Worker(i)
       PROVE  \/ UNCHANGED grant
              \/ arm_exchange(i)
              \/ \E a \in Actions : reject_managed_action_before_executor(i, a)
              \/ record_managed_consequential_executor_completion(i)
  BY <1>11 DEF Worker, take_surface_actions, complete_surface_action,
        ensure_managed_surface_action_authority, ensure_managed_surface_observation_binding,
        take_managed_surface_actions, arm_begin, arm_untracked, arm_tracked,
        arm_without_capability, Withheld, take_return, complete_managed_surface_action, journal
<1>12. ASSUME NEW a \in Actions, Reconcile(a)
       PROVE  \/ UNCHANGED grant
              \/ reconcile_begin(a)
              \/ abandon_postcondition_observation(a)
              \/ reconcile_admit(a)
  BY <1>12 DEF Reconcile, reconcile_capture, reconcile_consequential_postconditions,
        record_committed, journal
<1>13. ASSUME Release
       PROVE  \/ UNCHANGED grant
              \/ release_report
  BY <1>13 DEF Release, release_collect, release_records, release_session, journal
<1>14. ASSUME Surroundings
       PROVE  UNCHANGED grant
  BY <1>14 DEF Surroundings, session_removed, request_dropped, take_actions,
        clear_managed_surface_action_authority, release_provider_observation,
        reap_expired_surface_owner, activate_surface_resource, release_surface_resource,
        surface_request_dropped, prune_expired, prune_expired_reconciliations, executor_acts,
        complete_action, request_action_cancellation, Forget, push_bounded, journal
<1> QED
  BY <1>1, <1>2, <1>3, <1>4, <1>5, <1>6, <1>7, <1>8, <1>9, <1>10, <1>11, <1>12, <1>13, <1>14
     DEF Next, vars, journal, PreparedByConfirmation

\* Every step leaves an exposed action with a grant that was exchanged.
LEMMA NextExposedIsExchanged ==
  ASSUME ExposedIsExchanged, SentOnce, ExposedByExchange, PreparedByConfirmation, RequestShape,
         WorldShape
  PROVE  ExposedIsExchanged'
<1>1. \A a \in Actions : Exposed(a) => Sent(a)
  <2>1. 0 \notin Surfaces
    BY ConstantsAssumption DEF Surfaces
  <2> QED
    BY <2>1 DEF Exposed, Sent, Held
<1> QED
  BY <1>1 DEF ExposedIsExchanged, SentOnce, ExposedByExchange, PreparedByConfirmation

\* While no record expires, what is exposed has exchanged its grant in every reachable state.
LEMMA PermitInvariant ==
  ASSUME "record_expires" \notin Events
  PROVE  Spec => []PermitInv
<1>1. ASSUME Init PROVE PermitInv
  <2>1. \A a \in Actions : ~Sent(a) /\ ~Waiting(a) /\ ~Exposed(a)
    BY <1>1, ConstantsAssumption DEF Init, Sent, Held, Waiting, Exposed, Idle, Surfaces
  <2>2. OneShotInv
    BY <1>1, InitOneShot
  <2> QED
    BY <1>1, <2>1, <2>2 DEF PermitInv, Init, Free, SentIsPrepared, WaitingIsTracked,
          ExposedIsExchanged
<1>2. ASSUME PermitInv, [Next]_vars PROVE PermitInv'
  <2>1. /\ OneShotInv /\ SentIsPrepared /\ WaitingIsTracked /\ ExposedIsExchanged
        /\ ShapeInv /\ GateMarks /\ CapabilityHeld /\ SentOnce /\ HeldOnce
        /\ RequestShape /\ WorldShape /\ ControlShape /\ JournalShape /\ GateShape
    BY <1>2 DEF PermitInv, OneShotInv, ShapeInv, Shape, GateShape, RequestShape
  <2>2. /\ OneShotInv' /\ SentByConfirmation /\ WaitingByConfirmation /\ ExposedByExchange
        /\ PreparedByConfirmation
    BY <1>2, <2>1, NextOneShot, NextSent, NextWaiting, NextExposed, NextPrepared
  <2>3. SentIsPrepared' /\ WaitingIsTracked' /\ ExposedIsExchanged'
    BY <1>2, <2>1, <2>2, NextSentIsPrepared, NextWaitingIsTracked, NextExposedIsExchanged
  <2> QED
    BY <2>2, <2>3 DEF PermitInv
<1> QED
  BY <1>1, <1>2, PTL DEF Spec

\* A surface is handed an action only after its capability was exchanged
\* (arm_managed_consequential_actions_for_executor finds the record, takes the
\* capability and calls begin_dispatch), as long as no reconciliation record
\* expires while its action is on the way: the code takes an action without a
\* record for one that needs no permit.
THEOREM DispatchIsPermitted ==
  ASSUME "record_expires" \notin Events
  PROVE  Spec => []DispatchNeedsPermit
<1>1. PermitInv => DispatchNeedsPermit
  <2>1. 0 \notin Surfaces
    BY ConstantsAssumption DEF Surfaces
  <2> QED
    BY <2>1 DEF PermitInv, SentIsPrepared, ExposedIsExchanged, Sent, Exposed, Early,
          DispatchNeedsPermit
<1> QED
  BY <1>1, PermitInvariant, PTL

-----------------------------------------------------------------------------
(***************************************************************************)
(* What the journal rules out.                                             *)
(***************************************************************************)
SessionStays == session = "present" /\ gate.step \notin {"release", "records"}

RuledOutIsNowhere ==
  \A a \in Actions :
    stage[a] = "not_dispatched" =>
      planned[a] # 0 /\ ~Sent(a) /\ a \notin pending /\ gate.action # a

KnownInv == OneShotInv /\ SessionStays /\ RuledOutIsNowhere

\* Where no session is removed, every step leaves the session in place.
LEMMA NextSessionStays ==
  ASSUME "session_removed" \notin Events, SessionStays, [Next]_vars
  PROVE  SessionStays'
<1> USE DEF SessionStays
<1>1. ASSUME NEW a \in Actions, plan(a)
      PROVE  SessionStays'
  BY <1>1 DEF plan, Free, Holding, places
<1>2. ASSUME plan_snapshot
      PROVE  SessionStays'
  BY <1>2 DEF plan_snapshot, places
<1>3. ASSUME plan_bind
      PROVE  SessionStays'
  BY <1>3 DEF plan_bind, Free, Holding, places
<1>4. ASSUME plan_refused
      PROVE  SessionStays'
  BY <1>4 DEF plan_refused, Free, places
<1>5. ASSUME plan_admit
      PROVE  SessionStays'
  BY <1>5 DEF plan_admit, Free, places
<1>6. ASSUME NEW a \in Actions, confirm(a)
      PROVE  SessionStays'
  BY <1>6 DEF confirm, Free, Holding, places
<1>7. ASSUME confirm_refused
      PROVE  SessionStays'
  BY <1>7 DEF confirm_refused, Free, places
<1>8. ASSUME confirm_authorize
      PROVE  SessionStays'
  BY <1>8 DEF confirm_authorize, Free, Holding, places
<1>9. ASSUME confirm_prepare
      PROVE  SessionStays'
  BY <1>9 DEF confirm_prepare, Free, Holding, places
<1>10. ASSUME confirm_hold
       PROVE  SessionStays'
  BY <1>10 DEF confirm_hold, Free, Holding, places
<1>11. ASSUME confirm_enqueue
       PROVE  SessionStays'
  BY <1>11 DEF confirm_enqueue, Free, places
<1>12. ASSUME release_collect
       PROVE  SessionStays'
  BY <1>12 DEF release_collect, Free, places
<1>13. ASSUME release_report
       PROVE  SessionStays'
  BY <1>13 DEF release_report, Free, places
<1>14. ASSUME release_records
       PROVE  SessionStays'
  BY <1>14 DEF release_records, Free
<1>15. ASSUME release_session
       PROVE  SessionStays'
  BY <1>15 DEF release_session, Free
<1>16. ASSUME session_removed
       PROVE  SessionStays'
  BY <1>16 DEF session_removed, Error
<1>17. ASSUME request_dropped
       PROVE  SessionStays'
  BY <1>17 DEF request_dropped, Free, places
<1>18. ASSUME Handlers
       PROVE  \/ UNCHANGED <<session, gate>>
              \/ \E a \in Actions : plan(a)
              \/ plan_snapshot
              \/ plan_bind
              \/ plan_refused
              \/ plan_admit
              \/ \E a \in Actions : confirm(a)
              \/ confirm_refused
              \/ confirm_authorize
              \/ confirm_prepare
              \/ confirm_hold
              \/ confirm_enqueue
  BY <1>18 DEF Handlers, places
<1>19. ASSUME NEW i \in Surfaces, Worker(i)
       PROVE  UNCHANGED <<session, gate>>
  BY <1>19 DEF Worker, take_surface_actions, complete_surface_action,
        ensure_managed_surface_action_authority, ensure_managed_surface_observation_binding,
        take_managed_surface_actions, arm_begin, arm_untracked, arm_tracked, arm_exchange,
        arm_without_capability, Withheld, reject_managed_action_before_executor, take_return,
        complete_managed_surface_action, record_managed_consequential_executor_completion,
        places
<1>20. ASSUME NEW a \in Actions, Reconcile(a)
       PROVE  UNCHANGED <<session, gate>>
  BY <1>20 DEF Reconcile, reconcile_begin, reconcile_capture, abandon_postcondition_observation,
        reconcile_admit, reconcile_consequential_postconditions, record_committed, places
<1>21. ASSUME Release
       PROVE  \/ UNCHANGED <<session, gate>>
              \/ release_collect
              \/ release_report
              \/ release_records
              \/ release_session
  BY <1>21 DEF Release, places
<1>22. ASSUME Surroundings
       PROVE  \/ UNCHANGED <<session, gate>>
              \/ session_removed
              \/ request_dropped
  BY <1>22 DEF Surroundings, take_actions, clear_managed_surface_action_authority,
        release_provider_observation, reap_expired_surface_owner, activate_surface_resource,
        release_surface_resource, surface_request_dropped, prune_expired,
        prune_expired_reconciliations, executor_acts, complete_action,
        request_action_cancellation, Forget, push_bounded, places
<1> QED
  BY <1>1, <1>2, <1>3, <1>4, <1>5, <1>6, <1>7, <1>8, <1>9, <1>10, <1>11, <1>12, <1>13, <1>14,
     <1>15, <1>16, <1>17, <1>18, <1>19, <1>20, <1>21, <1>22 DEF Next, vars, places

\* Every step leaves an action that was ruled out nowhere on its way.
LEMMA NextRuledOut ==
  ASSUME RuledOutIsNowhere, SentByConfirmation, UnplannedNowhere, SentOnce, HeldOnce,
         GateMarks, SessionStays, RequestShape, GateShape, ControlShape, JournalShape, [Next]_vars
  PROVE  RuledOutIsNowhere'
<1>1. ASSUME NEW a \in Actions, plan(a)
      PROVE  RuledOutIsNowhere'
  BY <1>1, ConstantsAssumption DEF plan, RuledOutIsNowhere, SentByConfirmation, JournalShape,
        GateShape, GateType, GateHoldsAction, Free, Holding, GateMarks, bridge, control,
        journal, world
<1>2. ASSUME plan_snapshot
      PROVE  RuledOutIsNowhere'
  BY <1>2, ConstantsAssumption DEF plan_snapshot, RuledOutIsNowhere, SentByConfirmation,
        JournalShape, GateShape, GateType, GateHoldsAction, Free, bridge, control, journal,
        world
<1>3. ASSUME plan_bind
      PROVE  RuledOutIsNowhere'
  BY <1>3, ConstantsAssumption DEF plan_bind, RuledOutIsNowhere, SentByConfirmation,
        JournalShape, GateShape, GateType, GateHoldsAction, Free, Holding, ControlShape,
        GateMarks, journal, world
<1>4. ASSUME plan_refused
      PROVE  RuledOutIsNowhere'
  BY <1>4, ConstantsAssumption DEF plan_refused, RuledOutIsNowhere, SentByConfirmation,
        JournalShape, GateShape, GateType, GateHoldsAction, Free, bridge, control, journal,
        world
<1>5. ASSUME plan_admit
      PROVE  RuledOutIsNowhere'
  BY <1>5, ConstantsAssumption DEF plan_admit, RuledOutIsNowhere, SentByConfirmation,
        JournalShape, GateShape, GateType, GateHoldsAction, Free, world
<1>6. ASSUME NEW a \in Actions, confirm(a)
      PROVE  RuledOutIsNowhere'
  BY <1>6, ConstantsAssumption DEF confirm, RuledOutIsNowhere, SentByConfirmation, JournalShape,
        GateShape, GateType, GateHoldsAction, Free, Holding, journal, world
<1>7. ASSUME confirm_refused
      PROVE  RuledOutIsNowhere'
  BY <1>7, ConstantsAssumption DEF confirm_refused, RuledOutIsNowhere, SentByConfirmation,
        JournalShape, GateShape, GateType, GateHoldsAction, Free, control, journal, world
<1>8. ASSUME confirm_authorize
      PROVE  RuledOutIsNowhere'
  BY <1>8, ConstantsAssumption DEF confirm_authorize, RuledOutIsNowhere, SentByConfirmation,
        JournalShape, GateShape, GateType, GateHoldsAction, Free, Holding, bridge, control,
        world
<1>9. ASSUME confirm_prepare
      PROVE  RuledOutIsNowhere'
  BY <1>9, ConstantsAssumption DEF confirm_prepare, RuledOutIsNowhere, SentByConfirmation,
        JournalShape, GateShape, GateType, GateHoldsAction, Free, Holding, bridge, control,
        world
<1>10. ASSUME confirm_hold
       PROVE  RuledOutIsNowhere'
  BY <1>10, ConstantsAssumption DEF confirm_hold, RuledOutIsNowhere, SentByConfirmation,
        JournalShape, GateShape, GateType, GateHoldsAction, Free, Holding, bridge, journal,
        world
<1>11. ASSUME confirm_enqueue
       PROVE  RuledOutIsNowhere'
  BY <1>11, ConstantsAssumption DEF confirm_enqueue, RuledOutIsNowhere, SentByConfirmation,
        JournalShape, GateShape, GateType, GateHoldsAction, Free, RuleOut, SentOnce, Sent, Held,
        UnplannedNowhere, journal, world
<1>12. ASSUME release_collect
       PROVE  RuledOutIsNowhere'
  BY <1>12, ConstantsAssumption DEF release_collect, RuledOutIsNowhere, SentByConfirmation,
        JournalShape, GateShape, GateType, GateHoldsAction, Free, SessionStays, bridge, journal,
        world
<1>13. ASSUME release_report
       PROVE  RuledOutIsNowhere'
  BY <1>13, ConstantsAssumption DEF release_report, RuledOutIsNowhere, SentByConfirmation,
        JournalShape, GateShape, GateType, GateHoldsAction, Free, SessionStays, bridge, control,
        world
<1>14. ASSUME release_records
       PROVE  RuledOutIsNowhere'
  BY <1>14, ConstantsAssumption DEF release_records, RuledOutIsNowhere, SentByConfirmation,
        JournalShape, GateShape, GateType, GateHoldsAction, Free, SessionStays, bridge, journal,
        world
<1>15. ASSUME request_dropped
       PROVE  RuledOutIsNowhere'
  BY <1>15, ConstantsAssumption DEF request_dropped, RuledOutIsNowhere, SentByConfirmation,
        JournalShape, GateShape, GateType, GateHoldsAction, Free, bridge, control, journal,
        world
<1>16. ASSUME NEW a \in Actions, prune_expired(a)
       PROVE  RuledOutIsNowhere'
  BY <1>16 DEF prune_expired, RuledOutIsNowhere, SentByConfirmation, JournalShape, Free,
        journal, world
<1>17. ASSUME NEW i \in Surfaces, NEW a \in Actions, reject_managed_action_before_executor(i, a)
       PROVE  RuledOutIsNowhere'
  <2>1. /\ UNCHANGED <<planned, pending, gate, queue, delivered>>
        /\ request' = [request EXCEPT ![i].batch = @ \ {a}]
        /\ a \in request[i].batch
    BY <1>17 DEF reject_managed_action_before_executor, Withheld, Arming, world
  <2>2. \A b \in Actions \ {a} : stage'[b] = "not_dispatched" => stage[b] = "not_dispatched"
    BY <1>17 DEF reject_managed_action_before_executor, RuleOut, JournalShape
  <2>3. Sent(a)
    BY <2>1 DEF Sent, Held
  <2>4. ~Sent(a)'
    BY <2>1 DEF HeldOnce, Sent, Held, RequestShape, RequestType
  <2>5. \A b \in Actions : Sent(b)' => Sent(b)
    BY <2>1 DEF SentByConfirmation, Free, RuledOutIsNowhere, SentOnce, GateMarks
  <2> QED
    BY <2>1, <2>2, <2>3, <2>4, <2>5 DEF RuledOutIsNowhere, UnplannedNowhere, SentOnce
<1>18. ASSUME NEW i \in Surfaces, record_managed_consequential_executor_completion(i)
       PROVE  RuledOutIsNowhere'
  BY <1>18 DEF record_managed_consequential_executor_completion, RuledOutIsNowhere,
        SentByConfirmation, JournalShape, Free, bridge, journal
<1>19. ASSUME NEW a \in Actions, reconcile_consequential_postconditions(a)
       PROVE  RuledOutIsNowhere'
  BY <1>19 DEF reconcile_consequential_postconditions, RuledOutIsNowhere, SentByConfirmation,
        JournalShape, Free, bridge, world
<1>20. ASSUME NEW a \in Actions, record_committed(a)
       PROVE  RuledOutIsNowhere'
  BY <1>20 DEF record_committed, RuledOutIsNowhere, SentByConfirmation, JournalShape, Free,
        bridge, world
<1>21. ASSUME Handlers
       PROVE  \/ UNCHANGED <<stage, planned, pending, gate>>
              \/ \E a \in Actions : plan(a)
              \/ plan_snapshot
              \/ plan_bind
              \/ plan_refused
              \/ plan_admit
              \/ \E a \in Actions : confirm(a)
              \/ confirm_refused
              \/ confirm_authorize
              \/ confirm_prepare
              \/ confirm_hold
              \/ confirm_enqueue
  BY <1>21 DEF Handlers, journal, control
<1>22. ASSUME NEW i \in Surfaces, Worker(i)
       PROVE  \/ UNCHANGED <<stage, planned, pending, gate>>
              \/ \E a \in Actions : reject_managed_action_before_executor(i, a)
              \/ record_managed_consequential_executor_completion(i)
  BY <1>22 DEF Worker, take_surface_actions, complete_surface_action,
        ensure_managed_surface_action_authority, ensure_managed_surface_observation_binding,
        take_managed_surface_actions, arm_begin, arm_untracked, arm_tracked, arm_exchange,
        arm_without_capability, Withheld, take_return, complete_managed_surface_action, journal,
        control
<1>23. ASSUME NEW a \in Actions, Reconcile(a)
       PROVE  \/ UNCHANGED <<stage, planned, pending, gate>>
              \/ reconcile_consequential_postconditions(a)
              \/ record_committed(a)
  BY <1>23 DEF Reconcile, reconcile_begin, reconcile_capture, abandon_postcondition_observation,
        reconcile_admit, journal, control
<1>24. ASSUME Release
       PROVE  \/ UNCHANGED <<stage, planned, pending, gate>>
              \/ release_collect
              \/ release_report
              \/ release_records
  BY <1>24 DEF Release, release_session, journal, control
<1>25. ASSUME Surroundings
       PROVE  \/ UNCHANGED <<stage, planned, pending, gate>>
              \/ request_dropped
              \/ \E a \in Actions : prune_expired(a)
  BY <1>25 DEF Surroundings, session_removed, take_actions,
        clear_managed_surface_action_authority, release_provider_observation,
        reap_expired_surface_owner, activate_surface_resource, release_surface_resource,
        surface_request_dropped, prune_expired_reconciliations, executor_acts, complete_action,
        request_action_cancellation, Forget, push_bounded, journal, control
<1> QED
  BY <1>1, <1>2, <1>3, <1>4, <1>5, <1>6, <1>7, <1>8, <1>9, <1>10, <1>11, <1>12, <1>13, <1>14,
     <1>15, <1>16, <1>17, <1>18, <1>19, <1>20, <1>21, <1>22, <1>23, <1>24, <1>25 DEF Next, vars,
        journal, control, RuledOutIsNowhere, SentByConfirmation, Free

\* Where no session is removed, what is ruled out is nowhere in every reachable state.
LEMMA KnownInvariant ==
  ASSUME "session_removed" \notin Events
  PROVE  Spec => []KnownInv
<1>1. ASSUME Init PROVE KnownInv
  BY <1>1, InitOneShot DEF Init, KnownInv, SessionStays, RuledOutIsNowhere, Free
<1>2. ASSUME KnownInv, [Next]_vars PROVE KnownInv'
  <2>1. /\ OneShotInv /\ SessionStays /\ RuledOutIsNowhere
        /\ ShapeInv /\ GateMarks /\ CapabilityHeld /\ UnplannedNowhere /\ SentOnce /\ HeldOnce
        /\ RequestShape /\ WorldShape /\ ControlShape /\ JournalShape /\ GateShape
    BY <1>2 DEF KnownInv, OneShotInv, ShapeInv, Shape, GateShape, RequestShape
  <2>2. OneShotInv' /\ SentByConfirmation /\ SessionStays'
    BY <1>2, <2>1, NextOneShot, NextSent, NextSessionStays
  <2>3. RuledOutIsNowhere'
    BY <1>2, <2>1, <2>2, NextRuledOut
  <2> QED
    BY <2>2, <2>3 DEF KnownInv
<1> QED
  BY <1>1, <1>2, PTL DEF Spec

\* While the session stays, known_not_dispatched is the truth: the journal
\* rules an action out only when the gate or the batch lets go of it for good
\* (the rollback of confirm, reject_managed_action_before_executor).  A release
\* of the session reports for actions that may be queued or drained.
THEOREM RuledOutWasNotDelivered ==
  ASSUME "session_removed" \notin Events
  PROVE  Spec => []KnownNotDispatchedIsTrue
<1>1. KnownInv => KnownNotDispatchedIsTrue
  BY DEF KnownInv, RuledOutIsNowhere, Sent, KnownNotDispatchedIsTrue
<1> QED
  BY <1>1, KnownInvariant, PTL

-----------------------------------------------------------------------------
(***************************************************************************)
(* One surface after the other.                                            *)
(***************************************************************************)
OneSurface == \A i, j \in live : i = j

\* Plans are made for surfaces that have been opened, and a surface that has
\* been opened does not come back.
PlannedWasOpened ==
  /\ \A a \in Actions : planned[a] # 0 => planned[a] \in opened
  /\ gate.step \in {"plan", "snapshot", "bind"} => gate.authority \in opened

\* What is reported and reconciled was planned.
ReportedWasPlanned ==
  /\ \A i \in Surfaces : request[i].result \in Actions => planned[request[i].result] # 0
  /\ \A a \in Actions :
       task[a] # "idle" \/ stage[a] \in {"verified", "committed"} => planned[a] # 0

\* A snapshot of another surface than the planned one was taken when the
\* planned one had gone for good.
CapturedOnPlanned ==
  \A a \in Actions :
    /\ task[a] = "captured" => captured[a] = planned[a] \/ planned[a] \notin live
    /\ task[a] \in {"observed", "verified"} => captured[a] = planned[a]
    /\ task[a] = "observing" => stage[a] \notin {"verified", "committed"}
    /\ stage[a] \in {"verified", "committed"} => captured[a] = planned[a]

SurfaceInv ==
  OneShotInv /\ OneSurface /\ PlannedWasOpened /\ ReportedWasPlanned /\ CapturedOnPlanned

\* Where no second surface is opened, every step leaves one.
LEMMA NextOneSurface ==
  ASSUME "second_surface" \notin Events, OneSurface, [Next]_vars
  PROVE  OneSurface'
<1> USE DEF OneSurface
<1>1. ASSUME reap_expired_surface_owner
      PROVE  OneSurface'
  BY <1>1 DEF reap_expired_surface_owner
<1>2. ASSUME NEW i \in Surfaces, activate_surface_resource(i)
      PROVE  OneSurface'
  BY <1>2 DEF activate_surface_resource, Error
<1>3. ASSUME NEW i \in Surfaces, release_surface_resource(i)
      PROVE  OneSurface'
  BY <1>3 DEF release_surface_resource
<1>4. ASSUME Handlers
      PROVE  UNCHANGED live
  BY <1>4 DEF Handlers, plan, plan_snapshot, plan_bind, plan_refused, plan_admit, confirm,
        confirm_refused, confirm_authorize, confirm_prepare, confirm_hold, confirm_enqueue,
        places
<1>5. ASSUME NEW i \in Surfaces, Worker(i)
      PROVE  UNCHANGED live
  BY <1>5 DEF Worker, take_surface_actions, complete_surface_action,
        ensure_managed_surface_action_authority, ensure_managed_surface_observation_binding,
        take_managed_surface_actions, arm_begin, arm_untracked, arm_tracked, arm_exchange,
        arm_without_capability, Withheld, reject_managed_action_before_executor, take_return,
        complete_managed_surface_action, record_managed_consequential_executor_completion,
        places
<1>6. ASSUME NEW a \in Actions, Reconcile(a)
      PROVE  UNCHANGED live
  BY <1>6 DEF Reconcile, reconcile_begin, reconcile_capture, abandon_postcondition_observation,
        reconcile_admit, reconcile_consequential_postconditions, record_committed, places
<1>7. ASSUME Release
      PROVE  UNCHANGED live
  BY <1>7 DEF Release, release_collect, release_report, release_records, release_session, places
<1>8. ASSUME Surroundings
      PROVE  \/ UNCHANGED live
             \/ reap_expired_surface_owner
             \/ \E i \in Surfaces : activate_surface_resource(i)
             \/ \E i \in Surfaces : release_surface_resource(i)
  BY <1>8 DEF Surroundings, session_removed, request_dropped, take_actions,
        clear_managed_surface_action_authority, release_provider_observation,
        surface_request_dropped, prune_expired, prune_expired_reconciliations, executor_acts,
        complete_action, request_action_cancellation, Forget, push_bounded, places
<1> QED
  BY <1>1, <1>2, <1>3, <1>4, <1>5, <1>6, <1>7, <1>8 DEF Next, vars, places

\* A plan keeps the surface that it was made for.
PlannedStays == \A b \in Actions : planned[b] # 0 => planned'[b] = planned[b]

\* No step changes the surface that an action was planned for.
LEMMA NextPlannedStays ==
  ASSUME GateMarks, ControlShape, [Next]_vars
  PROVE  PlannedStays
<1>1. ASSUME plan_bind
      PROVE  PlannedStays
  BY <1>1 DEF plan_bind, PlannedStays, GateMarks, ControlShape
<1>2. ASSUME Handlers
      PROVE  \/ UNCHANGED planned
             \/ plan_bind
  BY <1>2 DEF Handlers, plan, plan_snapshot, plan_refused, plan_admit, confirm, confirm_refused,
        confirm_authorize, confirm_prepare, confirm_hold, confirm_enqueue, control
<1>3. ASSUME NEW i \in Surfaces, Worker(i)
      PROVE  UNCHANGED planned
  BY <1>3 DEF Worker, take_surface_actions, complete_surface_action,
        ensure_managed_surface_action_authority, ensure_managed_surface_observation_binding,
        take_managed_surface_actions, arm_begin, arm_untracked, arm_tracked, arm_exchange,
        arm_without_capability, Withheld, reject_managed_action_before_executor, take_return,
        complete_managed_surface_action, record_managed_consequential_executor_completion,
        control
<1>4. ASSUME NEW a \in Actions, Reconcile(a)
      PROVE  UNCHANGED planned
  BY <1>4 DEF Reconcile, reconcile_begin, reconcile_capture, abandon_postcondition_observation,
        reconcile_admit, reconcile_consequential_postconditions, record_committed, control
<1>5. ASSUME Release
      PROVE  UNCHANGED planned
  BY <1>5 DEF Release, release_collect, release_report, release_records, release_session,
        control
<1>6. ASSUME Surroundings
      PROVE  UNCHANGED planned
  BY <1>6 DEF Surroundings, session_removed, request_dropped, take_actions,
        clear_managed_surface_action_authority, release_provider_observation,
        reap_expired_surface_owner, activate_surface_resource, release_surface_resource,
        surface_request_dropped, prune_expired, prune_expired_reconciliations, executor_acts,
        complete_action, request_action_cancellation, Forget, push_bounded, control
<1> QED
  BY <1>1, <1>2, <1>3, <1>4, <1>5, <1>6 DEF Next, vars, control, PlannedStays

\* Every step leaves each plan with a surface that was opened.
LEMMA NextPlannedWasOpened ==
  ASSUME PlannedWasOpened, PlacesShape, GateShape, ControlShape, [Next]_vars
  PROVE  PlannedWasOpened'
<1>1. ASSUME NEW a \in Actions, plan(a)
      PROVE  PlannedWasOpened'
  BY <1>1, PrimaryIsLive DEF plan, PlannedWasOpened, ControlShape, GateShape, GateType,
        GateHoldsAction, primary_live_surface, PlacesShape, GateMarks, Free, Holding, places,
        control
<1>2. ASSUME plan_snapshot
      PROVE  PlannedWasOpened'
  BY <1>2 DEF plan_snapshot, PlannedWasOpened, ControlShape, GateShape, GateType,
        GateHoldsAction, places, control
<1>3. ASSUME plan_bind
      PROVE  PlannedWasOpened'
  BY <1>3 DEF plan_bind, PlannedWasOpened, ControlShape, GateShape, GateType, GateHoldsAction,
        Free, Holding, places
<1>4. ASSUME plan_refused
      PROVE  PlannedWasOpened'
  BY <1>4 DEF plan_refused, PlannedWasOpened, ControlShape, GateShape, GateType,
        GateHoldsAction, Free, places, control
<1>5. ASSUME plan_admit
      PROVE  PlannedWasOpened'
  BY <1>5 DEF plan_admit, PlannedWasOpened, ControlShape, GateShape, GateType, GateHoldsAction,
        Free, places
<1>6. ASSUME NEW a \in Actions, confirm(a)
      PROVE  PlannedWasOpened'
  BY <1>6 DEF confirm, PlannedWasOpened, ControlShape, GateShape, GateType, GateHoldsAction,
        Free, Holding, places
<1>7. ASSUME confirm_refused
      PROVE  PlannedWasOpened'
  BY <1>7 DEF confirm_refused, PlannedWasOpened, ControlShape, GateShape, GateType,
        GateHoldsAction, Free, places, control
<1>8. ASSUME confirm_authorize
      PROVE  PlannedWasOpened'
  BY <1>8 DEF confirm_authorize, PlannedWasOpened, ControlShape, GateShape, GateType,
        GateHoldsAction, Free, Holding, places, control
<1>9. ASSUME confirm_prepare
      PROVE  PlannedWasOpened'
  BY <1>9 DEF confirm_prepare, PlannedWasOpened, ControlShape, GateShape, GateType,
        GateHoldsAction, Free, Holding, places, control
<1>10. ASSUME confirm_hold
       PROVE  PlannedWasOpened'
  BY <1>10 DEF confirm_hold, PlannedWasOpened, ControlShape, GateShape, GateType,
        GateHoldsAction, Free, Holding, places
<1>11. ASSUME confirm_enqueue
       PROVE  PlannedWasOpened'
  BY <1>11 DEF confirm_enqueue, PlannedWasOpened, ControlShape, GateShape, GateType,
        GateHoldsAction, Free, places
<1>12. ASSUME release_collect
       PROVE  PlannedWasOpened'
  BY <1>12 DEF release_collect, PlannedWasOpened, ControlShape, GateShape, GateType,
        GateHoldsAction, Free, places
<1>13. ASSUME release_report
       PROVE  PlannedWasOpened'
  BY <1>13 DEF release_report, PlannedWasOpened, ControlShape, GateShape, GateType,
        GateHoldsAction, places, control
<1>14. ASSUME release_records
       PROVE  PlannedWasOpened'
  BY <1>14 DEF release_records, PlannedWasOpened, ControlShape, GateShape, GateType,
        GateHoldsAction, Free
<1>15. ASSUME request_dropped
       PROVE  PlannedWasOpened'
  BY <1>15 DEF request_dropped, PlannedWasOpened, ControlShape, GateShape, GateType,
        GateHoldsAction, Free, places, control
<1>16. ASSUME NEW i \in Surfaces, activate_surface_resource(i)
       PROVE  PlannedWasOpened'
  BY <1>16 DEF activate_surface_resource, PlannedWasOpened, ControlShape, GateShape, GateType,
        GateHoldsAction, control
<1>17. ASSUME Handlers
       PROVE  \/ UNCHANGED <<planned, opened, gate>>
              \/ \E a \in Actions : plan(a)
              \/ plan_snapshot
              \/ plan_bind
              \/ plan_refused
              \/ plan_admit
              \/ \E a \in Actions : confirm(a)
              \/ confirm_refused
              \/ confirm_authorize
              \/ confirm_prepare
              \/ confirm_hold
              \/ confirm_enqueue
  BY <1>17 DEF Handlers, places, control
<1>18. ASSUME NEW i \in Surfaces, Worker(i)
       PROVE  UNCHANGED <<planned, opened, gate>>
  BY <1>18 DEF Worker, take_surface_actions, complete_surface_action,
        ensure_managed_surface_action_authority, ensure_managed_surface_observation_binding,
        take_managed_surface_actions, arm_begin, arm_untracked, arm_tracked, arm_exchange,
        arm_without_capability, Withheld, reject_managed_action_before_executor, take_return,
        complete_managed_surface_action, record_managed_consequential_executor_completion,
        places, control
<1>19. ASSUME NEW a \in Actions, Reconcile(a)
       PROVE  UNCHANGED <<planned, opened, gate>>
  BY <1>19 DEF Reconcile, reconcile_begin, reconcile_capture, abandon_postcondition_observation,
        reconcile_admit, reconcile_consequential_postconditions, record_committed, places,
        control
<1>20. ASSUME Release
       PROVE  \/ UNCHANGED <<planned, opened, gate>>
              \/ release_collect
              \/ release_report
              \/ release_records
  BY <1>20 DEF Release, release_session, places, control
<1>21. ASSUME Surroundings
       PROVE  \/ UNCHANGED <<planned, opened, gate>>
              \/ request_dropped
              \/ \E i \in Surfaces : activate_surface_resource(i)
  BY <1>21 DEF Surroundings, session_removed, take_actions,
        clear_managed_surface_action_authority, release_provider_observation,
        reap_expired_surface_owner, release_surface_resource, surface_request_dropped,
        prune_expired, prune_expired_reconciliations, executor_acts, complete_action,
        request_action_cancellation, Forget, push_bounded, places, control
<1> QED
  BY <1>1, <1>2, <1>3, <1>4, <1>5, <1>6, <1>7, <1>8, <1>9, <1>10, <1>11, <1>12, <1>13, <1>14,
     <1>15, <1>16, <1>17, <1>18, <1>19, <1>20, <1>21 DEF Next, vars, places, control,
        PlannedWasOpened

\* Every step leaves each report with an action that was planned.
LEMMA NextReportedWasPlanned ==
  ASSUME ReportedWasPlanned, PlannedStays, UnplannedNowhere, RequestShape, GateShape,
         JournalShape, TaskShape, [Next]_vars
  PROVE  ReportedWasPlanned'
<1>1. ASSUME plan_bind
      PROVE  ReportedWasPlanned'
  BY <1>1 DEF plan_bind, ReportedWasPlanned, PlannedStays, JournalShape, TaskShape, GateShape,
        GateHoldsAction, journal
<1>2. ASSUME plan_admit
      PROVE  ReportedWasPlanned'
  BY <1>2 DEF plan_admit, ReportedWasPlanned, PlannedStays, JournalShape, TaskShape, GateShape,
        GateHoldsAction
<1>3. ASSUME confirm_authorize
      PROVE  ReportedWasPlanned'
  BY <1>3 DEF confirm_authorize, ReportedWasPlanned, PlannedStays, JournalShape, TaskShape,
        GateShape, GateHoldsAction
<1>4. ASSUME confirm_prepare
      PROVE  ReportedWasPlanned'
  BY <1>4 DEF confirm_prepare, ReportedWasPlanned, PlannedStays, JournalShape, TaskShape,
        GateShape, GateHoldsAction
<1>5. ASSUME confirm_enqueue
      PROVE  ReportedWasPlanned'
  BY <1>5 DEF confirm_enqueue, ReportedWasPlanned, PlannedStays, JournalShape, TaskShape,
        RuleOut, journal
<1>6. ASSUME release_report
      PROVE  ReportedWasPlanned'
  BY <1>6 DEF release_report, ReportedWasPlanned, PlannedStays, JournalShape, TaskShape, RuleOut
<1>7. ASSUME NEW i \in Surfaces, surface_request_dropped(i)
      PROVE  ReportedWasPlanned'
  BY <1>7, ConstantsAssumption DEF surface_request_dropped, ReportedWasPlanned, PlannedStays,
        RequestShape, RequestType, Idle, journal
<1>8. ASSUME NEW i \in Surfaces, take_surface_actions(i)
      PROVE  ReportedWasPlanned'
  BY <1>8, ConstantsAssumption DEF take_surface_actions, ReportedWasPlanned, PlannedStays,
        RequestShape, RequestType, Idle, journal
<1>9. ASSUME NEW i \in Surfaces, NEW a \in Actions, complete_surface_action(i, a)
      PROVE  ReportedWasPlanned'
  BY <1>9, ConstantsAssumption DEF complete_surface_action, ReportedWasPlanned, PlannedStays,
        RequestShape, RequestType, Idle, UnplannedNowhere, Sent, Unreported, Surfaces, journal
<1>10. ASSUME NEW i \in Surfaces, ensure_managed_surface_action_authority(i)
       PROVE  ReportedWasPlanned'
  BY <1>10, ConstantsAssumption DEF ensure_managed_surface_action_authority, ReportedWasPlanned,
        PlannedStays, RequestShape, RequestType, journal
<1>11. ASSUME NEW i \in Surfaces, ensure_managed_surface_observation_binding(i)
       PROVE  ReportedWasPlanned'
  BY <1>11, ConstantsAssumption DEF ensure_managed_surface_observation_binding,
        ReportedWasPlanned, PlannedStays, RequestShape, RequestType, journal
<1>12. ASSUME NEW i \in Surfaces, take_managed_surface_actions(i)
       PROVE  ReportedWasPlanned'
  BY <1>12, ConstantsAssumption DEF take_managed_surface_actions, ReportedWasPlanned,
        PlannedStays, RequestShape, RequestType, Drained, journal
<1>13. ASSUME NEW i \in Surfaces, arm_begin(i)
       PROVE  ReportedWasPlanned'
  BY <1>13, ConstantsAssumption DEF arm_begin, ReportedWasPlanned, PlannedStays, RequestShape,
        RequestType, journal
<1>14. ASSUME NEW i \in Surfaces, NEW a \in Actions, arm_untracked(i, a)
       PROVE  ReportedWasPlanned'
  BY <1>14, ConstantsAssumption DEF arm_untracked, ReportedWasPlanned, PlannedStays,
        RequestShape, RequestType, journal
<1>15. ASSUME NEW i \in Surfaces, NEW a \in Actions, arm_tracked(i, a)
       PROVE  ReportedWasPlanned'
  BY <1>15, ConstantsAssumption DEF arm_tracked, ReportedWasPlanned, PlannedStays, RequestShape,
        RequestType, journal
<1>16. ASSUME NEW i \in Surfaces, arm_exchange(i)
       PROVE  ReportedWasPlanned'
  BY <1>16, ConstantsAssumption DEF arm_exchange, ReportedWasPlanned, PlannedStays,
        RequestShape, RequestType
<1>17. ASSUME NEW i \in Surfaces, NEW a \in Actions, arm_without_capability(i, a)
       PROVE  ReportedWasPlanned'
  BY <1>17, ConstantsAssumption DEF arm_without_capability, ReportedWasPlanned, PlannedStays,
        RequestShape, RequestType, Withheld, journal
<1>18. ASSUME NEW i \in Surfaces, NEW a \in Actions, reject_managed_action_before_executor(i, a)
       PROVE  ReportedWasPlanned'
  BY <1>18, ConstantsAssumption DEF reject_managed_action_before_executor, ReportedWasPlanned,
        PlannedStays, RequestShape, RequestType, Withheld, RuleOut, JournalShape
<1>19. ASSUME NEW i \in Surfaces, take_return(i)
       PROVE  ReportedWasPlanned'
  BY <1>19, ConstantsAssumption DEF take_return, ReportedWasPlanned, PlannedStays, RequestShape,
        RequestType, Idle, journal
<1>20. ASSUME NEW i \in Surfaces, complete_managed_surface_action(i)
       PROVE  ReportedWasPlanned'
  <2>1. /\ UNCHANGED <<task, stage>>
        /\ \/ request' = [request EXCEPT ![i].step = "claimed"]
           \/ request' = [request EXCEPT ![i] = Idle]
    BY <1>20 DEF complete_managed_surface_action, journal
  <2>2. CASE request' = [request EXCEPT ![i].step = "claimed"]
    BY <2>1, <2>2, ConstantsAssumption DEF ReportedWasPlanned, PlannedStays, RequestShape,
          RequestType
  <2>3. CASE request' = [request EXCEPT ![i] = Idle]
    BY <2>1, <2>3, ConstantsAssumption DEF ReportedWasPlanned, PlannedStays, RequestShape,
          RequestType, Idle
  <2> QED
    BY <2>1, <2>2, <2>3
<1>21. ASSUME NEW i \in Surfaces, record_managed_consequential_executor_completion(i)
       PROVE  ReportedWasPlanned'
  <2> DEFINE r == request[i].result
  <2>1. /\ request' = [request EXCEPT ![i] = Idle]
        /\ task' = [task EXCEPT ![r] = "scheduled"]
        /\ \A b \in Actions : stage'[b] \in {stage[b], "dispatched"}
    BY <1>21 DEF record_managed_consequential_executor_completion, journal, JournalShape
  <2>2. r \in Actions => planned[r] # 0
    BY DEF ReportedWasPlanned
  <2>3. \A b \in Actions : b # r => task'[b] = task[b]
    BY <2>1 DEF TaskShape
  <2>4. \A b \in Actions : planned[b] # 0 => planned'[b] # 0
    BY DEF PlannedStays
  <2>5. \A j \in Surfaces : request'[j].result \in {NoAction, request[j].result}
    BY <2>1 DEF RequestShape, RequestType, Idle
  <2> QED
    BY <2>2, <2>3, <2>4, <2>5, <2>1, ConstantsAssumption DEF ReportedWasPlanned
<1>22. ASSUME NEW a \in Actions, reconcile_begin(a)
       PROVE  ReportedWasPlanned'
  BY <1>22 DEF reconcile_begin, ReportedWasPlanned, PlannedStays, JournalShape, TaskShape,
        Advance, set_reconciliation_required
<1>23. ASSUME NEW a \in Actions, reconcile_capture(a)
       PROVE  ReportedWasPlanned'
  BY <1>23 DEF reconcile_capture, ReportedWasPlanned, PlannedStays, JournalShape, TaskShape,
        Advance, journal
<1>24. ASSUME NEW a \in Actions, abandon_postcondition_observation(a)
       PROVE  ReportedWasPlanned'
  BY <1>24 DEF abandon_postcondition_observation, ReportedWasPlanned, PlannedStays,
        JournalShape, TaskShape, set_reconciliation_required
<1>25. ASSUME NEW a \in Actions, reconcile_admit(a)
       PROVE  ReportedWasPlanned'
  BY <1>25 DEF reconcile_admit, ReportedWasPlanned, PlannedStays, JournalShape, TaskShape,
        Advance
<1>26. ASSUME NEW a \in Actions, reconcile_consequential_postconditions(a)
       PROVE  ReportedWasPlanned'
  BY <1>26 DEF reconcile_consequential_postconditions, ReportedWasPlanned, PlannedStays,
        JournalShape, TaskShape, Advance, set_reconciliation_required
<1>27. ASSUME NEW a \in Actions, record_committed(a)
       PROVE  ReportedWasPlanned'
  BY <1>27 DEF record_committed, ReportedWasPlanned, PlannedStays, JournalShape, TaskShape,
        Advance, set_reconciliation_required
<1>28. ASSUME Handlers
       PROVE  \/ UNCHANGED <<request, task, stage>>
              \/ plan_bind
              \/ plan_admit
              \/ confirm_authorize
              \/ confirm_prepare
              \/ confirm_enqueue
  BY <1>28 DEF Handlers, plan, plan_snapshot, plan_refused, confirm, confirm_refused,
        confirm_hold, journal
<1>29. ASSUME NEW i \in Surfaces, Worker(i)
       PROVE  \/ UNCHANGED <<request, task, stage>>
              \/ take_surface_actions(i)
              \/ \E a \in Actions : complete_surface_action(i, a)
              \/ ensure_managed_surface_action_authority(i)
              \/ ensure_managed_surface_observation_binding(i)
              \/ take_managed_surface_actions(i)
              \/ arm_begin(i)
              \/ \E a \in Actions : arm_untracked(i, a)
              \/ \E a \in Actions : arm_tracked(i, a)
              \/ arm_exchange(i)
              \/ \E a \in Actions : arm_without_capability(i, a)
              \/ \E a \in Actions : reject_managed_action_before_executor(i, a)
              \/ take_return(i)
              \/ complete_managed_surface_action(i)
              \/ record_managed_consequential_executor_completion(i)
  BY <1>29 DEF Worker, journal
<1>30. ASSUME NEW a \in Actions, Reconcile(a)
       PROVE  \/ UNCHANGED <<request, task, stage>>
              \/ reconcile_begin(a)
              \/ reconcile_capture(a)
              \/ abandon_postcondition_observation(a)
              \/ reconcile_admit(a)
              \/ reconcile_consequential_postconditions(a)
              \/ record_committed(a)
  BY <1>30 DEF Reconcile, journal
<1>31. ASSUME Release
       PROVE  \/ UNCHANGED <<request, task, stage>>
              \/ release_report
  BY <1>31 DEF Release, release_collect, release_records, release_session, journal
<1>32. ASSUME Surroundings
       PROVE  \/ UNCHANGED <<request, task, stage>>
              \/ \E i \in Surfaces : surface_request_dropped(i)
  BY <1>32 DEF Surroundings, session_removed, request_dropped, take_actions,
        clear_managed_surface_action_authority, release_provider_observation,
        reap_expired_surface_owner, activate_surface_resource, release_surface_resource,
        prune_expired, prune_expired_reconciliations, executor_acts, complete_action,
        request_action_cancellation, Forget, push_bounded, journal
<1> QED
  BY <1>1, <1>2, <1>3, <1>4, <1>5, <1>6, <1>7, <1>8, <1>9, <1>10, <1>11, <1>12, <1>13, <1>14,
     <1>15, <1>16, <1>17, <1>18, <1>19, <1>20, <1>21, <1>22, <1>23, <1>24, <1>25, <1>26, <1>27,
     <1>28, <1>29, <1>30, <1>31, <1>32 DEF Next, vars, journal, ReportedWasPlanned,
        PlannedStays, RequestShape

\* Every step leaves each capture on the surface of the plan.
LEMMA NextCapturedOnPlanned ==
  ASSUME "public_drain" \notin Events, CapturedOnPlanned, PlannedStays, ReportedWasPlanned,
         PlannedWasOpened, OneSurface, PlacesShape, GateShape, JournalShape, TaskShape, WorldShape,
         ControlShape, GateMarks, [Next]_vars
  PROVE  CapturedOnPlanned'
<1>1. ASSUME plan_bind
      PROVE  CapturedOnPlanned'
  BY <1>1 DEF plan_bind, CapturedOnPlanned, PlannedStays, ReportedWasPlanned, JournalShape,
        TaskShape, WorldShape, GateShape, GateHoldsAction, places, journal, world
<1>2. ASSUME plan_admit
      PROVE  CapturedOnPlanned'
  BY <1>2 DEF plan_admit, CapturedOnPlanned, PlannedStays, ReportedWasPlanned, JournalShape,
        TaskShape, WorldShape, GateShape, GateHoldsAction, places, world
<1>3. ASSUME confirm_authorize
      PROVE  CapturedOnPlanned'
  BY <1>3 DEF confirm_authorize, CapturedOnPlanned, PlannedStays, ReportedWasPlanned,
        JournalShape, TaskShape, WorldShape, GateShape, GateHoldsAction, places, control, world
<1>4. ASSUME confirm_prepare
      PROVE  CapturedOnPlanned'
  BY <1>4 DEF confirm_prepare, CapturedOnPlanned, PlannedStays, ReportedWasPlanned,
        JournalShape, TaskShape, WorldShape, GateShape, GateHoldsAction, places, control, world
<1>5. ASSUME confirm_enqueue
      PROVE  CapturedOnPlanned'
  BY <1>5 DEF confirm_enqueue, CapturedOnPlanned, PlannedStays, ReportedWasPlanned,
        JournalShape, TaskShape, WorldShape, RuleOut, places, journal, world
<1>6. ASSUME release_report
      PROVE  CapturedOnPlanned'
  BY <1>6 DEF release_report, CapturedOnPlanned, PlannedStays, ReportedWasPlanned, JournalShape,
        TaskShape, WorldShape, RuleOut, places, control, world
<1>7. ASSUME reap_expired_surface_owner
      PROVE  CapturedOnPlanned'
  BY <1>7 DEF reap_expired_surface_owner, CapturedOnPlanned, PlannedStays, ReportedWasPlanned,
        PlannedWasOpened, control, journal, world
<1>8. ASSUME NEW i \in Surfaces, activate_surface_resource(i)
      PROVE  CapturedOnPlanned'
  BY <1>8 DEF activate_surface_resource, CapturedOnPlanned, PlannedStays, ReportedWasPlanned,
        PlannedWasOpened, control, journal, world
<1>9. ASSUME NEW i \in Surfaces, release_surface_resource(i)
      PROVE  CapturedOnPlanned'
  BY <1>9 DEF release_surface_resource, CapturedOnPlanned, PlannedStays, ReportedWasPlanned,
        PlannedWasOpened, control, journal, world
<1>10. ASSUME NEW i \in Surfaces, NEW a \in Actions, reject_managed_action_before_executor(i, a)
       PROVE  CapturedOnPlanned'
  BY <1>10 DEF reject_managed_action_before_executor, CapturedOnPlanned, PlannedStays,
        ReportedWasPlanned, JournalShape, TaskShape, WorldShape, RuleOut, Withheld, places,
        world
<1>11. ASSUME NEW i \in Surfaces, record_managed_consequential_executor_completion(i)
       PROVE  CapturedOnPlanned'
  <2> DEFINE r == request[i].result
  <2>1. /\ task' = [task EXCEPT ![r] = "scheduled"]
        /\ \A b \in Actions : stage'[b] \in {stage[b], "dispatched"}
        /\ UNCHANGED <<planned, live, captured>>
    BY <1>11 DEF record_managed_consequential_executor_completion, JournalShape, journal, places
  <2>2. \A b \in Actions : task'[b] \in {task[b], "scheduled"}
    BY <2>1 DEF TaskShape
  <2> QED
    BY <2>1, <2>2 DEF CapturedOnPlanned
<1>12. ASSUME NEW a \in Actions, reconcile_begin(a)
       PROVE  CapturedOnPlanned'
  BY <1>12 DEF reconcile_begin, CapturedOnPlanned, PlannedStays, ReportedWasPlanned,
        JournalShape, TaskShape, WorldShape, Advance, set_reconciliation_required, Uncertain,
        places, world
<1>13. ASSUME NEW a \in Actions, reconcile_capture(a)
       PROVE  CapturedOnPlanned'
  <2>1. PICK i \in live : i = primary_live_surface /\ captured' = [captured EXCEPT ![a] = i]
    BY <1>13 DEF reconcile_capture, Snapshotter, Error, PublicClient
  <2>2. /\ task' = [task EXCEPT ![a] = "captured"] /\ task[a] = "observing"
        /\ UNCHANGED <<stage, planned, live>>
    BY <1>13 DEF reconcile_capture, Advance, journal, control, places
  <2>3. captured'[a] = i /\ (i = planned[a] \/ planned[a] \notin live)
    BY <2>1 DEF OneSurface, WorldShape
  <2>4. /\ task'[a] = "captured" /\ stage[a] \notin {"verified", "committed"}
        /\ \A b \in Actions \ {a} : task'[b] = task[b] /\ captured'[b] = captured[b]
    BY <2>1, <2>2 DEF CapturedOnPlanned, WorldShape, TaskShape
  <2> QED
    BY <2>2, <2>3, <2>4 DEF CapturedOnPlanned
<1>14. ASSUME NEW a \in Actions, abandon_postcondition_observation(a)
       PROVE  CapturedOnPlanned'
  BY <1>14 DEF abandon_postcondition_observation, CapturedOnPlanned, PlannedStays,
        ReportedWasPlanned, JournalShape, TaskShape, WorldShape, set_reconciliation_required,
        places, world
<1>15. ASSUME NEW a \in Actions, reconcile_admit(a)
       PROVE  CapturedOnPlanned'
  <2>1. /\ primary_live_surface = planned[a] /\ task[a] = "captured"
        /\ task' = [task EXCEPT ![a] = "observed"]
        /\ UNCHANGED <<stage, planned, live, captured>>
    BY <1>15 DEF reconcile_admit, Current, Advance, control, places, world
  <2>2. planned[a] \in live
    BY <2>1, PrimaryIsLive DEF ReportedWasPlanned, PlacesShape, primary_live_surface
  <2>3. captured[a] = planned[a]
    BY <2>1, <2>2 DEF CapturedOnPlanned
  <2>4. task'[a] = "observed" /\ \A b \in Actions \ {a} : task'[b] = task[b]
    BY <2>1 DEF TaskShape
  <2> QED
    BY <2>1, <2>3, <2>4 DEF CapturedOnPlanned
<1>16. ASSUME NEW a \in Actions, reconcile_consequential_postconditions(a)
       PROVE  CapturedOnPlanned'
  BY <1>16 DEF reconcile_consequential_postconditions, CapturedOnPlanned, PlannedStays,
        ReportedWasPlanned, JournalShape, TaskShape, WorldShape, Advance,
        set_reconciliation_required, places, world
<1>17. ASSUME NEW a \in Actions, record_committed(a)
       PROVE  CapturedOnPlanned'
  BY <1>17 DEF record_committed, CapturedOnPlanned, PlannedStays, ReportedWasPlanned,
        JournalShape, TaskShape, WorldShape, Advance, set_reconciliation_required, places, world
<1>18. ASSUME Handlers
       PROVE  \/ UNCHANGED <<task, captured, planned, live, stage>>
              \/ plan_bind
              \/ plan_admit
              \/ confirm_authorize
              \/ confirm_prepare
              \/ confirm_enqueue
  BY <1>18 DEF Handlers, plan, plan_snapshot, plan_refused, confirm, confirm_refused,
        confirm_hold, places, control, journal, world
<1>19. ASSUME NEW i \in Surfaces, Worker(i)
       PROVE  \/ UNCHANGED <<task, captured, planned, live, stage>>
              \/ \E a \in Actions : reject_managed_action_before_executor(i, a)
              \/ record_managed_consequential_executor_completion(i)
  BY <1>19 DEF Worker, take_surface_actions, complete_surface_action,
        ensure_managed_surface_action_authority, ensure_managed_surface_observation_binding,
        take_managed_surface_actions, arm_begin, arm_untracked, arm_tracked, arm_exchange,
        arm_without_capability, Withheld, take_return, complete_managed_surface_action, places,
        control, journal, world
<1>20. ASSUME NEW a \in Actions, Reconcile(a)
       PROVE  \/ UNCHANGED <<task, captured, planned, live, stage>>
              \/ reconcile_begin(a)
              \/ reconcile_capture(a)
              \/ abandon_postcondition_observation(a)
              \/ reconcile_admit(a)
              \/ reconcile_consequential_postconditions(a)
              \/ record_committed(a)
  BY <1>20 DEF Reconcile, places, control, journal, world
<1>21. ASSUME Release
       PROVE  \/ UNCHANGED <<task, captured, planned, live, stage>>
              \/ release_report
  BY <1>21 DEF Release, release_collect, release_records, release_session, places, control,
        journal, world
<1>22. ASSUME Surroundings
       PROVE  \/ UNCHANGED <<task, captured, planned, live, stage>>
              \/ reap_expired_surface_owner
              \/ \E i \in Surfaces : activate_surface_resource(i)
              \/ \E i \in Surfaces : release_surface_resource(i)
  BY <1>22 DEF Surroundings, session_removed, request_dropped, take_actions,
        clear_managed_surface_action_authority, release_provider_observation,
        surface_request_dropped, prune_expired, prune_expired_reconciliations, executor_acts,
        complete_action, request_action_cancellation, Forget, push_bounded, places, control,
        journal, world
<1> QED
  BY <1>1, <1>2, <1>3, <1>4, <1>5, <1>6, <1>7, <1>8, <1>9, <1>10, <1>11, <1>12, <1>13, <1>14,
     <1>15, <1>16, <1>17, <1>18, <1>19, <1>20, <1>21, <1>22 DEF Next, vars, places, control,
        journal, world, CapturedOnPlanned

\* Captures are on the planned surface in every reachable state.
LEMMA SurfaceInvariant ==
  ASSUME "second_surface" \notin Events, "public_drain" \notin Events
  PROVE  Spec => []SurfaceInv
<1>1. ASSUME Init PROVE SurfaceInv
  BY <1>1, InitOneShot, ConstantsAssumption DEF Init, SurfaceInv, OneSurface, PlannedWasOpened,
        ReportedWasPlanned, CapturedOnPlanned, Free, Idle
<1>2. ASSUME SurfaceInv, [Next]_vars PROVE SurfaceInv'
  <2>1. /\ OneShotInv /\ OneSurface /\ PlannedWasOpened /\ ReportedWasPlanned /\ CapturedOnPlanned
        /\ ShapeInv /\ GateMarks /\ UnplannedNowhere /\ PlacesShape
        /\ RequestShape /\ WorldShape /\ ControlShape /\ JournalShape /\ GateShape /\ TaskShape
    BY <1>2 DEF SurfaceInv, OneShotInv, ShapeInv, Shape, GateShape, RequestShape, TaskShape
  <2>2. OneShotInv' /\ OneSurface' /\ PlannedStays
    BY <1>2, <2>1, NextOneShot, NextOneSurface, NextPlannedStays
  <2>3. PlannedWasOpened' /\ ReportedWasPlanned' /\ CapturedOnPlanned'
    BY <1>2, <2>1, <2>2, NextPlannedWasOpened, NextReportedWasPlanned, NextCapturedOnPlanned
  <2> QED
    BY <2>2, <2>3 DEF SurfaceInv
<1> QED
  BY <1>1, <1>2, PTL DEF Spec

\* The verdict on an action rests on a snapshot of the surface that the action
\* was planned for: reconcile_postconditions looks at the primary surface
\* before and after the snapshot, and a surface that has gone does not come
\* back.  Two surfaces that are live together, or a session-wide drain that
\* answers for the worker, are beyond what these two looks can tell.
THEOREM VerdictOnPlannedSurface ==
  ASSUME "second_surface" \notin Events, "public_drain" \notin Events
  PROVE  Spec => []VerifiedOnPlannedSurface
<1>1. SurfaceInv => VerifiedOnPlannedSurface
  BY DEF SurfaceInv, CapturedOnPlanned, VerifiedOnPlannedSurface
<1> QED
  BY <1>1, SurfaceInvariant, PTL


=============================================================================
