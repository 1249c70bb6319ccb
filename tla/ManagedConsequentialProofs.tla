--------------------- MODULE ManagedConsequentialProofs ---------------------
(***************************************************************************)
(* Proofs about ManagedConsequential, for every set of actions, surfaces   *)
(* and events and for every capacity.                                      *)
(***************************************************************************)
EXTENDS ManagedConsequential, FiniteSetTheorems, TLAPS

-----------------------------------------------------------------------------
\* A nonempty set of surfaces has a greatest element: primary_live_surface is
\* a live surface whenever there is one.
LEMMA PrimaryIsLive ==
  ASSUME live \subseteq Surfaces, live # {}
  PROVE  primary_live_surface \in live
<1>1. MaxSurfaces \in Nat
  BY ConstantsAssumption
<1> DEFINE T == {MaxSurfaces - i : i \in live}
<1>2. T \subseteq Nat /\ T # {}
  <2>1. T \subseteq Nat
    BY <1>1 DEF Surfaces
  <2>2. PICK i \in live : TRUE
    OBVIOUS
  <2>3. MaxSurfaces - i \in T
    OBVIOUS
  <2> QED
    BY <2>1, <2>3
<1>3. PICK m \in T : \A y \in T : <<y, m>> \notin OpToRel(<, Nat)
  BY <1>2, WFMin, NatLessThanWellFounded
<1>4. \A y \in T : ~(y < m)
  <2>1. \A x, y \in Nat : x < y => <<x, y>> \in OpToRel(<, Nat)
    BY SMTT(20) DEF OpToRel
  <2> QED
    BY <1>2, <1>3, <2>1
<1>5. PICK i \in live : m = MaxSurfaces - i
  BY <1>3
<1>6. ASSUME NEW j \in live
      PROVE  i >= j
  <2>1. i \in Nat /\ j \in Nat
    BY <1>1 DEF Surfaces
  <2>2. ~(MaxSurfaces - j < m)
    BY <1>4
  <2> QED
    BY <1>1, <1>5, <2>1, <2>2
<1> QED
  BY <1>6 DEF primary_live_surface, Max

\* The primary live surface is an authority that a plan can name.
LEMMA PrimaryAuthority ==
  ASSUME live \subseteq Surfaces
  PROVE  primary_live_surface \in Authorities
<1>1. CASE live = {}
  BY <1>1 DEF primary_live_surface, Authorities
<1>2. CASE live # {}
  BY <1>2, PrimaryIsLive DEF Authorities
<1> QED
  BY <1>1, <1>2

\* Every update of a request keeps its shape.
LEMMA RequestUpdates ==
  /\ Idle \in RequestType
  /\ [Idle EXCEPT !.step = "checked"] \in RequestType
  /\ \A a \in Actions : [Idle EXCEPT !.step = "checked", !.result = a] \in RequestType
  /\ \A q \in RequestType, s \in {"ensured", "observed", "claimed"} : [q EXCEPT !.step = s] \in RequestType
  /\ \A q \in RequestType, B \in SUBSET Actions : [q EXCEPT !.step = "drained", !.batch = B] \in RequestType
  /\ \A q \in RequestType : [q EXCEPT !.step = "arming", !.tracked = q.batch \cap Records] \in RequestType
  /\ \A q \in RequestType, a \in Actions : [q EXCEPT !.batch = @ \ {a}, !.ready = @ \cup {a}] \in RequestType
  /\ \A q \in RequestType, a \in Actions : [q EXCEPT !.capability = a] \in RequestType
  /\ \A q \in RequestType, a \in Actions :
       [q EXCEPT !.capability = NoAction, !.batch = @ \ {a}, !.ready = @ \cup {a}] \in RequestType
  /\ \A q \in RequestType, a \in Actions : [q EXCEPT !.batch = @ \ {a}] \in RequestType
<1> USE DEF RequestType
<1>1. Idle \in RequestType /\ [Idle EXCEPT !.step = "checked"] \in RequestType
  BY DEF Idle
<1>2. \A a \in Actions : [Idle EXCEPT !.step = "checked", !.result = a] \in RequestType
  BY DEF Idle
<1>3. \A q \in RequestType, s \in {"ensured", "observed",
"claimed"} : [q EXCEPT !.step = s] \in RequestType
  OBVIOUS
<1>4. \A q \in RequestType, B \in SUBSET Actions : [q EXCEPT !.step = "drained",
!.batch = B] \in RequestType
  OBVIOUS
<1>5. \A q \in RequestType : [q EXCEPT !.step = "arming",
!.tracked = q.batch \cap Records] \in RequestType
  OBVIOUS
<1>6. \A q \in RequestType, a \in Actions : [q EXCEPT !.batch = @ \ {a},
!.ready = @ \cup {a}] \in RequestType
  OBVIOUS
<1>7. \A q \in RequestType, a \in Actions : [q EXCEPT !.capability = a] \in RequestType
  OBVIOUS
<1>8. \A q \in RequestType, a \in Actions :
        [q EXCEPT !.capability = NoAction, !.batch = @ \ {a}, !.ready = @ \cup {a}] \in RequestType
  OBVIOUS
<1>9. \A q \in RequestType, a \in Actions : [q EXCEPT !.batch = @ \ {a}] \in RequestType
  OBVIOUS
<1> HIDE DEF RequestType
<1> QED
  BY <1>1, <1>2, <1>3, <1>4, <1>5, <1>6, <1>7, <1>8, <1>9

\* What the fields of a request can be.
LEMMA RequestFields ==
  ASSUME NEW q \in RequestType
  PROVE  /\ q.result \in Actions \cup {NoAction} /\ q.capability \in Actions \cup {NoAction}
         /\ q.batch \subseteq Actions /\ q.ready \subseteq Actions /\ q.tracked \subseteq Actions
  BY DEF RequestType

\* To rule an action out leaves the journal's shape.
LEMMA RuleOutShape ==
  ASSUME JournalShape, NEW S, NEW P, RuleOut(S, P)
  PROVE  JournalShape'
  BY DEF RuleOut, JournalShape, Stages

-----------------------------------------------------------------------------
(***************************************************************************)
(* The shape of the state, by its parts.                                   *)
(***************************************************************************)
\* While a handler holds the gate for an action, it has one.
GateHoldsAction ==
  gate.step \notin {"free", "release", "records"} => gate.action \in Actions

GateShape == gate \in GateType /\ GateHoldsAction

RequestShape == request \in [Surfaces -> RequestType]

\* Every step leaves the requests in their shape.
LEMMA NextRequestShape ==
  ASSUME RequestShape, queue \subseteq Actions, [Next]_vars
  PROVE  RequestShape'
<1> USE DEF RequestShape
<1>1. ASSUME NEW i \in Surfaces, surface_request_dropped(i)
      PROVE  RequestShape'
  BY <1>1, RequestUpdates DEF surface_request_dropped
<1>2. ASSUME NEW i \in Surfaces, take_surface_actions(i)
      PROVE  RequestShape'
  BY <1>2, RequestUpdates DEF take_surface_actions
<1>3. ASSUME NEW i \in Surfaces, NEW a \in Actions, complete_surface_action(i, a)
      PROVE  RequestShape'
  BY <1>3, RequestUpdates DEF complete_surface_action
<1>4. ASSUME NEW i \in Surfaces, ensure_managed_surface_action_authority(i)
      PROVE  RequestShape'
  BY <1>4, RequestUpdates DEF ensure_managed_surface_action_authority
<1>5. ASSUME NEW i \in Surfaces, ensure_managed_surface_observation_binding(i)
      PROVE  RequestShape'
  BY <1>5, RequestUpdates DEF ensure_managed_surface_observation_binding
<1>6. ASSUME NEW i \in Surfaces, take_managed_surface_actions(i)
      PROVE  RequestShape'
  <2>1. PICK B \in SUBSET Actions : Drained(i, B)
    BY <1>6 DEF take_managed_surface_actions
  <2> QED
    BY <2>1, RequestUpdates DEF Drained
<1>7. ASSUME NEW i \in Surfaces, arm_begin(i)
      PROVE  RequestShape'
  BY <1>7, RequestUpdates DEF arm_begin
<1>8. ASSUME NEW i \in Surfaces, NEW a \in Actions, arm_untracked(i, a)
      PROVE  RequestShape'
  BY <1>8, RequestUpdates DEF arm_untracked, Arming
<1>9. ASSUME NEW i \in Surfaces, NEW a \in Actions, arm_tracked(i, a)
      PROVE  RequestShape'
  BY <1>9, RequestUpdates DEF arm_tracked, Arming
<1>10. ASSUME NEW i \in Surfaces, arm_exchange(i)
       PROVE  RequestShape'
  <2>1. request[i].capability \in Actions
    BY <1>10, RequestFields DEF arm_exchange
  <2> QED
    BY <1>10, <2>1, RequestUpdates DEF arm_exchange
<1>11. ASSUME NEW i \in Surfaces, NEW a \in Actions, arm_without_capability(i, a)
       PROVE  RequestShape'
  BY <1>11, RequestUpdates DEF arm_without_capability, Arming, Withheld
<1>12. ASSUME NEW i \in Surfaces, NEW a \in Actions, reject_managed_action_before_executor(i, a)
       PROVE  RequestShape'
  BY <1>12, RequestUpdates DEF reject_managed_action_before_executor, Arming, Withheld
<1>13. ASSUME NEW i \in Surfaces, take_return(i)
       PROVE  RequestShape'
  BY <1>13, RequestUpdates DEF take_return
<1>14. ASSUME NEW i \in Surfaces, complete_managed_surface_action(i)
       PROVE  RequestShape'
  <2>1. \/ request' = [request EXCEPT ![i].step = "claimed"]
        \/ request' = [request EXCEPT ![i] = Idle]
    BY <1>14 DEF complete_managed_surface_action
  <2>2. CASE request' = [request EXCEPT ![i].step = "claimed"]
    BY <2>2, RequestUpdates
  <2>3. CASE request' = [request EXCEPT ![i] = Idle]
    BY <2>3, RequestUpdates
  <2> QED
    BY <2>1, <2>2, <2>3
<1>15. ASSUME NEW i \in Surfaces, record_managed_consequential_executor_completion(i)
       PROVE  RequestShape'
  BY <1>15, RequestUpdates DEF record_managed_consequential_executor_completion
<1>16. request' = request \/ \E i \in Surfaces : Worker(i) \/ surface_request_dropped(i)
  BY DEF Next, Handlers, Release, Surroundings, Reconcile, vars, plan, plan_snapshot, plan_bind,
        plan_refused, plan_admit, confirm, confirm_refused, confirm_authorize, confirm_prepare,
        confirm_hold, confirm_enqueue, release_collect, release_report, release_records,
        release_session, session_removed, request_dropped, take_actions,
        clear_managed_surface_action_authority, release_provider_observation,
        reap_expired_surface_owner, activate_surface_resource, release_surface_resource,
        prune_expired, prune_expired_reconciliations, executor_acts, complete_action,
        request_action_cancellation, push_bounded, reconcile_begin, reconcile_capture,
        abandon_postcondition_observation, reconcile_admit,
        reconcile_consequential_postconditions, record_committed, Forget
<1> QED
  BY <1>1, <1>2, <1>3, <1>4, <1>5, <1>6, <1>7, <1>8, <1>9, <1>10, <1>11, <1>12, <1>13, <1>14,
     <1>15, <1>16 DEF Worker

\* Every step leaves the control gate in its shape.
LEMMA NextGateShape ==
  ASSUME GateShape, live \subseteq Surfaces, planned \in [Actions -> Authorities],
         pending \subseteq Actions, prepared \subseteq Actions, executing \subseteq Actions,
         [Next]_vars
  PROVE  GateShape'
<1> USE DEF GateShape, GateType, GateHoldsAction, Authorities
<1>1. ASSUME NEW a \in Actions, plan(a)
      PROVE  GateShape'
  BY <1>1, PrimaryAuthority DEF plan, Free, Holding
<1>2. ASSUME plan_snapshot
      PROVE  GateShape'
  BY <1>2 DEF plan_snapshot
<1>3. ASSUME plan_bind
      PROVE  GateShape'
  BY <1>3 DEF plan_bind, Free, Holding
<1>4. ASSUME plan_refused
      PROVE  GateShape'
  BY <1>4 DEF plan_refused, Free
<1>5. ASSUME plan_admit
      PROVE  GateShape'
  BY <1>5 DEF plan_admit, Free
<1>6. ASSUME NEW a \in Actions, confirm(a)
      PROVE  GateShape'
  <2>1. gate' = gate \/ gate' = Holding("confirm", a, planned[a])
    BY <1>6 DEF confirm
  <2>2. CASE gate' = Holding("confirm", a, planned[a])
    BY <2>2 DEF Free, Holding
  <2> QED
    BY <2>1, <2>2
<1>7. ASSUME confirm_refused
      PROVE  GateShape'
  BY <1>7 DEF confirm_refused, Free
<1>8. ASSUME confirm_authorize
      PROVE  GateShape'
  BY <1>8 DEF confirm_authorize, Free, Holding
<1>9. ASSUME confirm_prepare
      PROVE  GateShape'
  BY <1>9 DEF confirm_prepare, Free, Holding
<1>10. ASSUME confirm_hold
       PROVE  GateShape'
  BY <1>10 DEF confirm_hold, Free, Holding
<1>11. ASSUME confirm_enqueue
       PROVE  GateShape'
  BY <1>11 DEF confirm_enqueue, Free
<1>12. ASSUME release_collect
       PROVE  GateShape'
  BY <1>12 DEF release_collect, Free
<1>13. ASSUME release_report
       PROVE  GateShape'
  BY <1>13 DEF release_report
<1>14. ASSUME release_records
       PROVE  GateShape'
  BY <1>14 DEF release_records, Free
<1>15. ASSUME request_dropped
       PROVE  GateShape'
  BY <1>15 DEF request_dropped, Free
<1>16. ASSUME NEW i \in Surfaces, Worker(i)
       PROVE  gate' = gate
  BY <1>16 DEF Worker, take_surface_actions, ensure_managed_surface_action_authority,
        ensure_managed_surface_observation_binding, take_managed_surface_actions, arm_begin,
        arm_exchange, take_return, complete_managed_surface_action,
        record_managed_consequential_executor_completion, arm_untracked, arm_tracked,
        arm_without_capability, reject_managed_action_before_executor, complete_surface_action,
        Withheld
<1>17. ASSUME NEW a \in Actions, Reconcile(a)
       PROVE  gate' = gate
  BY <1>17 DEF Reconcile, reconcile_begin, reconcile_capture, abandon_postcondition_observation,
        reconcile_admit, reconcile_consequential_postconditions, record_committed
<1>18. gate' = gate \/ request_dropped \/ ~Surroundings
  BY DEF Surroundings, Forget, session_removed, take_actions,
        clear_managed_surface_action_authority, release_provider_observation,
        reap_expired_surface_owner, activate_surface_resource, release_surface_resource,
        surface_request_dropped, prune_expired, prune_expired_reconciliations, executor_acts,
        complete_action, request_action_cancellation, push_bounded
<1>19. CASE release_session
  BY <1>19 DEF release_session
<1> QED
  BY <1>1, <1>2, <1>3, <1>4, <1>5, <1>6, <1>7, <1>8, <1>9, <1>10, <1>11, <1>12, <1>13, <1>14,
     <1>15, <1>16, <1>17, <1>18, <1>19 DEF Next, Handlers, Release, vars

TaskShape ==
  task \in [Actions -> {"idle", "scheduled", "observing", "captured", "observed", "verified"}]

\* Every step leaves the surfaces in their shape.
LEMMA NextPlacesShape ==
  ASSUME PlacesShape, [Next]_vars
  PROVE  PlacesShape'
<1> USE DEF PlacesShape
<1>1. ASSUME release_records
      PROVE  PlacesShape'
  BY <1>1 DEF release_records
<1>2. ASSUME release_session
      PROVE  PlacesShape'
  BY <1>2 DEF release_session
<1>3. ASSUME session_removed
      PROVE  PlacesShape'
  BY <1>3 DEF session_removed
<1>4. ASSUME clear_managed_surface_action_authority
      PROVE  PlacesShape'
  BY <1>4 DEF clear_managed_surface_action_authority
<1>5. ASSUME release_provider_observation
      PROVE  PlacesShape'
  BY <1>5 DEF release_provider_observation
<1>6. ASSUME reap_expired_surface_owner
      PROVE  PlacesShape'
  BY <1>6 DEF reap_expired_surface_owner
<1>7. ASSUME NEW i \in Surfaces, activate_surface_resource(i)
      PROVE  PlacesShape'
  BY <1>7 DEF activate_surface_resource
<1>8. ASSUME NEW i \in Surfaces, release_surface_resource(i)
      PROVE  PlacesShape'
  BY <1>8 DEF release_surface_resource
<1>9. ASSUME Handlers
      PROVE  UNCHANGED places
  BY <1>9 DEF Handlers, plan, plan_snapshot, plan_bind, plan_refused, plan_admit, confirm,
        confirm_refused, confirm_authorize, confirm_prepare, confirm_hold, confirm_enqueue,
        places
<1>10. ASSUME NEW i \in Surfaces, Worker(i)
       PROVE  UNCHANGED places
  BY <1>10 DEF Worker, take_surface_actions, complete_surface_action,
        ensure_managed_surface_action_authority, ensure_managed_surface_observation_binding,
        take_managed_surface_actions, arm_begin, arm_untracked, arm_tracked, arm_exchange,
        arm_without_capability, Withheld, reject_managed_action_before_executor, take_return,
        complete_managed_surface_action, record_managed_consequential_executor_completion,
        places
<1>11. ASSUME NEW a \in Actions, Reconcile(a)
       PROVE  UNCHANGED places
  BY <1>11 DEF Reconcile, reconcile_begin, reconcile_capture, abandon_postcondition_observation,
        reconcile_admit, reconcile_consequential_postconditions, record_committed, places
<1>12. ASSUME Release
       PROVE  \/ UNCHANGED places
              \/ release_records
              \/ release_session
  BY <1>12 DEF Release, release_collect, release_report, places
<1>13. ASSUME Surroundings
       PROVE  \/ UNCHANGED places
              \/ session_removed
              \/ clear_managed_surface_action_authority
              \/ release_provider_observation
              \/ reap_expired_surface_owner
              \/ \E i \in Surfaces : activate_surface_resource(i)
              \/ \E i \in Surfaces : release_surface_resource(i)
  BY <1>13 DEF Surroundings, request_dropped, take_actions, surface_request_dropped,
        prune_expired, prune_expired_reconciliations, executor_acts, complete_action,
        request_action_cancellation, Forget, push_bounded, places
<1> QED
  BY <1>1, <1>2, <1>3, <1>4, <1>5, <1>6, <1>7, <1>8, <1>9, <1>10, <1>11, <1>12, <1>13 DEF Next,
        vars, places

\* Every step leaves the bridge's queues in their shape.
LEMMA NextBridgeShape ==
  ASSUME BridgeShape, GateShape, [Next]_vars
  PROVE  BridgeShape'
<1> USE DEF BridgeShape, GateShape, GateHoldsAction, Authorities
<1>1. ASSUME plan_bind
      PROVE  BridgeShape'
  BY <1>1 DEF plan_bind
<1>2. ASSUME plan_admit
      PROVE  BridgeShape'
  BY <1>2 DEF plan_admit
<1>3. ASSUME NEW a \in Actions, confirm(a)
      PROVE  BridgeShape'
  BY <1>3 DEF confirm
<1>4. ASSUME confirm_refused
      PROVE  BridgeShape'
  BY <1>4 DEF confirm_refused
<1>5. ASSUME confirm_enqueue
      PROVE  BridgeShape'
  BY <1>5 DEF confirm_enqueue
<1>6. ASSUME release_session
      PROVE  BridgeShape'
  BY <1>6 DEF release_session
<1>7. ASSUME take_actions
      PROVE  BridgeShape'
  BY <1>7 DEF take_actions
<1>8. ASSUME clear_managed_surface_action_authority
      PROVE  BridgeShape'
  BY <1>8 DEF clear_managed_surface_action_authority
<1>9. ASSUME release_provider_observation
      PROVE  BridgeShape'
  BY <1>9 DEF release_provider_observation
<1>10. ASSUME NEW a \in Actions, prune_expired(a)
       PROVE  BridgeShape'
  BY <1>10 DEF prune_expired
<1>11. ASSUME NEW a \in Actions, complete_action(a)
       PROVE  BridgeShape'
  BY <1>11 DEF complete_action
<1>12. ASSUME NEW a \in Actions, request_action_cancellation(a)
       PROVE  BridgeShape'
  BY <1>12 DEF request_action_cancellation, Forget
<1>13. ASSUME NEW a \in Actions, push_bounded(a)
       PROVE  BridgeShape'
  BY <1>13 DEF push_bounded, Forget
<1>14. ASSUME NEW i \in Surfaces, ensure_managed_surface_action_authority(i)
       PROVE  BridgeShape'
  BY <1>14 DEF ensure_managed_surface_action_authority, Rebind
<1>15. ASSUME NEW i \in Surfaces, ensure_managed_surface_observation_binding(i)
       PROVE  BridgeShape'
  BY <1>15 DEF ensure_managed_surface_observation_binding
<1>16. ASSUME NEW i \in Surfaces, take_managed_surface_actions(i)
       PROVE  BridgeShape'
  BY <1>16 DEF take_managed_surface_actions
<1>17. ASSUME NEW i \in Surfaces, NEW a \in Actions, arm_without_capability(i, a)
       PROVE  BridgeShape'
  BY <1>17 DEF arm_without_capability, Withheld
<1>18. ASSUME NEW i \in Surfaces, NEW a \in Actions, reject_managed_action_before_executor(i, a)
       PROVE  BridgeShape'
  BY <1>18 DEF reject_managed_action_before_executor, Withheld
<1>19. ASSUME NEW i \in Surfaces, complete_managed_surface_action(i)
       PROVE  BridgeShape'
  BY <1>19 DEF complete_managed_surface_action
<1>20. ASSUME NEW a \in Actions, reconcile_admit(a)
       PROVE  BridgeShape'
  BY <1>20 DEF reconcile_admit
<1>21. ASSUME Handlers
       PROVE  \/ UNCHANGED bridge
              \/ plan_bind
              \/ plan_admit
              \/ \E a \in Actions : confirm(a)
              \/ confirm_refused
              \/ confirm_enqueue
  BY <1>21 DEF Handlers, plan, plan_snapshot, plan_refused, confirm_authorize, confirm_prepare,
        confirm_hold, bridge
<1>22. ASSUME NEW i \in Surfaces, Worker(i)
       PROVE  \/ UNCHANGED bridge
              \/ ensure_managed_surface_action_authority(i)
              \/ ensure_managed_surface_observation_binding(i)
              \/ take_managed_surface_actions(i)
              \/ \E a \in Actions : arm_without_capability(i, a)
              \/ \E a \in Actions : reject_managed_action_before_executor(i, a)
              \/ complete_managed_surface_action(i)
  BY <1>22 DEF Worker, take_surface_actions, complete_surface_action, arm_begin, arm_untracked,
        arm_tracked, arm_exchange, take_return,
        record_managed_consequential_executor_completion, bridge
<1>23. ASSUME NEW a \in Actions, Reconcile(a)
       PROVE  \/ UNCHANGED bridge
              \/ reconcile_admit(a)
  BY <1>23 DEF Reconcile, reconcile_begin, reconcile_capture, abandon_postcondition_observation,
        reconcile_consequential_postconditions, record_committed, bridge
<1>24. ASSUME Release
       PROVE  \/ UNCHANGED bridge
              \/ release_session
  BY <1>24 DEF Release, release_collect, release_report, release_records, bridge
<1>25. ASSUME Surroundings
       PROVE  \/ UNCHANGED bridge
              \/ take_actions
              \/ clear_managed_surface_action_authority
              \/ release_provider_observation
              \/ \E a \in Actions : prune_expired(a)
              \/ \E a \in Actions : complete_action(a)
              \/ \E a \in Actions : request_action_cancellation(a)
              \/ \E a \in Actions : push_bounded(a)
  BY <1>25 DEF Surroundings, session_removed, request_dropped, reap_expired_surface_owner,
        activate_surface_resource, release_surface_resource, surface_request_dropped,
        prune_expired_reconciliations, executor_acts, bridge
<1> QED
  BY <1>1, <1>2, <1>3, <1>4, <1>5, <1>6, <1>7, <1>8, <1>9, <1>10, <1>11, <1>12, <1>13, <1>14,
     <1>15, <1>16, <1>17, <1>18, <1>19, <1>20, <1>21, <1>22, <1>23, <1>24, <1>25 DEF Next, vars,
        bridge

\* Every step leaves the control records in their shape.
LEMMA NextControlShape ==
  ASSUME ControlShape, GateShape, RequestShape, [Next]_vars
  PROVE  ControlShape'
<1> USE DEF ControlShape
<1>1. ASSUME plan_bind
      PROVE  ControlShape'
  BY <1>1 DEF plan_bind, GateShape, GateType, Authorities
<1>2. ASSUME plan_admit
      PROVE  ControlShape'
  BY <1>2 DEF plan_admit, GateShape, GateHoldsAction
<1>3. ASSUME NEW a \in Actions, confirm(a)
      PROVE  ControlShape'
  BY <1>3 DEF confirm
<1>4. ASSUME confirm_hold
      PROVE  ControlShape'
  BY <1>4 DEF confirm_hold, GateShape, GateHoldsAction
<1>5. ASSUME confirm_enqueue
      PROVE  ControlShape'
  BY <1>5 DEF confirm_enqueue
<1>6. ASSUME release_collect
      PROVE  ControlShape'
  BY <1>6 DEF release_collect
<1>7. ASSUME release_records
      PROVE  ControlShape'
  BY <1>7 DEF release_records
<1>8. ASSUME NEW a \in Actions, prune_expired(a)
      PROVE  ControlShape'
  BY <1>8 DEF prune_expired
<1>9. ASSUME NEW a \in Actions, prune_expired_reconciliations(a)
      PROVE  ControlShape'
  BY <1>9 DEF prune_expired_reconciliations
<1>10. ASSUME NEW i \in Surfaces, NEW a \in Actions, arm_tracked(i, a)
       PROVE  ControlShape'
  BY <1>10 DEF arm_tracked
<1>11. ASSUME NEW i \in Surfaces, arm_exchange(i)
       PROVE  ControlShape'
  BY <1>11, RequestFields DEF arm_exchange, RequestShape
<1>12. ASSUME NEW i \in Surfaces, NEW a \in Actions, arm_without_capability(i, a)
       PROVE  ControlShape'
  BY <1>12 DEF arm_without_capability, Withheld, SetRecord
<1>13. ASSUME NEW i \in Surfaces, NEW a \in Actions, reject_managed_action_before_executor(i, a)
       PROVE  ControlShape'
  BY <1>13 DEF reject_managed_action_before_executor, Withheld, SetRecord
<1>14. ASSUME NEW i \in Surfaces, record_managed_consequential_executor_completion(i)
       PROVE  ControlShape'
  BY <1>14 DEF record_managed_consequential_executor_completion
<1>15. ASSUME NEW a \in Actions, reconcile_begin(a)
       PROVE  ControlShape'
  BY <1>15 DEF reconcile_begin, SetRecord, set_reconciliation_required
<1>16. ASSUME NEW a \in Actions, abandon_postcondition_observation(a)
       PROVE  ControlShape'
  BY <1>16 DEF abandon_postcondition_observation, SetRecord, set_reconciliation_required
<1>17. ASSUME NEW a \in Actions, reconcile_consequential_postconditions(a)
       PROVE  ControlShape'
  BY <1>17 DEF reconcile_consequential_postconditions, SetRecord, set_reconciliation_required
<1>18. ASSUME NEW a \in Actions, record_committed(a)
       PROVE  ControlShape'
  BY <1>18 DEF record_committed, SetRecord, set_reconciliation_required
<1>19. ASSUME Handlers
       PROVE  \/ UNCHANGED control
              \/ plan_bind
              \/ plan_admit
              \/ \E a \in Actions : confirm(a)
              \/ confirm_hold
              \/ confirm_enqueue
  BY <1>19 DEF Handlers, plan, plan_snapshot, plan_refused, confirm_refused, confirm_authorize,
        confirm_prepare, control
<1>20. ASSUME NEW i \in Surfaces, Worker(i)
       PROVE  \/ UNCHANGED control
              \/ \E a \in Actions : arm_tracked(i, a)
              \/ arm_exchange(i)
              \/ \E a \in Actions : arm_without_capability(i, a)
              \/ \E a \in Actions : reject_managed_action_before_executor(i, a)
              \/ record_managed_consequential_executor_completion(i)
  BY <1>20 DEF Worker, take_surface_actions, complete_surface_action,
        ensure_managed_surface_action_authority, ensure_managed_surface_observation_binding,
        take_managed_surface_actions, arm_begin, arm_untracked, take_return,
        complete_managed_surface_action, control
<1>21. ASSUME NEW a \in Actions, Reconcile(a)
       PROVE  \/ UNCHANGED control
              \/ reconcile_begin(a)
              \/ abandon_postcondition_observation(a)
              \/ reconcile_consequential_postconditions(a)
              \/ record_committed(a)
  BY <1>21 DEF Reconcile, reconcile_capture, reconcile_admit, control
<1>22. ASSUME Release
       PROVE  \/ UNCHANGED control
              \/ release_collect
              \/ release_records
  BY <1>22 DEF Release, release_report, release_session, control
<1>23. ASSUME Surroundings
       PROVE  \/ UNCHANGED control
              \/ \E a \in Actions : prune_expired(a)
              \/ \E a \in Actions : prune_expired_reconciliations(a)
  BY <1>23 DEF Surroundings, session_removed, request_dropped, take_actions,
        clear_managed_surface_action_authority, release_provider_observation,
        reap_expired_surface_owner, activate_surface_resource, release_surface_resource,
        surface_request_dropped, executor_acts, complete_action, request_action_cancellation,
        Forget, push_bounded, control
<1> QED
  BY <1>1, <1>2, <1>3, <1>4, <1>5, <1>6, <1>7, <1>8, <1>9, <1>10, <1>11, <1>12, <1>13, <1>14,
     <1>15, <1>16, <1>17, <1>18, <1>19, <1>20, <1>21, <1>22, <1>23 DEF Next, vars, control

\* Every step leaves the journal's records in their shape.
LEMMA NextJournalShape ==
  ASSUME JournalShape, [Next]_vars
  PROVE  JournalShape'
<1> USE DEF JournalShape, Stages
<1>1. ASSUME plan_admit
      PROVE  JournalShape'
  BY <1>1 DEF plan_admit
<1>2. ASSUME confirm_authorize
      PROVE  JournalShape'
  BY <1>2 DEF confirm_authorize
<1>3. ASSUME confirm_prepare
      PROVE  JournalShape'
  BY <1>3 DEF confirm_prepare
<1>4. ASSUME confirm_enqueue
      PROVE  JournalShape'
  <2>1. RuleOut(prepared \cap {gate.action}, {}) \/ UNCHANGED journal
    BY <1>4 DEF confirm_enqueue
  <2> QED
    BY <2>1, RuleOutShape DEF journal
<1>5. ASSUME release_report
      PROVE  JournalShape'
  BY <1>5, RuleOutShape DEF release_report
<1>6. ASSUME NEW i \in Surfaces, arm_exchange(i)
      PROVE  JournalShape'
  BY <1>6 DEF arm_exchange
<1>7. ASSUME NEW i \in Surfaces, NEW a \in Actions, reject_managed_action_before_executor(i, a)
      PROVE  JournalShape'
  <2>1. RuleOut(prepared \cap {a}, {})
    BY <1>7 DEF reject_managed_action_before_executor
  <2> QED
    BY <2>1, RuleOutShape
<1>8. ASSUME NEW i \in Surfaces, record_managed_consequential_executor_completion(i)
      PROVE  JournalShape'
  BY <1>8 DEF record_managed_consequential_executor_completion, journal
<1>9. ASSUME NEW a \in Actions, reconcile_begin(a)
      PROVE  JournalShape'
  BY <1>9 DEF reconcile_begin
<1>10. ASSUME NEW a \in Actions, abandon_postcondition_observation(a)
       PROVE  JournalShape'
  BY <1>10 DEF abandon_postcondition_observation
<1>11. ASSUME NEW a \in Actions, reconcile_admit(a)
       PROVE  JournalShape'
  BY <1>11 DEF reconcile_admit
<1>12. ASSUME NEW a \in Actions, reconcile_consequential_postconditions(a)
       PROVE  JournalShape'
  BY <1>12 DEF reconcile_consequential_postconditions
<1>13. ASSUME NEW a \in Actions, record_committed(a)
       PROVE  JournalShape'
  BY <1>13 DEF record_committed
<1>14. ASSUME Handlers
       PROVE  \/ UNCHANGED journal
              \/ plan_admit
              \/ confirm_authorize
              \/ confirm_prepare
              \/ confirm_enqueue
  BY <1>14 DEF Handlers, plan, plan_snapshot, plan_bind, plan_refused, confirm, confirm_refused,
        confirm_hold, journal
<1>15. ASSUME NEW i \in Surfaces, Worker(i)
       PROVE  \/ UNCHANGED journal
              \/ arm_exchange(i)
              \/ \E a \in Actions : reject_managed_action_before_executor(i, a)
              \/ record_managed_consequential_executor_completion(i)
  BY <1>15 DEF Worker, take_surface_actions, complete_surface_action,
        ensure_managed_surface_action_authority, ensure_managed_surface_observation_binding,
        take_managed_surface_actions, arm_begin, arm_untracked, arm_tracked,
        arm_without_capability, Withheld, take_return, complete_managed_surface_action, journal
<1>16. ASSUME NEW a \in Actions, Reconcile(a)
       PROVE  \/ UNCHANGED journal
              \/ reconcile_begin(a)
              \/ abandon_postcondition_observation(a)
              \/ reconcile_admit(a)
              \/ reconcile_consequential_postconditions(a)
              \/ record_committed(a)
  BY <1>16 DEF Reconcile, reconcile_capture, journal
<1>17. ASSUME Release
       PROVE  \/ UNCHANGED journal
              \/ release_report
  BY <1>17 DEF Release, release_collect, release_records, release_session, journal
<1>18. ASSUME Surroundings
       PROVE  UNCHANGED journal
  BY <1>18 DEF Surroundings, session_removed, request_dropped, take_actions,
        clear_managed_surface_action_authority, release_provider_observation,
        reap_expired_surface_owner, activate_surface_resource, release_surface_resource,
        surface_request_dropped, prune_expired, prune_expired_reconciliations, executor_acts,
        complete_action, request_action_cancellation, Forget, push_bounded, journal
<1> QED
  BY <1>1, <1>2, <1>3, <1>4, <1>5, <1>6, <1>7, <1>8, <1>9, <1>10, <1>11, <1>12, <1>13, <1>14,
     <1>15, <1>16, <1>17, <1>18 DEF Next, vars, journal

\* Every step leaves the page's side in its shape.
LEMMA NextWorldShape ==
  ASSUME WorldShape, PlacesShape, [Next]_vars
  PROVE  WorldShape'
<1> USE DEF WorldShape, Authorities
<1>1. ASSUME take_actions
      PROVE  WorldShape'
  BY <1>1 DEF take_actions
<1>2. ASSUME NEW a \in Actions, executor_acts(a)
      PROVE  WorldShape'
  BY <1>2 DEF executor_acts
<1>3. ASSUME NEW a \in Actions, complete_action(a)
      PROVE  WorldShape'
  BY <1>3 DEF complete_action
<1>4. ASSUME NEW i \in Surfaces, NEW a \in Actions, complete_surface_action(i, a)
      PROVE  WorldShape'
  BY <1>4 DEF complete_surface_action
<1>5. ASSUME NEW i \in Surfaces, take_return(i)
      PROVE  WorldShape'
  BY <1>5 DEF take_return
<1>6. ASSUME NEW i \in Surfaces, complete_managed_surface_action(i)
      PROVE  WorldShape'
  BY <1>6 DEF complete_managed_surface_action
<1>7. ASSUME NEW i \in Surfaces, record_managed_consequential_executor_completion(i)
      PROVE  WorldShape'
  BY <1>7 DEF record_managed_consequential_executor_completion
<1>8. ASSUME NEW a \in Actions, reconcile_capture(a)
      PROVE  WorldShape'
  BY <1>8 DEF reconcile_capture, PlacesShape
<1>9. ASSUME Handlers
      PROVE  UNCHANGED world
  BY <1>9 DEF Handlers, plan, plan_snapshot, plan_bind, plan_refused, plan_admit, confirm,
        confirm_refused, confirm_authorize, confirm_prepare, confirm_hold, confirm_enqueue,
        world
<1>10. ASSUME NEW i \in Surfaces, Worker(i)
       PROVE  \/ UNCHANGED world
              \/ \E a \in Actions : complete_surface_action(i, a)
              \/ take_return(i)
              \/ complete_managed_surface_action(i)
              \/ record_managed_consequential_executor_completion(i)
  BY <1>10 DEF Worker, take_surface_actions, ensure_managed_surface_action_authority,
        ensure_managed_surface_observation_binding, take_managed_surface_actions, arm_begin,
        arm_untracked, arm_tracked, arm_exchange, arm_without_capability, Withheld,
        reject_managed_action_before_executor, world
<1>11. ASSUME NEW a \in Actions, Reconcile(a)
       PROVE  \/ UNCHANGED world
              \/ reconcile_capture(a)
  BY <1>11 DEF Reconcile, reconcile_begin, abandon_postcondition_observation, reconcile_admit,
        reconcile_consequential_postconditions, record_committed, world
<1>12. ASSUME Release
       PROVE  UNCHANGED world
  BY <1>12 DEF Release, release_collect, release_report, release_records, release_session, world
<1>13. ASSUME Surroundings
       PROVE  \/ UNCHANGED world
              \/ take_actions
              \/ \E a \in Actions : executor_acts(a)
              \/ \E a \in Actions : complete_action(a)
  BY <1>13 DEF Surroundings, session_removed, request_dropped,
        clear_managed_surface_action_authority, release_provider_observation,
        reap_expired_surface_owner, activate_surface_resource, release_surface_resource,
        surface_request_dropped, prune_expired, prune_expired_reconciliations,
        request_action_cancellation, Forget, push_bounded, world
<1> QED
  BY <1>1, <1>2, <1>3, <1>4, <1>5, <1>6, <1>7, <1>8, <1>9, <1>10, <1>11, <1>12, <1>13 DEF Next,
        vars, world

\* Every step leaves the dispatch tasks in their shape.
LEMMA NextTaskShape ==
  ASSUME TaskShape, [Next]_vars
  PROVE  TaskShape'
<1> USE DEF TaskShape
<1>1. ASSUME NEW i \in Surfaces, record_managed_consequential_executor_completion(i)
      PROVE  TaskShape'
  BY <1>1 DEF record_managed_consequential_executor_completion
<1>2. ASSUME NEW a \in Actions, reconcile_begin(a)
      PROVE  TaskShape'
  BY <1>2 DEF reconcile_begin, Advance, set_reconciliation_required
<1>3. ASSUME NEW a \in Actions, reconcile_capture(a)
      PROVE  TaskShape'
  BY <1>3 DEF reconcile_capture, Advance, set_reconciliation_required
<1>4. ASSUME NEW a \in Actions, abandon_postcondition_observation(a)
      PROVE  TaskShape'
  BY <1>4 DEF abandon_postcondition_observation, Advance, set_reconciliation_required
<1>5. ASSUME NEW a \in Actions, reconcile_admit(a)
      PROVE  TaskShape'
  BY <1>5 DEF reconcile_admit, Advance, set_reconciliation_required
<1>6. ASSUME NEW a \in Actions, reconcile_consequential_postconditions(a)
      PROVE  TaskShape'
  BY <1>6 DEF reconcile_consequential_postconditions, Advance, set_reconciliation_required
<1>7. ASSUME NEW a \in Actions, record_committed(a)
      PROVE  TaskShape'
  BY <1>7 DEF record_committed, Advance, set_reconciliation_required
<1>8. ASSUME Handlers
      PROVE  UNCHANGED task
  BY <1>8 DEF Handlers, plan, plan_snapshot, plan_bind, plan_refused, plan_admit, confirm,
        confirm_refused, confirm_authorize, confirm_prepare, confirm_hold, confirm_enqueue
<1>9. ASSUME NEW i \in Surfaces, Worker(i)
      PROVE  \/ UNCHANGED task
             \/ record_managed_consequential_executor_completion(i)
  BY <1>9 DEF Worker, take_surface_actions, complete_surface_action,
        ensure_managed_surface_action_authority, ensure_managed_surface_observation_binding,
        take_managed_surface_actions, arm_begin, arm_untracked, arm_tracked, arm_exchange,
        arm_without_capability, Withheld, reject_managed_action_before_executor, take_return,
        complete_managed_surface_action
<1>10. ASSUME NEW a \in Actions, Reconcile(a)
       PROVE  \/ UNCHANGED task
              \/ reconcile_begin(a)
              \/ reconcile_capture(a)
              \/ abandon_postcondition_observation(a)
              \/ reconcile_admit(a)
              \/ reconcile_consequential_postconditions(a)
              \/ record_committed(a)
  BY <1>10 DEF Reconcile
<1>11. ASSUME Release
       PROVE  UNCHANGED task
  BY <1>11 DEF Release, release_collect, release_report, release_records, release_session
<1>12. ASSUME Surroundings
       PROVE  UNCHANGED task
  BY <1>12 DEF Surroundings, session_removed, request_dropped, take_actions,
        clear_managed_surface_action_authority, release_provider_observation,
        reap_expired_surface_owner, activate_surface_resource, release_surface_resource,
        surface_request_dropped, prune_expired, prune_expired_reconciliations, executor_acts,
        complete_action, request_action_cancellation, Forget, push_bounded
<1> QED
  BY <1>1, <1>2, <1>3, <1>4, <1>5, <1>6, <1>7, <1>8, <1>9, <1>10, <1>11, <1>12 DEF Next, vars

ShapeInv == Shape /\ GateHoldsAction

\* The initial state has the shape.
LEMMA InitShape ==
  ASSUME Init
  PROVE  ShapeInv
<1> USE DEF Init
<1>1. GateShape
  BY DEF GateShape, GateType, GateHoldsAction, Free, Authorities
<1>2. RequestShape
  BY RequestUpdates DEF RequestShape
<1>3. PlacesShape /\ BridgeShape
  BY DEF PlacesShape, BridgeShape, Authorities
<1>4. ControlShape /\ JournalShape
  BY DEF ControlShape, JournalShape, Authorities, Stages
<1>5. WorldShape /\ TaskShape
  BY DEF WorldShape, TaskShape, Authorities
<1> QED
  BY <1>1, <1>2, <1>3, <1>4, <1>5 DEF ShapeInv, Shape, GateShape, RequestShape, TaskShape

\* Every step keeps the shape.
LEMMA NextShape ==
  ASSUME ShapeInv, [Next]_vars
  PROVE  ShapeInv'
<1>1. /\ PlacesShape /\ BridgeShape /\ ControlShape /\ JournalShape /\ WorldShape
      /\ GateShape /\ RequestShape /\ TaskShape
  BY DEF ShapeInv, Shape, GateShape, RequestShape, TaskShape
<1>2. /\ live \subseteq Surfaces /\ queue \subseteq Actions
      /\ planned \in [Actions -> Authorities] /\ pending \subseteq Actions
      /\ prepared \subseteq Actions /\ executing \subseteq Actions
  BY <1>1 DEF PlacesShape, BridgeShape, ControlShape
<1>3. PlacesShape' /\ BridgeShape' /\ ControlShape' /\ JournalShape'
  BY <1>1, NextPlacesShape, NextBridgeShape, NextControlShape, NextJournalShape
<1>4. WorldShape' /\ TaskShape' /\ GateShape' /\ RequestShape'
  BY <1>1, <1>2, NextWorldShape, NextTaskShape, NextGateShape, NextRequestShape
<1> QED
  BY <1>3, <1>4 DEF ShapeInv, Shape, GateShape, RequestShape, TaskShape

\* The shape holds in every reachable state.
LEMMA ShapeCorrect == Spec => []ShapeInv
<1> QED
  BY InitShape, NextShape, PTL DEF Spec

-----------------------------------------------------------------------------
(***************************************************************************)
(* The capacities.  A handler that holds the gate has found room, and      *)
(* nobody takes it away: plans and records are added under the gate only.  *)
(***************************************************************************)
LEMMA Fewer ==
  ASSUME NEW S, IsFiniteSet(S), NEW T, T \subseteq S
  PROVE  /\ IsFiniteSet(T) /\ Cardinality(T) \in Nat /\ Cardinality(S) \in Nat
         /\ Cardinality(T) <= Cardinality(S)
  BY FS_Subset, FS_CardinalityType

\* One more element, one more in the count.
LEMMA OneMore ==
  ASSUME NEW S, IsFiniteSet(S), NEW x
  PROVE  /\ IsFiniteSet(S \cup {x}) /\ Cardinality(S \cup {x}) \in Nat /\ Cardinality(S) \in Nat
         /\ Cardinality(S \cup {x}) <= Cardinality(S) + 1
<1>1. /\ IsFiniteSet(S \cup {x})
      /\ Cardinality(S \cup {x}) = IF x \in S THEN Cardinality(S) ELSE Cardinality(S) + 1
  BY FS_AddElement
<1>2. Cardinality(S) \in Nat
  BY FS_CardinalityType
<1> QED
  BY <1>1, <1>2

QueueFits == IsFiniteSet(queue) /\ Cardinality(queue) <= MaxQueue

PendingFits ==
  /\ IsFiniteSet(pending) /\ Cardinality(pending) <= MaxPending
  /\ gate.step \in {"plan", "snapshot", "bind"} => Cardinality(pending) < MaxPending

RecordsFit ==
  /\ IsFiniteSet(Records) /\ Cardinality(Records) <= MaxReconciliations
  /\ gate.step \in {"confirm", "authorize", "prepare"} => Cardinality(Records) < MaxReconciliations

\* A drain empties the queue it takes.
LEMMA QueueEmptied == ASSUME queue' = {} PROVE QueueFits'
  BY FS_EmptySet, ConstantsAssumption DEF QueueFits

\* What is taken off a queue leaves it within its bound.
LEMMA QueueShrinks == ASSUME QueueFits, queue' \subseteq queue PROVE QueueFits'
  BY Fewer, ConstantsAssumption DEF QueueFits

\* Every step leaves the action queue within its bound.
LEMMA NextQueueFits ==
  ASSUME QueueFits, [Next]_vars
  PROVE  QueueFits'
<1>1. ASSUME confirm_enqueue
      PROVE  QueueFits'
  <2>1. \/ queue' = queue
        \/ Cardinality(queue) < MaxQueue /\ queue' = queue \cup {gate.action}
    BY <1>1 DEF confirm_enqueue
  <2>2. CASE queue' = queue
    BY <2>2, QueueShrinks
  <2>3. CASE Cardinality(queue) < MaxQueue /\ queue' = queue \cup {gate.action}
    <3>1. /\ IsFiniteSet(queue \cup {gate.action})
          /\ Cardinality(queue) \in Nat /\ Cardinality(queue \cup {gate.action}) \in Nat
          /\ Cardinality(queue \cup {gate.action}) <= Cardinality(queue) + 1
      BY OneMore DEF QueueFits
    <3> QED
      BY <2>3, <3>1, ConstantsAssumption DEF QueueFits
  <2> QED
    BY <2>1, <2>2, <2>3
<1>2. ASSUME release_session
      PROVE  QueueFits'
  BY <1>2, QueueEmptied DEF release_session
<1>3. ASSUME take_actions
      PROVE  QueueFits'
  BY <1>3, QueueEmptied DEF take_actions
<1>4. ASSUME clear_managed_surface_action_authority
      PROVE  QueueFits'
  BY <1>4, QueueShrinks DEF clear_managed_surface_action_authority
<1>5. ASSUME NEW a \in Actions, request_action_cancellation(a)
      PROVE  QueueFits'
  BY <1>5, QueueShrinks DEF request_action_cancellation, Forget
<1>6. ASSUME NEW a \in Actions, push_bounded(a)
      PROVE  QueueFits'
  BY <1>6, QueueShrinks DEF push_bounded, Forget
<1>7. ASSUME NEW i \in Surfaces, ensure_managed_surface_action_authority(i)
      PROVE  QueueFits'
  BY <1>7, QueueShrinks DEF ensure_managed_surface_action_authority, Rebind
<1>8. ASSUME NEW i \in Surfaces, take_managed_surface_actions(i)
      PROVE  QueueFits'
  BY <1>8, QueueEmptied DEF take_managed_surface_actions
<1>9. ASSUME Handlers
      PROVE  \/ UNCHANGED queue
             \/ confirm_enqueue
  BY <1>9 DEF Handlers, plan, plan_snapshot, plan_bind, plan_refused, plan_admit, confirm,
        confirm_refused, confirm_authorize, confirm_prepare, confirm_hold, bridge
<1>10. ASSUME NEW i \in Surfaces, Worker(i)
       PROVE  \/ UNCHANGED queue
              \/ ensure_managed_surface_action_authority(i)
              \/ take_managed_surface_actions(i)
  BY <1>10 DEF Worker, take_surface_actions, complete_surface_action,
        ensure_managed_surface_observation_binding, arm_begin, arm_untracked, arm_tracked,
        arm_exchange, arm_without_capability, Withheld, reject_managed_action_before_executor,
        take_return, complete_managed_surface_action,
        record_managed_consequential_executor_completion, bridge
<1>11. ASSUME NEW a \in Actions, Reconcile(a)
       PROVE  UNCHANGED queue
  BY <1>11 DEF Reconcile, reconcile_begin, reconcile_capture, abandon_postcondition_observation,
        reconcile_admit, reconcile_consequential_postconditions, record_committed, bridge
<1>12. ASSUME Release
       PROVE  \/ UNCHANGED queue
              \/ release_session
  BY <1>12 DEF Release, release_collect, release_report, release_records, bridge
<1>13. ASSUME Surroundings
       PROVE  \/ UNCHANGED queue
              \/ take_actions
              \/ clear_managed_surface_action_authority
              \/ \E a \in Actions : request_action_cancellation(a)
              \/ \E a \in Actions : push_bounded(a)
  BY <1>13 DEF Surroundings, session_removed, request_dropped, release_provider_observation,
        reap_expired_surface_owner, activate_surface_resource, release_surface_resource,
        surface_request_dropped, prune_expired, prune_expired_reconciliations, executor_acts,
        complete_action, bridge
<1> QED
  BY <1>1, <1>2, <1>3, <1>4, <1>5, <1>6, <1>7, <1>8, <1>9, <1>10, <1>11, <1>12, <1>13 DEF Next,
        vars, bridge, QueueFits

\* Every step leaves the plans within their bound.
LEMMA NextPendingFits ==
  ASSUME PendingFits, GateShape, [Next]_vars
  PROVE  PendingFits'
<1> USE DEF PendingFits, GateShape, GateType
<1>1. ASSUME NEW a \in Actions, plan(a)
      PROVE  PendingFits'
  BY <1>1 DEF plan, Free, Holding, control
<1>2. ASSUME plan_snapshot
      PROVE  PendingFits'
  BY <1>2 DEF plan_snapshot, control
<1>3. ASSUME plan_bind
      PROVE  PendingFits'
  BY <1>3 DEF plan_bind, Free, Holding
<1>4. ASSUME plan_refused
      PROVE  PendingFits'
  BY <1>4 DEF plan_refused, Free, control
<1>5. ASSUME plan_admit
      PROVE  PendingFits'
  <2>1. gate' = Free /\ Cardinality(pending) < MaxPending
    BY <1>5 DEF plan_admit
  <2>2. pending' = pending \/ pending' = pending \cup {gate.action}
    BY <1>5 DEF plan_admit
  <2>3. CASE pending' = pending
    BY <2>1, <2>3 DEF Free
  <2>4. CASE pending' = pending \cup {gate.action}
    BY <2>1, <2>4, OneMore, ConstantsAssumption DEF Free
  <2> QED
    BY <2>2, <2>3, <2>4
<1>6. ASSUME NEW a \in Actions, confirm(a)
      PROVE  PendingFits'
  <2>1. pending' \subseteq pending
    BY <1>6 DEF confirm
  <2>2. gate'.step \notin {"plan", "snapshot", "bind"}
    BY <1>6 DEF confirm, Free, Holding
  <2> QED
    BY <2>1, <2>2, Fewer, ConstantsAssumption
<1>7. ASSUME confirm_refused
      PROVE  PendingFits'
  BY <1>7 DEF confirm_refused, Free, control
<1>8. ASSUME confirm_authorize
      PROVE  PendingFits'
  BY <1>8 DEF confirm_authorize, Free, Holding, control
<1>9. ASSUME confirm_prepare
      PROVE  PendingFits'
  BY <1>9 DEF confirm_prepare, Free, Holding, control
<1>10. ASSUME confirm_hold
       PROVE  PendingFits'
  BY <1>10 DEF confirm_hold, Free, Holding
<1>11. ASSUME confirm_enqueue
       PROVE  PendingFits'
  BY <1>11 DEF confirm_enqueue, Free
<1>12. ASSUME release_collect
       PROVE  PendingFits'
  BY <1>12, FS_EmptySet, ConstantsAssumption DEF release_collect, Free
<1>13. ASSUME release_report
       PROVE  PendingFits'
  BY <1>13 DEF release_report, control
<1>14. ASSUME release_records
       PROVE  PendingFits'
  BY <1>14 DEF release_records, Free
<1>15. ASSUME request_dropped
       PROVE  PendingFits'
  BY <1>15 DEF request_dropped, Free, control
<1>16. ASSUME NEW a \in Actions, prune_expired(a)
       PROVE  PendingFits'
  BY <1>16, Fewer, ConstantsAssumption DEF prune_expired, Free
<1>17. ASSUME Handlers
       PROVE  \/ UNCHANGED <<pending, gate>>
              \/ \E a \in Actions : plan(a)
              \/ plan_snapshot
              \/ plan_bind
              \/ plan_refused
              \/ plan_admit
              \/ \E a \in Actions : confirm(a)
              \/ confirm_refused
              \/ confirm_authorize
              \/ confirm_prepare
              \/ confirm_hold
              \/ confirm_enqueue
  BY <1>17 DEF Handlers, control
<1>18. ASSUME NEW i \in Surfaces, Worker(i)
       PROVE  UNCHANGED <<pending, gate>>
  BY <1>18 DEF Worker, take_surface_actions, complete_surface_action,
        ensure_managed_surface_action_authority, ensure_managed_surface_observation_binding,
        take_managed_surface_actions, arm_begin, arm_untracked, arm_tracked, arm_exchange,
        arm_without_capability, Withheld, reject_managed_action_before_executor, take_return,
        complete_managed_surface_action, record_managed_consequential_executor_completion,
        control
<1>19. ASSUME NEW a \in Actions, Reconcile(a)
       PROVE  UNCHANGED <<pending, gate>>
  BY <1>19 DEF Reconcile, reconcile_begin, reconcile_capture, abandon_postcondition_observation,
        reconcile_admit, reconcile_consequential_postconditions, record_committed, control
<1>20. ASSUME Release
       PROVE  \/ UNCHANGED <<pending, gate>>
              \/ release_collect
              \/ release_report
              \/ release_records
  BY <1>20 DEF Release, release_session, control
<1>21. ASSUME Surroundings
       PROVE  \/ UNCHANGED <<pending, gate>>
              \/ request_dropped
              \/ \E a \in Actions : prune_expired(a)
  BY <1>21 DEF Surroundings, session_removed, take_actions,
        clear_managed_surface_action_authority, release_provider_observation,
        reap_expired_surface_owner, activate_surface_resource, release_surface_resource,
        surface_request_dropped, prune_expired_reconciliations, executor_acts, complete_action,
        request_action_cancellation, Forget, push_bounded, control
<1> QED
  BY <1>1, <1>2, <1>3, <1>4, <1>5, <1>6, <1>7, <1>8, <1>9, <1>10, <1>11, <1>12, <1>13, <1>14,
     <1>15, <1>16, <1>17, <1>18, <1>19, <1>20, <1>21 DEF Next, vars, control

\* A record that changes its state is still there, and no other appears.
LEMMA SetRecordKeepsRecords ==
  ASSUME ControlShape, NEW a, NEW s, s # "none", SetRecord(a, s)
  PROVE  Records' = Records
  BY DEF SetRecord, Records, ControlShape

\* Records that are forgotten leave the rest within the bound.
LEMMA RecordsShrink ==
  ASSUME RecordsFit, Records' \subseteq Records, UNCHANGED gate
  PROVE  RecordsFit'
  BY Fewer, ConstantsAssumption DEF RecordsFit

\* Every step leaves the control records within their bound.
LEMMA NextRecordsFit ==
  ASSUME RecordsFit, ControlShape, GateShape, [Next]_vars
  PROVE  RecordsFit'
<1>1. ASSUME NEW a \in Actions, plan(a)
      PROVE  RecordsFit'
  BY <1>1 DEF plan, RecordsFit, Records, GateShape, GateType, Free, Holding, control
<1>2. ASSUME plan_snapshot
      PROVE  RecordsFit'
  BY <1>2 DEF plan_snapshot, RecordsFit, Records, GateShape, GateType, control
<1>3. ASSUME plan_bind
      PROVE  RecordsFit'
  BY <1>3 DEF plan_bind, RecordsFit, Records, GateShape, GateType, Free, Holding
<1>4. ASSUME plan_refused
      PROVE  RecordsFit'
  BY <1>4 DEF plan_refused, RecordsFit, Records, GateShape, GateType, Free, control
<1>5. ASSUME plan_admit
      PROVE  RecordsFit'
  BY <1>5 DEF plan_admit, RecordsFit, Records, GateShape, GateType, Free
<1>6. ASSUME NEW a \in Actions, confirm(a)
      PROVE  RecordsFit'
  <2>1. Records' = Records
    BY <1>6 DEF confirm, Records
  <2>2. \/ gate' = gate
        \/ gate'.step = "confirm" /\ Cardinality(Records) < MaxReconciliations
    BY <1>6 DEF confirm, Free, Holding
  <2> QED
    BY <2>1, <2>2 DEF RecordsFit
<1>7. ASSUME confirm_refused
      PROVE  RecordsFit'
  BY <1>7 DEF confirm_refused, RecordsFit, Records, GateShape, GateType, Free, control
<1>8. ASSUME confirm_authorize
      PROVE  RecordsFit'
  BY <1>8 DEF confirm_authorize, RecordsFit, Records, GateShape, GateType, Free, Holding,
        control
<1>9. ASSUME confirm_prepare
      PROVE  RecordsFit'
  BY <1>9 DEF confirm_prepare, RecordsFit, Records, GateShape, GateType, Free, Holding, control
<1>10. ASSUME confirm_hold
       PROVE  RecordsFit'
  <2>1. Records' \subseteq Records \cup {gate.action}
    BY <1>10 DEF confirm_hold, Records, ControlShape
  <2>2. gate'.step = "hold" /\ Cardinality(Records) < MaxReconciliations
    BY <1>10 DEF confirm_hold, Holding, Free, RecordsFit
  <2>3. /\ IsFiniteSet(Records \cup {gate.action})
        /\ Cardinality(Records) \in Nat /\ Cardinality(Records \cup {gate.action}) \in Nat
        /\ Cardinality(Records \cup {gate.action}) <= Cardinality(Records) + 1
    BY OneMore DEF RecordsFit
  <2>4. /\ IsFiniteSet(Records') /\ Cardinality(Records') \in Nat
        /\ Cardinality(Records') <= Cardinality(Records \cup {gate.action})
    BY <2>1, <2>3, Fewer
  <2> QED
    BY <2>2, <2>3, <2>4, ConstantsAssumption DEF RecordsFit
<1>11. ASSUME confirm_enqueue
       PROVE  RecordsFit'
  <2>1. Records' \subseteq Records
    BY <1>11 DEF confirm_enqueue, Records, ControlShape
  <2>2. gate'.step = "free"
    BY <1>11 DEF confirm_enqueue, Free
  <2> QED
    BY <2>1, <2>2, Fewer, ConstantsAssumption DEF RecordsFit
<1>12. ASSUME release_collect
       PROVE  RecordsFit'
  BY <1>12 DEF release_collect, RecordsFit, Records, GateShape, GateType, Free
<1>13. ASSUME release_report
       PROVE  RecordsFit'
  BY <1>13 DEF release_report, RecordsFit, Records, GateShape, GateType, control
<1>14. ASSUME release_records
       PROVE  RecordsFit'
  <2>1. Records' = {} /\ gate'.step = "free"
    BY <1>14 DEF release_records, Records, Free
  <2> QED
    BY <2>1, FS_EmptySet, ConstantsAssumption DEF RecordsFit
<1>15. ASSUME request_dropped
       PROVE  RecordsFit'
  BY <1>15 DEF request_dropped, RecordsFit, Records, GateShape, GateType, Free, control
<1>16. ASSUME NEW a \in Actions, prune_expired_reconciliations(a)
       PROVE  RecordsFit'
  <2>1. Records' \subseteq Records
    BY <1>16 DEF prune_expired_reconciliations, Records, ControlShape
  <2> QED
    BY <1>16, <2>1, RecordsShrink DEF prune_expired_reconciliations
<1>17. ASSUME NEW i \in Surfaces, NEW a \in Actions, arm_without_capability(i, a)
       PROVE  RecordsFit'
  <2>1. Records' = Records
    BY <1>17, SetRecordKeepsRecords DEF arm_without_capability, Withheld
  <2> QED
    BY <1>17, <2>1 DEF arm_without_capability, Withheld, RecordsFit
<1>18. ASSUME NEW i \in Surfaces, NEW a \in Actions, reject_managed_action_before_executor(i, a)
       PROVE  RecordsFit'
  <2>1. Records' = Records
    BY <1>18, SetRecordKeepsRecords DEF reject_managed_action_before_executor, Withheld
  <2> QED
    BY <1>18, <2>1 DEF reject_managed_action_before_executor, Withheld, RecordsFit
<1>19. ASSUME NEW a \in Actions, reconcile_begin(a)
       PROVE  RecordsFit'
  <2>1. Records' = Records
    BY <1>19, SetRecordKeepsRecords DEF reconcile_begin, set_reconciliation_required
  <2> QED
    BY <1>19, <2>1 DEF reconcile_begin, RecordsFit
<1>20. ASSUME NEW a \in Actions, abandon_postcondition_observation(a)
       PROVE  RecordsFit'
  <2>1. Records' = Records
    BY <1>20, SetRecordKeepsRecords DEF abandon_postcondition_observation,
          set_reconciliation_required
  <2> QED
    BY <1>20, <2>1 DEF abandon_postcondition_observation, RecordsFit
<1>21. ASSUME NEW a \in Actions, reconcile_consequential_postconditions(a)
       PROVE  RecordsFit'
  <2>1. Records' = Records
    BY <1>21, SetRecordKeepsRecords DEF reconcile_consequential_postconditions,
          set_reconciliation_required, Records
  <2> QED
    BY <1>21, <2>1 DEF reconcile_consequential_postconditions, RecordsFit
<1>22. ASSUME NEW a \in Actions, record_committed(a)
       PROVE  RecordsFit'
  <2>1. Records' = Records
    BY <1>22, SetRecordKeepsRecords DEF record_committed, set_reconciliation_required, Records
  <2> QED
    BY <1>22, <2>1 DEF record_committed, RecordsFit
<1>23. ASSUME Handlers
       PROVE  \/ UNCHANGED <<record, gate>>
              \/ \E a \in Actions : plan(a)
              \/ plan_snapshot
              \/ plan_bind
              \/ plan_refused
              \/ plan_admit
              \/ \E a \in Actions : confirm(a)
              \/ confirm_refused
              \/ confirm_authorize
              \/ confirm_prepare
              \/ confirm_hold
              \/ confirm_enqueue
  BY <1>23 DEF Handlers, control
<1>24. ASSUME NEW i \in Surfaces, Worker(i)
       PROVE  \/ UNCHANGED <<record, gate>>
              \/ \E a \in Actions : arm_without_capability(i, a)
              \/ \E a \in Actions : reject_managed_action_before_executor(i, a)
  BY <1>24 DEF Worker, take_surface_actions, complete_surface_action,
        ensure_managed_surface_action_authority, ensure_managed_surface_observation_binding,
        take_managed_surface_actions, arm_begin, arm_untracked, arm_tracked, arm_exchange,
        take_return, complete_managed_surface_action,
        record_managed_consequential_executor_completion, control
<1>25. ASSUME NEW a \in Actions, Reconcile(a)
       PROVE  \/ UNCHANGED <<record, gate>>
              \/ reconcile_begin(a)
              \/ abandon_postcondition_observation(a)
              \/ reconcile_consequential_postconditions(a)
              \/ record_committed(a)
  BY <1>25 DEF Reconcile, reconcile_capture, reconcile_admit, control
<1>26. ASSUME Release
       PROVE  \/ UNCHANGED <<record, gate>>
              \/ release_collect
              \/ release_report
              \/ release_records
  BY <1>26 DEF Release, release_session, control
<1>27. ASSUME Surroundings
       PROVE  \/ UNCHANGED <<record, gate>>
              \/ request_dropped
              \/ \E a \in Actions : prune_expired_reconciliations(a)
  BY <1>27 DEF Surroundings, session_removed, take_actions,
        clear_managed_surface_action_authority, release_provider_observation,
        reap_expired_surface_owner, activate_surface_resource, release_surface_resource,
        surface_request_dropped, prune_expired, executor_acts, complete_action,
        request_action_cancellation, Forget, push_bounded, control
<1> QED
  BY <1>1, <1>2, <1>3, <1>4, <1>5, <1>6, <1>7, <1>8, <1>9, <1>10, <1>11, <1>12, <1>13, <1>14,
     <1>15, <1>16, <1>17, <1>18, <1>19, <1>20, <1>21, <1>22, <1>23, <1>24, <1>25, <1>26, <1>27
     DEF Next, vars, control, RecordsFit, Records

-----------------------------------------------------------------------------
\* What the handlers keep of the state at every step.
TypeInv == ShapeInv /\ QueueFits /\ PendingFits /\ RecordsFit

\* The initial state is typed.
LEMMA InitTypeInv == Init => TypeInv
<1> SUFFICES ASSUME Init PROVE TypeInv
  OBVIOUS
<1>1. QueueFits
  BY FS_EmptySet, ConstantsAssumption DEF Init, QueueFits
<1>2. PendingFits
  BY FS_EmptySet, ConstantsAssumption DEF Init, PendingFits, Free
<1>3. Records = {} /\ gate.step = "free"
  BY DEF Init, Records, Free
<1>4. RecordsFit
  BY <1>3, FS_EmptySet, ConstantsAssumption DEF RecordsFit
<1> QED
  BY <1>1, <1>2, <1>4, InitShape DEF TypeInv

\* Every step keeps the types and the bounds.
LEMMA NextTypeInv == TypeInv /\ [Next]_vars => TypeInv'
<1> SUFFICES ASSUME TypeInv, [Next]_vars PROVE TypeInv'
  OBVIOUS
<1>1. ShapeInv /\ QueueFits /\ PendingFits /\ RecordsFit
  BY DEF TypeInv
<1>2. ControlShape /\ GateShape
  BY <1>1 DEF ShapeInv, Shape, GateShape
<1> QED
  BY <1>1, <1>2, NextShape, NextQueueFits, NextPendingFits, NextRecordsFit DEF TypeInv

\* The types and the bounds hold in every reachable state.
LEMMA TypeInvariant == Spec => []TypeInv
<1> QED
  BY InitTypeInv, NextTypeInv, PTL DEF Spec

\* The state has its shape and stays within the capacities of
\* managed_consequential.rs: never more plans than
\* MAX_PENDING_MANAGED_CONSEQUENTIAL_PLANS, never more reconciliation records
\* than MAX_MANAGED_CONSEQUENTIAL_RECONCILIATIONS, although the check and the
\* insertion are separated by awaits, and never more than the live bridge's
\* action_capacity in its queue.
THEOREM TypeCorrect == Spec => []TypeOK
<1>1. TypeInv => TypeOK
  BY DEF TypeInv, ShapeInv, QueueFits, PendingFits, RecordsFit, TypeOK, WithinCapacity
<1> QED
  BY <1>1, TypeInvariant, PTL

=============================================================================
