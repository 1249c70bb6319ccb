------------------------ MODULE ManagedConsequential ------------------------
(***************************************************************************)
(* Consequential actions on a managed web surface:                         *)
(*   crates/control/src/managed_consequential.rs (plan, confirm, arm,      *)
(*     completion, reconciliation, session release),                       *)
(*   crates/control/src/resource_runtime.rs (the take and complete         *)
(*     requests of a surface, its activation and its release),             *)
(*   and the live-bridge operations they call.                             *)
(*                                                                         *)
(* One session with a few surfaces.  Plan, confirm and release exclude     *)
(* each other by plan_gate; the requests of the surfaces, the              *)
(* reconciliation tasks and changes of the surfaces run beside them.  A    *)
(* step is what the code does between two awaits at which another task can *)
(* change what it has read or will write.                                  *)
(*                                                                         *)
(* The journal appears by the two facts the handlers depend on, the stage  *)
(* of an action in memory and its live grant; ConsequentialJournal models  *)
(* what lies behind them.                                                  *)
(***************************************************************************)
EXTENDS Integers, FiniteSets, FiniteSetsExt

CONSTANTS
  Actions,            \* actions that may be planned, each once
  Events,             \* what may go wrong or change around the handlers
  MaxSurfaces,        \* bound on surfaces, each opened at most once
  MaxPending,         \* MAX_PENDING_MANAGED_CONSEQUENTIAL_PLANS
  MaxReconciliations, \* MAX_MANAGED_CONSEQUENTIAL_RECONCILIATIONS
  MaxQueue,           \* action_capacity of the live bridge
  NoAction            \* not an action

AllEvents ==
  {"surface_changes", "second_surface", "record_expires", "plan_expires",
   "session_removed", "request_dropped", "journal_error", "payload_error",
   "cancelled", "evicted", "public_drain"}

ASSUME ConstantsAssumption ==
  /\ Events \subseteq AllEvents
  /\ MaxSurfaces \in Nat /\ MaxPending \in Nat
  /\ MaxReconciliations \in Nat /\ MaxQueue \in Nat
  /\ NoAction \notin Actions

\* Numbered by preference: a preview window after every workspace child.
Surfaces == 1..MaxSurfaces

VARIABLES
  session,      \* "present", "removed", "released" (control), "gone" (bridge)
  live,         \* surfaces that are live
  opened,       \* surfaces that have been opened
  retiring,     \* what a release of the primary surface has left to do
  executor,     \* LiveBridge.managed_surface_action_authority, 0 if none
  lineage,      \* surface that the observation continuity is bound to
  snapshot,     \* action whose cut is the continuity's reconciliation snapshot
  envelopes,    \* LiveBridge.action_envelopes
  queue,        \* public actions queued
  inflight,     \* public actions drained and still claimable
  planned,      \* surface authority that the plan of an action rests on
  pending,      \* plans waiting for their confirmation
  prepared,     \* prepared capabilities kept for the executor
  executing,    \* execution permits kept for the executor's report
  record,       \* status of the reconciliation record, "none" without one
  stage,        \* journal: recovery state
  grant,        \* journal: kind of the live grant
  gate,         \* the holder of plan_gate and what it has in hand
  request,      \* the take or complete request of each surface
  task,         \* progress of the reconciliation task
  delivered,    \* surface that an action was handed to
  acted,        \* actions whose executor changed the page
  reported,     \* how far the executor is with its report
  captured      \* surface that the evidence snapshot came from

places  == <<session, live, opened, retiring>>
bridge  == <<executor, lineage, snapshot, envelopes, queue, inflight>>
control == <<planned, pending, prepared, executing, record>>
journal == <<stage, grant>>
world   == <<delivered, acted, reported, captured>>

vars == <<places, bridge, control, journal, gate, request, task, world>>

-----------------------------------------------------------------------------
Stages ==
  {"none", "admitted", "authorized", "prepared", "not_dispatched",
   "dispatched", "unverified", "verified", "committed"}

Uncertain == {"prepared", "dispatched", "unverified"}

PendingStatuses == {"pending_executor_completion", "pending_fresh_reconciliation"}

Free == [step |-> "free", action |-> NoAction, authority |-> 0,
         capabilities |-> {}, permits |-> {}]

Holding(s, a, i) == [Free EXCEPT !.step = s, !.action = a, !.authority = i]

Idle == [step |-> "idle", result |-> NoAction, batch |-> {}, tracked |-> {},
         capability |-> NoAction, ready |-> {}]

PublicClient == -1

Error(e) == e \in Events

primary_live_surface == IF live = {} THEN 0 ELSE Max(live)

Records == {a \in Actions : record[a] # "none"}

SetRecord(a, status) ==
  record' = IF record[a] = "none" THEN record
                                  ELSE [record EXCEPT ![a] = status]

\* begin_dispatch, then a report of no dispatch, for every action of S;
\* abandon_dispatch_execution for every permit of P.
RuleOut(S, P) ==
  /\ grant' = [a \in Actions |-> IF a \in S \cup P THEN "none" ELSE grant[a]]
  /\ \E journalled \in SUBSET S :
       /\ journalled = S \/ Error("journal_error")
       /\ stage' = [a \in Actions |-> IF a \in journalled THEN "not_dispatched"
                                                          ELSE stage[a]]

-----------------------------------------------------------------------------
(***************************************************************************)
(* POST .../plan, holding plan_gate.                                       *)
(***************************************************************************)
\* Mutant: one plan too many.
plan_over_capacity(a) ==
  /\ gate = Free /\ session = "present"
  /\ planned[a] = 0
  /\ Cardinality(pending) <= MaxPending
  /\ primary_live_surface # 0
  /\ gate' = Holding("plan", a, primary_live_surface)
  /\ UNCHANGED <<places, bridge, control, journal, request, task, world>>

plan(a) ==
  /\ gate = Free /\ session = "present"
  /\ planned[a] = 0
  /\ Cardinality(pending) < MaxPending
  /\ primary_live_surface # 0
  /\ gate' = Holding("plan", a, primary_live_surface)
  /\ UNCHANGED <<places, bridge, control, journal, request, task, world>>

\* acquire_fresh_semantic_snapshot: the request for a snapshot is queued like
\* an action, and answered by the worker that drains it.
Snapshotter(i) ==
  \/ /\ i \in live /\ i = primary_live_surface
     /\ i = executor /\ i = lineage /\ request[i] = Idle
  \/ i = PublicClient /\ Error("public_drain")

plan_snapshot ==
  /\ gate.step = "plan"
  /\ \E i \in live \cup {PublicClient} : Snapshotter(i)
  /\ gate' = [gate EXCEPT !.step = "snapshot"]
  /\ UNCHANGED <<places, bridge, control, journal, request, task, world>>

\* Surface and lineage are those of the start.
plan_bind ==
  LET a == gate.action
  IN  /\ gate.step = "snapshot"
      /\ primary_live_surface = gate.authority /\ lineage = gate.authority
      /\ envelopes' = envelopes \cup {a}
      /\ planned' = [planned EXCEPT ![a] = gate.authority]
      /\ gate' = Holding("bind", a, gate.authority)
      /\ UNCHANGED <<executor, lineage, snapshot, queue, inflight,
                     pending, prepared, executing, record,
                     journal, places, request, task, world>>

plan_refused ==
  /\ gate.step \in {"plan", "snapshot"}
  /\ gate' = Free
  /\ UNCHANGED <<places, bridge, control, journal, request, task, world>>

\* The journal admits intent, operation and payload, one after the other.
plan_admit ==
  LET a == gate.action
  IN  /\ gate.step = "bind"
      /\ gate' = Free
      /\ \/ /\ stage' = [stage EXCEPT ![a] = "admitted"]
            /\ pending' = pending \cup {a}
            /\ UNCHANGED envelopes
         \/ /\ Error("journal_error")
            /\ \E s \in {"none", "admitted"} : stage' = [stage EXCEPT ![a] = s]
            /\ envelopes' = envelopes \ {a}
            /\ UNCHANGED pending
      /\ UNCHANGED <<executor, lineage, snapshot, queue, inflight,
                     planned, prepared, executing, record,
                     grant, places, request, task, world>>

-----------------------------------------------------------------------------
(***************************************************************************)
(* POST .../confirm, holding plan_gate.                                    *)
(***************************************************************************)
Current(a) == primary_live_surface = planned[a] /\ lineage = planned[a]

\* Mutant: the plan stays until the action is queued.
confirm_keeping_plan(a) ==
  /\ gate = Free
  /\ a \in pending
  /\ Current(a)
  /\ gate' = Holding("confirm", a, planned[a])
  /\ UNCHANGED <<places, bridge, control, journal, request, task, world>>

\* Consumes the plan, whatever comes of it.  The session was looked up before
\* the gate was awaited, and is not looked up again.
confirm(a) ==
  /\ gate = Free
  /\ a \in pending
  /\ pending' = pending \ {a}
  /\ IF Current(a) /\ Cardinality(Records) < MaxReconciliations
       THEN /\ gate' = Holding("confirm", a, planned[a])
            /\ UNCHANGED envelopes
       ELSE /\ envelopes' = envelopes \ {a}
            /\ UNCHANGED gate
  /\ UNCHANGED <<executor, lineage, snapshot, queue, inflight,
                 planned, prepared, executing, record,
                 journal, places, request, task, world>>

confirm_refused ==
  /\ \/ gate.step = "confirm" /\ (Error("journal_error") \/ Error("payload_error"))
     \/ gate.step = "authorize" /\ Error("journal_error")
  /\ envelopes' = envelopes \ {gate.action}
  /\ gate' = Free
  /\ UNCHANGED <<executor, lineage, snapshot, queue, inflight,
                 control, journal, places, request, task, world>>

confirm_authorize ==
  LET a == gate.action
  IN  /\ gate.step = "confirm"
      /\ stage' = [stage EXCEPT ![a] = "authorized"]
      /\ gate' = Holding("authorize", a, gate.authority)
      /\ UNCHANGED <<bridge, control, grant, places, request, task, world>>

confirm_prepare ==
  LET a == gate.action
  IN  /\ gate.step = "authorize"
      /\ stage' = [stage EXCEPT ![a] = "prepared"]
      /\ grant' = [grant EXCEPT ![a] = "prepared"]
      /\ gate' = Holding("prepare", a, gate.authority)
      /\ UNCHANGED <<bridge, control, places, request, task, world>>

\* The capability and the record are stored before the action is queued.
confirm_hold ==
  LET a == gate.action
  IN  /\ gate.step = "prepare"
      /\ prepared' = prepared \cup {a}
      /\ record' = [record EXCEPT ![a] = "pending_executor_completion"]
      /\ gate' = Holding("hold", a, gate.authority)
      /\ UNCHANGED <<bridge, planned, pending, executing,
                     journal, places, request, task, world>>

\* enqueue_bound_canonical_action_for_dispatch, and the rollback if it fails.
confirm_enqueue ==
  LET a == gate.action
  IN  /\ gate.step = "hold"
      /\ gate' = Free
      /\ envelopes' = envelopes \ {a}
      /\ IF a \in envelopes /\ lineage = planned[a] /\ Cardinality(queue) < MaxQueue
           THEN /\ queue' = queue \cup {a}
                /\ UNCHANGED <<prepared, record, journal>>
           ELSE /\ record' = [record EXCEPT ![a] = "none"]
                /\ prepared' = prepared \ {a}
                /\ RuleOut(prepared \cap {a}, {})
                /\ UNCHANGED queue
      /\ UNCHANGED <<executor, lineage, snapshot, inflight,
                     planned, pending, executing,
                     places, request, task, world>>

\* The client goes away and the handler with it; the gate is freed.
request_dropped ==
  /\ Error("request_dropped")
  /\ gate.step \in {"plan", "snapshot", "bind", "confirm", "authorize", "prepare", "hold"}
  /\ gate' = Free
  /\ UNCHANGED <<places, bridge, control, journal, request, task, world>>

\* CONFIRMATION_TTL and RECONCILIATION_RECORD_TTL have passed; the next
\* handler that prunes, or looks the entry up, removes it.
prune_expired(a) ==
  /\ Error("plan_expires") /\ gate = Free /\ a \in pending
  /\ pending' = pending \ {a}
  /\ envelopes' = envelopes \ {a}
  /\ UNCHANGED <<executor, lineage, snapshot, queue, inflight,
                 planned, prepared, executing, record,
                 journal, places, gate, request, task, world>>

prune_expired_reconciliations(a) ==
  /\ Error("record_expires") /\ record[a] # "none"
  /\ record' = [record EXCEPT ![a] = "none"]
  /\ UNCHANGED <<bridge, planned, pending, prepared, executing,
                 journal, places, gate, request, task, world>>

-----------------------------------------------------------------------------
(***************************************************************************)
(* The requests of a surface.  Its worker has one under way at a time, and *)
(* takes again only when everything it was handed is reported.             *)
(***************************************************************************)
\* Another authority than the current one retires everything public.
Rebind(i) ==
  /\ executor' = i
  /\ IF executor = i
       THEN UNCHANGED <<envelopes, queue, inflight>>
       ELSE envelopes' = {} /\ queue' = {} /\ inflight' = {}

Unreported(i) ==
  {a \in Actions : delivered[a] = i /\ reported[a] # "settled"}

\* Session and primary surface are checked here, and not again.
validate_primary_surface_action_request(i) ==
  request[i] = Idle /\ session = "present" /\ primary_live_surface = i

take_surface_actions(i) ==
  /\ validate_primary_surface_action_request(i)
  /\ Unreported(i) = {}
  /\ request' = [request EXCEPT ![i] = [Idle EXCEPT !.step = "checked"]]
  /\ UNCHANGED <<places, bridge, control, journal, gate, task, world>>

complete_surface_action(i, a) ==
  /\ validate_primary_surface_action_request(i)
  /\ a \in Unreported(i)
  /\ request' = [request EXCEPT ![i] = [Idle EXCEPT !.step = "checked", !.result = a]]
  /\ reported' = [reported EXCEPT ![a] = "sent"]
  /\ UNCHANGED <<places, bridge, control, journal, gate, task,
                 delivered, acted, captured>>

ensure_managed_surface_action_authority(i) ==
  /\ request[i].step = "checked"
  /\ Rebind(i)
  /\ request' = [request EXCEPT ![i].step = "ensured"]
  /\ UNCHANGED <<places, lineage, snapshot, control, journal, gate, task, world>>

ensure_managed_surface_observation_binding(i) ==
  /\ request[i].step = "ensured"
  /\ lineage' = i
  /\ snapshot' = IF lineage = i THEN snapshot ELSE NoAction
  /\ request' = [request EXCEPT ![i].step = "observed"]
  /\ UNCHANGED <<places, executor, envelopes, queue, inflight,
                 control, journal, gate, task, world>>

Drained(i, batch) ==
  request' = [request EXCEPT ![i].step = "drained", ![i].batch = batch]

\* Rotation of the authority and drain of the queue in one step.
take_managed_surface_actions(i) ==
  /\ request[i].step = "observed" /\ request[i].result = NoAction
  /\ executor' = i
  /\ queue' = {}
  /\ IF executor = i
       THEN /\ inflight' = inflight \cup queue
            /\ Drained(i, queue)
            /\ UNCHANGED envelopes
       ELSE /\ inflight' = {}
            /\ Drained(i, {})
            /\ envelopes' = {}
  /\ UNCHANGED <<places, lineage, snapshot, control, journal, gate, task, world>>

-----------------------------------------------------------------------------
(***************************************************************************)
(* arm_managed_consequential_actions_for_executor, on the drained batch.   *)
(***************************************************************************)
\* Only an action with a reconciliation record is taken for a managed one.
arm_begin(i) ==
  /\ request[i].step = "drained"
  /\ request' = [request EXCEPT ![i].step = "arming",
                                ![i].tracked = request[i].batch \cap Records]
  /\ UNCHANGED <<places, bridge, control, journal, gate, task, world>>

Arming(i, a) ==
  /\ request[i].step = "arming" /\ request[i].capability = NoAction
  /\ a \in request[i].batch

arm_untracked(i, a) ==
  /\ Arming(i, a) /\ a \notin request[i].tracked
  /\ request' = [request EXCEPT ![i].batch = @ \ {a}, ![i].ready = @ \cup {a}]
  /\ UNCHANGED <<places, bridge, control, journal, gate, task, world>>

\* Mutant: the action is handed out and the capability stays where it is.
arm_without_permit(i, a) ==
  /\ Arming(i, a) /\ a \in request[i].tracked /\ a \in prepared
  /\ request' = [request EXCEPT ![i].batch = @ \ {a}, ![i].ready = @ \cup {a}]
  /\ UNCHANGED <<places, bridge, control, journal, gate, task, world>>

arm_tracked(i, a) ==
  /\ Arming(i, a) /\ a \in request[i].tracked /\ a \in prepared
  /\ prepared' = prepared \ {a}
  /\ request' = [request EXCEPT ![i].capability = a]
  /\ UNCHANGED <<places, bridge, planned, pending, executing, record,
                 journal, gate, task, world>>

\* Mutant: the reconciliation starts when the action is handed out.
arm_and_reconcile(i) ==
  LET a == request[i].capability
  IN  /\ a # NoAction
      /\ executing' = executing \cup {a}
      /\ request' = [request EXCEPT ![i].capability = NoAction,
                                    ![i].batch = @ \ {a}, ![i].ready = @ \cup {a}]
      /\ task' = [task EXCEPT ![a] = "scheduled"]
      /\ grant' = [grant EXCEPT ![a] = "none"]
      /\ UNCHANGED <<places, bridge, planned, pending, prepared, record, stage,
                     gate, world>>

\* begin_dispatch; the permit waits in executing for the report.
arm_exchange(i) ==
  LET a == request[i].capability
  IN  /\ a # NoAction
      /\ grant' = [grant EXCEPT ![a] = "execution"]
      /\ executing' = executing \cup {a}
      /\ request' = [request EXCEPT ![i].capability = NoAction,
                                    ![i].batch = @ \ {a}, ![i].ready = @ \cup {a}]
      /\ UNCHANGED <<places, bridge, planned, pending, prepared, record, stage,
                     gate, task, world>>

\* The action is settled as failed and not handed out.
Withheld(i, a, status) ==
  /\ SetRecord(a, status)
  /\ inflight' = IF executor = i THEN inflight \ {a} ELSE inflight
  /\ request' = [request EXCEPT ![i].batch = @ \ {a}]
  /\ UNCHANGED <<places, executor, lineage, snapshot, envelopes, queue,
                 planned, pending, executing, gate, task, world>>

arm_without_capability(i, a) ==
  /\ Arming(i, a) /\ a \in request[i].tracked /\ a \notin prepared
  /\ Withheld(i, a, "durable_dispatch_authority_failed")
  /\ UNCHANGED <<prepared, journal>>

\* Mutant: the rejected action is handed out all the same.
reject_and_hand_out(i, a) ==
  /\ Error("payload_error")
  /\ Arming(i, a) /\ a \in request[i].tracked
  /\ prepared' = prepared \ {a}
  /\ RuleOut(prepared \cap {a}, {})
  /\ SetRecord(a, "durable_payload_authority_failed")
  /\ request' = [request EXCEPT ![i].batch = @ \ {a}, ![i].ready = @ \cup {a}]
  /\ UNCHANGED <<places, bridge, planned, pending, executing, gate, task, world>>

reject_managed_action_before_executor(i, a) ==
  /\ Error("payload_error")
  /\ Arming(i, a) /\ a \in request[i].tracked
  /\ prepared' = prepared \ {a}
  /\ RuleOut(prepared \cap {a}, {})
  /\ Withheld(i, a, "durable_payload_authority_failed")

take_return(i) ==
  /\ request[i].step = "arming"
  /\ request[i].batch = {} /\ request[i].capability = NoAction
  /\ delivered' = [a \in Actions |-> IF a \in request[i].ready THEN i
                                                                ELSE delivered[a]]
  /\ request' = [request EXCEPT ![i] = Idle]
  /\ UNCHANGED <<places, bridge, control, journal, gate, task,
                 acted, reported, captured>>

\* The connection breaks: the rest of the handler does not run.
surface_request_dropped(i) ==
  /\ Error("request_dropped")
  /\ request[i].step # "idle"
  /\ request' = [request EXCEPT ![i] = Idle]
  /\ UNCHANGED <<places, bridge, control, journal, gate, task, world>>

-----------------------------------------------------------------------------
(***************************************************************************)
(* The executor acts and reports.                                          *)
(***************************************************************************)
\* External: the page changes, at most once, before the executor reports.
executor_acts(a) ==
  /\ delivered[a] # 0 /\ a \notin acted /\ reported[a] = "no"
  /\ acted' = acted \cup {a}
  /\ UNCHANGED <<places, bridge, control, journal, gate, request, task,
                 delivered, reported, captured>>

\* Claims the action, or ends the report for good.
complete_managed_surface_action(i) ==
  LET a == request[i].result
  IN  /\ request[i].step = "observed" /\ a # NoAction
      /\ IF executor = i /\ a \in inflight
           THEN /\ inflight' = inflight \ {a}
                /\ request' = [request EXCEPT ![i].step = "claimed"]
                /\ UNCHANGED reported
           ELSE /\ request' = [request EXCEPT ![i] = Idle]
                /\ reported' = [reported EXCEPT ![a] = "settled"]
                /\ UNCHANGED inflight
      /\ UNCHANGED <<places, executor, lineage, snapshot, envelopes, queue,
                     control, journal, gate, task, delivered, acted, captured>>

\* Journals the report of a tracked action, then schedules its
\* reconciliation whether or not that worked.
record_managed_consequential_executor_completion(i) ==
  LET a == request[i].result
  IN  /\ request[i].step = "claimed"
      /\ request' = [request EXCEPT ![i] = Idle]
      /\ task' = [task EXCEPT ![a] = "scheduled"]
      /\ \/ /\ record[a] = "none"
            /\ reported' = [reported EXCEPT ![a] = "settled"]
            /\ UNCHANGED <<executing, journal>>
         \/ /\ record[a] # "none" /\ a \notin executing
            /\ UNCHANGED <<executing, journal, reported>>
         \/ /\ record[a] # "none" /\ a \in executing
            /\ executing' = executing \ {a}
            /\ grant' = [grant EXCEPT ![a] = "none"]
            /\ \/ /\ stage' = [stage EXCEPT ![a] = "dispatched"]
                  /\ reported' = [reported EXCEPT ![a] = "settled"]
               \/ /\ Error("journal_error")
                  /\ UNCHANGED <<stage, reported>>
      /\ UNCHANGED <<places, bridge, planned, pending, prepared, record, gate,
                     delivered, acted, captured>>

\* GET and POST /v1/sessions/{id}/actions: the session-wide drain and its
\* completion, which know nothing of consequential actions.
take_actions ==
  /\ Error("public_drain")
  /\ session = "present" /\ queue # {}
  /\ queue' = {}
  /\ inflight' = inflight \cup queue
  /\ delivered' = [a \in Actions |-> IF a \in queue THEN PublicClient
                                                    ELSE delivered[a]]
  /\ UNCHANGED <<places, executor, lineage, snapshot, envelopes, control, journal,
                 gate, request, task, acted, reported, captured>>

complete_action(a) ==
  /\ session = "present"
  /\ delivered[a] = PublicClient /\ a \in inflight
  /\ inflight' = inflight \ {a}
  /\ reported' = [reported EXCEPT ![a] = "settled"]
  /\ UNCHANGED <<places, executor, lineage, snapshot, envelopes, queue, control,
                 journal, gate, request, task, delivered, acted, captured>>

\* A cancelled action is no longer delivered, and no longer claimable; an
\* action at the old end of a full queue gives way to an observe request.
Forget(a) ==
  /\ a \in queue \cup inflight
  /\ queue' = queue \ {a}
  /\ inflight' = inflight \ {a}
  /\ UNCHANGED <<places, executor, lineage, snapshot, envelopes, control, journal,
                 gate, request, task, world>>

request_action_cancellation(a) == Error("cancelled") /\ Forget(a)

push_bounded(a) == Error("evicted") /\ Forget(a)

-----------------------------------------------------------------------------
(***************************************************************************)
(* The spawned reconciliation of a reported action.                        *)
(***************************************************************************)
\* Mutant: an error path that forgets the status.
unsettled(a) ==
  /\ task' = [task EXCEPT ![a] = "idle"]
  /\ UNCHANGED record

set_reconciliation_required(a) ==
  /\ task' = [task EXCEPT ![a] = "idle"]
  /\ SetRecord(a, "reconciliation_required")

Advance(a, step) == task' = [task EXCEPT ![a] = step]

\* begin_postcondition_observation needs an uncertain action without a grant.
reconcile_begin(a) ==
  /\ task[a] = "scheduled"
  /\ IF record[a] # "none" /\ Current(a) /\ grant[a] = "none" /\ stage[a] \in Uncertain
       THEN /\ grant' = [grant EXCEPT ![a] = "observation"]
            /\ SetRecord(a, "pending_fresh_reconciliation")
            /\ Advance(a, "observing")
       ELSE /\ set_reconciliation_required(a)
            /\ UNCHANGED grant
  /\ UNCHANGED <<places, bridge, planned, pending, prepared, executing, stage,
                 gate, request, world>>

\* The fresh snapshot comes from whoever answers the request for it.
reconcile_capture(a) ==
  /\ task[a] = "observing"
  /\ \E i \in live \cup {PublicClient} :
       /\ Snapshotter(i)
       /\ captured' = [captured EXCEPT ![a] = i]
  /\ Advance(a, "captured")
  /\ UNCHANGED <<places, bridge, control, journal, gate, request,
                 delivered, acted, reported>>

abandon_postcondition_observation(a) ==
  /\ \/ task[a] = "observing"
     \/ task[a] = "captured" /\ ~Current(a)
  /\ grant' = [grant EXCEPT ![a] = "none"]
  /\ set_reconciliation_required(a)
  /\ UNCHANGED <<places, bridge, planned, pending, prepared, executing, stage,
                 gate, request, world>>

\* Mutant: the primary surface is not looked at again after the snapshot.
admit_without_recheck(a) ==
  /\ task[a] = "captured" /\ lineage = planned[a]
  /\ snapshot' = a
  /\ grant' = [grant EXCEPT ![a] = "none"]
  /\ Advance(a, "observed")
  /\ UNCHANGED <<places, executor, lineage, envelopes, queue, inflight, control,
                 stage, gate, request, world>>

\* record_reconciliation and complete_postcondition_observation.
reconcile_admit(a) ==
  /\ task[a] = "captured" /\ Current(a)
  /\ snapshot' = a
  /\ grant' = [grant EXCEPT ![a] = "none"]
  /\ Advance(a, "observed")
  /\ UNCHANGED <<places, executor, lineage, envelopes, queue, inflight, control,
                 stage, gate, request, world>>

\* The verdict on the evidence, if the continuity still holds its snapshot.
reconcile_consequential_postconditions(a) ==
  /\ task[a] = "observed"
  /\ \/ /\ snapshot = a /\ lineage = planned[a] /\ stage[a] \in Uncertain
        /\ \/ /\ stage' = [stage EXCEPT ![a] = "verified"]
              /\ Advance(a, "verified")
              /\ UNCHANGED record
           \/ /\ stage' = [stage EXCEPT ![a] = "unverified"]
              /\ Advance(a, "idle")
              /\ \E s \in {"verified_unexpected", "reconciliation_required"} :
                   SetRecord(a, s)
     \/ /\ \/ snapshot # a \/ lineage # planned[a] \/ stage[a] \notin Uncertain
           \/ Error("journal_error")
        /\ set_reconciliation_required(a)
        /\ UNCHANGED stage
  /\ UNCHANGED <<places, bridge, planned, pending, prepared, executing, grant,
                 gate, request, world>>

record_committed(a) ==
  /\ task[a] = "verified"
  /\ \/ /\ stage' = [stage EXCEPT ![a] = "committed"]
        /\ SetRecord(a, "verified_expected")
        /\ Advance(a, "idle")
     \/ /\ Error("journal_error")
        /\ set_reconciliation_required(a)
        /\ UNCHANGED stage
  /\ UNCHANGED <<places, bridge, planned, pending, prepared, executing, grant,
                 gate, request, world>>

-----------------------------------------------------------------------------
(***************************************************************************)
(* The session goes away; surfaces come and go.                            *)
(***************************************************************************)
session_removed ==
  /\ Error("session_removed") /\ session = "present"
  /\ session' = "removed"
  /\ UNCHANGED <<live, opened, retiring, bridge, control, journal,
                 gate, request, task, world>>

release_collect ==
  /\ session = "removed" /\ gate = Free
  /\ gate' = [Free EXCEPT !.step = "release",
                          !.capabilities = prepared, !.permits = executing]
  /\ pending' = {} /\ prepared' = {} /\ executing' = {}
  /\ UNCHANGED <<places, bridge, planned, record, journal, request, task, world>>

\* Capabilities are reported as not dispatched, permits are abandoned.
release_report ==
  /\ gate.step = "release"
  /\ gate' = [gate EXCEPT !.step = "records"]
  /\ RuleOut(gate.capabilities, gate.permits)
  /\ UNCHANGED <<places, bridge, control, request, task, world>>

release_records ==
  /\ gate.step = "records"
  /\ record' = [a \in Actions |-> "none"]
  /\ gate' = Free
  /\ session' = "released"
  /\ UNCHANGED <<live, opened, retiring, bridge, planned, pending, prepared,
                 executing, journal, request, task, world>>

\* LiveBridge::release_session.
release_session ==
  /\ session = "released"
  /\ session' = "gone"
  /\ executor' = 0 /\ lineage' = 0 /\ snapshot' = NoAction
  /\ envelopes' = {} /\ queue' = {} /\ inflight' = {}
  /\ UNCHANGED <<live, opened, retiring, control, journal, gate, request, task, world>>

activate_surface_resource(i) ==
  /\ i \notin opened
  /\ live = {} \/ Error("second_surface")
  /\ opened' = opened \cup {i}
  /\ live' = live \cup {i}
  /\ UNCHANGED <<session, retiring, bridge, control, journal,
                 gate, request, task, world>>

release_surface_resource(i) ==
  /\ Error("surface_changes") /\ i \in live /\ retiring = "none"
  /\ live' = live \ {i}
  /\ retiring' = IF i = primary_live_surface THEN "authority" ELSE "none"
  /\ UNCHANGED <<session, opened, bridge, control, journal,
                 gate, request, task, world>>

\* retire_managed_surface_execution_binding, in its two steps.
clear_managed_surface_action_authority ==
  /\ retiring = "authority"
  /\ retiring' = "observation"
  /\ executor' = 0
  /\ IF executor = 0 THEN UNCHANGED <<envelopes, queue, inflight>>
                     ELSE envelopes' = {} /\ queue' = {} /\ inflight' = {}
  /\ UNCHANGED <<session, live, opened, lineage, snapshot, control, journal,
                 gate, request, task, world>>

release_provider_observation ==
  /\ retiring = "observation"
  /\ retiring' = "none"
  /\ lineage' = 0 /\ snapshot' = NoAction
  /\ UNCHANGED <<session, live, opened, executor, envelopes, queue, inflight,
                 control, journal, gate, request, task, world>>

\* The owner of the surfaces stopped its heartbeat.  It loses them and nothing
\* else happens; a request under way pins the owner.
reap_expired_surface_owner ==
  /\ Error("surface_changes") /\ live # {}
  /\ \A i \in live : request[i] = Idle
  /\ live' = {}
  /\ UNCHANGED <<session, opened, retiring, bridge, control, journal,
                 gate, request, task, world>>

-----------------------------------------------------------------------------
Init ==
  /\ session = "present" /\ live = {} /\ opened = {} /\ retiring = "none"
  /\ executor = 0 /\ lineage = 0 /\ snapshot = NoAction
  /\ envelopes = {} /\ queue = {} /\ inflight = {}
  /\ planned = [a \in Actions |-> 0]
  /\ pending = {} /\ prepared = {} /\ executing = {}
  /\ record = [a \in Actions |-> "none"]
  /\ stage = [a \in Actions |-> "none"]
  /\ grant = [a \in Actions |-> "none"]
  /\ gate = Free
  /\ request = [i \in Surfaces |-> Idle]
  /\ task = [a \in Actions |-> "idle"]
  /\ delivered = [a \in Actions |-> 0]
  /\ acted = {}
  /\ reported = [a \in Actions |-> "no"]
  /\ captured = [a \in Actions |-> 0]

Handlers ==
  \/ \E a \in Actions : plan(a) \/ confirm(a)
  \/ plan_snapshot \/ plan_bind \/ plan_refused \/ plan_admit
  \/ confirm_refused \/ confirm_authorize \/ confirm_prepare
  \/ confirm_hold \/ confirm_enqueue

Worker(i) ==
  \/ take_surface_actions(i)
  \/ ensure_managed_surface_action_authority(i)
  \/ ensure_managed_surface_observation_binding(i)
  \/ take_managed_surface_actions(i)
  \/ arm_begin(i) \/ arm_exchange(i) \/ take_return(i)
  \/ complete_managed_surface_action(i)
  \/ record_managed_consequential_executor_completion(i)
  \/ \E a \in Actions :
       \/ arm_untracked(i, a) \/ arm_tracked(i, a) \/ arm_without_capability(i, a)
       \/ reject_managed_action_before_executor(i, a)
       \/ complete_surface_action(i, a)

Reconcile(a) ==
  \/ reconcile_begin(a) \/ reconcile_capture(a)
  \/ abandon_postcondition_observation(a) \/ reconcile_admit(a)
  \/ reconcile_consequential_postconditions(a) \/ record_committed(a)

Release ==
  \/ release_collect \/ release_report \/ release_records \/ release_session

Surroundings ==
  \/ session_removed \/ request_dropped \/ take_actions
  \/ clear_managed_surface_action_authority \/ release_provider_observation
  \/ reap_expired_surface_owner
  \/ \E i \in Surfaces :
       \/ activate_surface_resource(i) \/ release_surface_resource(i)
       \/ surface_request_dropped(i)
  \/ \E a \in Actions :
       \/ prune_expired(a) \/ prune_expired_reconciliations(a)
       \/ executor_acts(a) \/ complete_action(a)
       \/ request_action_cancellation(a) \/ push_bounded(a)

Next ==
  \/ Handlers \/ Release \/ Surroundings
  \/ \E i \in Surfaces : Worker(i)
  \/ \E a \in Actions : Reconcile(a)

Spec == Init /\ [][Next]_vars

\* Requests that have started run to their end, the worker of a surface polls
\* every 140 ms, and a spawned task is driven by the runtime.
FairSpec ==
  /\ Spec
  /\ WF_vars(Handlers)
  /\ \A i \in Surfaces : WF_vars(Worker(i))
  /\ \A a \in Actions : WF_vars(Reconcile(a))

-----------------------------------------------------------------------------
Authorities == Surfaces \cup {0}

RequestType ==
  [step: {"idle", "checked", "ensured", "observed", "drained", "arming", "claimed"},
   result: Actions \cup {NoAction}, batch: SUBSET Actions, tracked: SUBSET Actions,
   capability: Actions \cup {NoAction}, ready: SUBSET Actions]

GateType ==
  [step: {"free", "plan", "snapshot", "bind", "confirm", "authorize", "prepare", "hold",
          "release", "records"},
   action: Actions \cup {NoAction}, authority: Authorities,
   capabilities: SUBSET Actions, permits: SUBSET Actions]

\* What the variables range over.
PlacesShape ==
  /\ session \in {"present", "removed", "released", "gone"}
  /\ live \subseteq Surfaces /\ live \subseteq opened /\ opened \subseteq Surfaces
  /\ retiring \in {"none", "authority", "observation"}

BridgeShape ==
  /\ executor \in Authorities /\ lineage \in Authorities
  /\ snapshot \in Actions \cup {NoAction}
  /\ envelopes \subseteq Actions /\ inflight \subseteq Actions /\ queue \subseteq Actions

ControlShape ==
  /\ planned \in [Actions -> Authorities]
  /\ pending \subseteq Actions /\ prepared \subseteq Actions /\ executing \subseteq Actions
  /\ record \in [Actions -> {"none", "pending_executor_completion",
                             "pending_fresh_reconciliation",
                             "durable_dispatch_authority_failed",
                             "durable_payload_authority_failed",
                             "reconciliation_required", "verified_expected",
                             "verified_unexpected"}]

JournalShape ==
  /\ stage \in [Actions -> Stages]
  /\ grant \in [Actions -> {"none", "prepared", "execution", "observation"}]

WorldShape ==
  /\ delivered \in [Actions -> Authorities \cup {PublicClient}]
  /\ acted \subseteq Actions
  /\ reported \in [Actions -> {"no", "sent", "settled"}]
  /\ captured \in [Actions -> Authorities \cup {PublicClient}]

Shape ==
  /\ PlacesShape /\ BridgeShape /\ ControlShape /\ JournalShape /\ WorldShape
  /\ gate \in GateType
  /\ request \in [Surfaces -> RequestType]
  /\ task \in [Actions -> {"idle", "scheduled", "observing", "captured",
                           "observed", "verified"}]

\* The three capacities the handlers keep.
WithinCapacity ==
  /\ Cardinality(queue) <= MaxQueue
  /\ Cardinality(pending) <= MaxPending
  /\ Cardinality(Records) <= MaxReconciliations

\* The shape of the state, within its capacities.
TypeOK == Shape /\ WithinCapacity

\* A surface is handed an action only after its prepared capability was
\* exchanged for a permit (arm_managed_consequential_actions_for_executor):
\* the journal says so and no unexchanged capability is left.  The session-wide
\* drain (take_actions) hands out what nobody armed.
DispatchNeedsPermit ==
  \A a \in Actions :
    delivered[a] \in Surfaces =>
      /\ grant[a] # "prepared"
      /\ stage[a] \notin {"none", "admitted", "authorized"}

\* What the status endpoint calls known_not_dispatched, because the durable
\* state is KnownNotDispatched, was handed to nobody.
KnownNotDispatchedIsTrue ==
  \A a \in Actions : stage[a] = "not_dispatched" => delivered[a] = 0

\* One confirmation, one delivery: what an executor has is nowhere on its way
\* to a second one, neither as plan, envelope, queue entry nor drained batch.
ConfirmationIsOneShot ==
  \A a \in Actions :
    delivered[a] # 0 =>
      /\ a \notin pending \cup envelopes \cup queue
      /\ gate.action # a
      /\ \A i \in Surfaces : a \notin request[i].batch \cup request[i].ready

\* A verdict rests on a snapshot of the surface the action was planned for,
\* although that surface may go, and its successor come, between the checks
\* around the snapshot (schedule_managed_consequential_reconciliation).
VerifiedOnPlannedSurface ==
  \A a \in Actions :
    stage[a] \in {"verified", "committed"} => captured[a] = planned[a]

\* The surface that is handed an action is the one it was planned for.
\* The code does not keep this (README.md, Where code and text disagree).
DeliveredToPlannedSurface ==
  \A a \in Actions : delivered[a] \in Surfaces => delivered[a] = planned[a]

\* From its observation on, nobody can still act for an action: evidence and
\* verdict are about a page the executor is done with.
EffectsPrecedeObservation ==
  [][\A a \in acted' \ acted :
       /\ task[a] = "idle" /\ grant[a] # "observation"
       /\ stage[a] \notin {"unverified", "verified", "committed"}]_vars

\* A confirmed action does not stay pending: its record reaches a terminal
\* status although payload checks and journal appends may fail.
ConfirmedSettles ==
  \A a \in Actions :
    record[a] \in PendingStatuses ~> record[a] \notin PendingStatuses

=============================================================================
