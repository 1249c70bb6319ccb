----------------------------- MODULE WindowsUia -----------------------------
(***************************************************************************)
(* Consequential actions on a native Windows window:                       *)
(*   crates/windows-uia-provider   the COM worker thread and its callbacks *)
(*   crates/windows-observe-runtime the runtime manager, one gated         *)
(*                                  operation at a time                    *)
(*   crates/control/windows_consequential.rs  plan and confirm             *)
(*   apps/daemon/consequential_recovery.rs    what a restart finds         *)
(*                                                                         *)
(* A cut is the revision of the semantic tree one snapshot took; the       *)
(* worker keeps the live elements of its latest cut only. The provider     *)
(* incarnation is drawn afresh by every daemon process, so winBoot stands  *)
(* for it. One session and one window are modelled.                        *)
(***************************************************************************)
EXTENDS BoundedQueues

CONSTANTS
  WinActions,        \* the consequential actions
  WinEventCapacity,  \* the bound of the provider's callback buffer
  WinDrainLimit,     \* the callbacks one drain takes
  WinPlanCapacity,   \* MAX_PENDING_WINDOWS_CONSEQUENTIAL_PLANS
  MaxWinEvents,      \* bound: callbacks of one subscription
  MaxWinCuts,        \* bound: snapshots taken
  MaxWinBoots        \* bound: daemon processes

\* The worker that runs no command is told apart from every action.
ASSUME WinConstants == "no_action" \notin WinActions

VARIABLES
  winBoot,       \* this daemon process, and its provider incarnation
  winSeq,        \* the latest sequence number of the callback buffer
  winBuffer,     \* the sequence numbers waiting in it
  winObs,        \* ActiveObservation: attached or not, its current snapshot
  winBridge,     \* the continuity state the live bridge keeps for the session
  winCuts,       \* snapshots taken so far
  winWorker,     \* the worker: its health, the cut it retains, its command
  winDetach,     \* a drain failed and the daemon is about to detach
  winPending,    \* plans whose confirmation is outstanding
  winStage,      \* how far the request of each action got
  winPlan,       \* the cut and the provider incarnation each action is bound to
  winJournal,    \* the durable recovery state of each action
  winScope,      \* the actions the journal held when this process opened it
  winDrained,    \* boot recovery completed this attachment lineage
  winLate,       \* calls an earlier process left running in the target
  winInvalid,    \* history: a callback was accepted after the current cut
  winHit,        \* history: the cut whose element each effect acted on
  winObserved    \* history: actions whose outcome was observed

winObservationVars == <<winSeq, winBuffer, winObs, winBridge, winDetach, winInvalid>>
winActionVars == <<winPending, winStage, winPlan, winJournal>>
winBootVars == <<winBoot, winScope, winDrained, winLate>>
winHistoryVars == <<winHit, winObserved>>
winVars == <<winObservationVars, winCuts, winWorker, winActionVars, winBootVars, winHistoryVars>>

NoWinAction == "no_action"
NoCut == 0
\* A worker that just started retains nothing; a session that is not attached.
FreshWorker == [health |-> "healthy", cut |-> NoCut, busy |-> NoWinAction]
Unattached == [active |-> FALSE, cut |-> NoCut, complete |-> FALSE]
Unbound == [bound |-> FALSE, continuity |-> "opaque", recon |-> "none", last |-> 0]

\* The stages of a confirmed request, and the durable states recovery observes.
WinPipeline == {"refreshed", "confirmed", "preflighted", "sealed", "prepared", "armed",
                "executing", "answered", "not_dispatched", "linearized", "observed"}
WinDebt == {"prepared", "possibly", "unverified"}
\* What the worker can be asked to do: a UIA pattern, a value, a key batch.
WinOperations == {"pattern", "set_value", "input"}

WinTypeOK ==
  /\ winBoot \in 1..MaxWinBoots
  /\ winSeq \in 0..MaxWinEvents
  /\ winBuffer \in Seq(1..MaxWinEvents) /\ Len(winBuffer) <= WinEventCapacity
  /\ winObs \in [active : BOOLEAN, cut : 0..MaxWinCuts, complete : BOOLEAN]
  /\ winBridge \in [bound : BOOLEAN, continuity : {"opaque", "gap"},
                    recon : {"none", "established", "incomplete"}, last : 0..MaxWinEvents]
  /\ winCuts \in 0..MaxWinCuts
  /\ winWorker \in [health : {"healthy", "poisoned"}, cut : 0..MaxWinCuts,
                    busy : WinActions \cup {NoWinAction}]
  /\ winPending \subseteq WinActions /\ Cardinality(winPending) <= WinPlanCapacity
  /\ winStage \in [WinActions -> WinPipeline \cup {"none", "planned", "failed", "done"}]
  /\ winPlan \in [WinActions -> [op : WinOperations, cut : 0..MaxWinCuts, seen : 0..MaxWinCuts,
                               provider : 0..MaxWinBoots]]
  /\ winJournal \in [WinActions -> WinDebt \cup {"none", "intent", "authorized",
                                                 "known_not", "verified", "committed"}]
  /\ winScope \subseteq WinActions /\ winLate \subseteq WinActions
  /\ {winDetach, winDrained, winInvalid} \subseteq BOOLEAN
  /\ winHit \in [WinActions -> Seq(0..MaxWinCuts)]
  /\ winObserved \subseteq WinActions

WinInit ==
  /\ winBoot = 1 /\ winSeq = 0 /\ winBuffer = <<>> /\ winCuts = 0
  /\ winObs = Unattached /\ winBridge = Unbound /\ winWorker = FreshWorker
  /\ winPending = {} /\ winScope = {} /\ winLate = {} /\ winObserved = {}
  /\ winStage = [a \in WinActions |-> "none"] /\ winJournal = [a \in WinActions |-> "none"]
  /\ winPlan = [a \in WinActions |-> [op |-> "pattern", cut |-> NoCut, seen |-> NoCut, provider |-> 0]]
  /\ winHit = [a \in WinActions |-> <<>>]
  /\ winDetach = FALSE /\ winDrained = FALSE /\ winInvalid = FALSE

-----------------------------------------------------------------------------
(* The worker thread.                                                      *)

\* A command is answered only by a healthy worker that runs no other.
WorkerReady == winWorker.health = "healthy" /\ winWorker.busy = NoWinAction

\* How observe_bounded_tree ends (Postconditions has its steps): the walk is
\* complete, or a budget of nodes, depth or time ran out and the snapshot
\* carries the debt.
WalkOutcomes == BOOLEAN
ReconOf(complete) == IF complete THEN "established" ELSE "incomplete"

\* worker snapshot: a new cut, whose elements replace the retained ones.
snapshot ==
  /\ WorkerReady /\ winCuts < MaxWinCuts
  /\ winCuts' = winCuts + 1
  /\ winWorker' = [winWorker EXCEPT !.cut = winCuts + 1]

\* Publishing the snapshot just taken: the bridge records the reconciliation,
\* then the manager replaces its current revision.
Published(complete) ==
  /\ winObs' = [active |-> TRUE, cut |-> winCuts + 1, complete |-> complete]
  /\ winInvalid' = FALSE

\* Mutant: the worker acts on whatever it retains.
element_by_identity(a) == TRUE

\* exact_retained_element: only an element of the cut the lease names.
exact_retained_element(a) == winWorker.cut = winPlan[a].cut

\* revalidate_dispatch_context: the element, its focus, the foreground and the
\* absence of a modal are looked at on the worker.
revalidate_dispatch_context(a) == WorkerReady /\ exact_retained_element(a)

\* fresh_retained_element_for_verification: the worker still retains the cut the
\* outcome was observed in.
fresh_retained_element_for_verification(a) == WorkerReady /\ winWorker.cut = winPlan[a].seen

\* query_virtualized_item, realize_virtualized_item: the container is an element
\* of the current cut.
realize_virtualized_item == WorkerReady /\ winWorker.cut = winObs.cut

\* The worker finishes the command of a; a caller that still waits hears of it.
Answered(a, answer, hit) ==
  /\ winWorker' = [winWorker EXCEPT !.busy = NoWinAction]
  /\ winStage' = [winStage EXCEPT ![a] = IF @ = "executing" THEN answer ELSE @]
  /\ winHit' = [winHit EXCEPT ![a] = @ \o hit]
  /\ UNCHANGED <<winObservationVars, winCuts, winPending, winPlan, winJournal, winBootVars,
                 winObserved>>

\* dispatch_pattern: the pattern of the exact retained element is invoked. An
\* error of the call itself may come after its effect.
dispatch_pattern(a) ==
  /\ winWorker.busy = a /\ winPlan[a].op = "pattern"
  /\ exact_retained_element(a)
  /\ \E answer \in {"answered", "failed"} : Answered(a, answer, <<winWorker.cut>>)

\* dispatch_set_value: the value of the exact retained element is replaced.
dispatch_set_value(a) ==
  /\ winWorker.busy = a /\ winPlan[a].op = "set_value"
  /\ exact_retained_element(a)
  /\ \E answer \in {"answered", "failed"} : Answered(a, answer, <<winWorker.cut>>)

\* dispatch_verified_input: the key batch is inserted, wholly or in part, while
\* the element has the focus; no key inserted is a known refusal.
dispatch_verified_input(a) ==
  /\ winWorker.busy = a /\ winPlan[a].op = "input"
  /\ exact_retained_element(a)
  /\ \/ Answered(a, "answered", <<winWorker.cut>>)
     \/ Answered(a, "not_dispatched", <<>>)

\* revalidate_dispatch_context, in front of every effect: another window has the
\* foreground, a modal blocks, the pattern or the element went: the worker errs
\* and the executor's permit is abandoned.
worker_refuses(a) ==
  /\ winWorker.busy = a
  /\ Answered(a, "failed", <<>>)

\* A command exceeds command_timeout: the worker is poisoned for good. The
\* command itself is not recalled. A waiting executor abandons its permit.
worker_times_out ==
  /\ winWorker.busy # NoWinAction /\ winWorker.health = "healthy"
  /\ winWorker' = [winWorker EXCEPT !.health = "poisoned"]
  /\ winStage' = [a \in WinActions |-> IF winStage[a] = "executing" THEN "failed" ELSE winStage[a]]
  /\ UNCHANGED <<winObservationVars, winCuts, winPending, winPlan, winJournal, winBootVars,
                 winHistoryVars>>

\* The target changes and UIA calls back: the oldest callback gives way when
\* the buffer is full, and its sequence number is missing from then on.
push_event ==
  /\ winObs.active /\ winSeq < MaxWinEvents
  /\ winSeq' = winSeq + 1
  /\ winBuffer' = Bounded(Append(winBuffer, winSeq + 1), WinEventCapacity)
  /\ UNCHANGED <<winObs, winBridge, winDetach, winInvalid, winCuts, winWorker, winActionVars,
                 winBootVars, winHistoryVars>>

-----------------------------------------------------------------------------
(* The runtime manager: every operation holds operation_gate.              *)

\* subscribe: the event worker opens an empty buffer; its baseline is where the
\* sequence numbers start.
subscribe == winSeq' = 0 /\ winBuffer' = <<>>

\* attach: subscribe, snapshot, bind, reconcile.
attach ==
  /\ ~winObs.active /\ ~winBridge.bound
  /\ snapshot
  /\ \E complete \in WalkOutcomes :
       /\ Published(complete)
       /\ winBridge' = [bound |-> TRUE, continuity |-> "opaque", recon |-> ReconOf(complete),
                        last |-> 0]
  /\ subscribe
  /\ winDetach' = FALSE /\ winDrained' = FALSE
  /\ UNCHANGED <<winActionVars, winBoot, winScope, winLate, winHistoryVars>>

\* Mutant: the failed attach forgets to release the bridge's binding.
attach_leaking_binding ==
  /\ ~winObs.active /\ ~winBridge.bound
  /\ snapshot
  /\ winBridge' = [Unbound EXCEPT !.bound = TRUE]
  /\ UNCHANGED <<winSeq, winBuffer, winObs, winDetach, winInvalid, winActionVars, winBootVars,
                 winHistoryVars>>

\* attach fails after its snapshot: the binding is released again. The worker
\* has replaced its retained elements all the same.
attach_failed ==
  /\ ~winObs.active /\ ~winBridge.bound
  /\ snapshot
  /\ winBridge' = Unbound
  /\ UNCHANGED <<winSeq, winBuffer, winObs, winDetach, winInvalid, winActionVars, winBootVars,
                 winHistoryVars>>

\* observe_sequence: a jump over a number is a gap, and a gap is never closed by
\* later contiguous numbers; it withdraws the reconciliation.
observe_sequence(bridge, sequence) ==
  IF sequence > bridge.last + 1
  THEN [bridge EXCEPT !.continuity = "gap", !.recon = "none", !.last = sequence]
  ELSE [bridge EXCEPT !.last = sequence]

\* ingest_provider, one callback: an accepted one withdraws the reconciliation
\* of an opaque stream.
ingest_event(bridge, sequence) ==
  LET seen == observe_sequence(bridge, sequence)
  IN  IF seen.continuity = "opaque" THEN [seen EXCEPT !.recon = "none"] ELSE seen

ingest_provider(bridge, taken) == FoldLeft(ingest_event, bridge, taken)

\* ingest_drain: the callbacks of this binding's incarnations, in order.
ingest_drain(taken) ==
  IF winBridge.bound THEN ingest_provider(winBridge, taken) ELSE winBridge

\* drain_once, after the drain: an accepted callback of an opaque stream, or a
\* debt that nothing reconciled, asks for a snapshot.
reconciliation_needed(taken, bridge) ==
  \/ taken # <<>> /\ bridge.continuity = "opaque"
  \/ bridge.continuity = "gap" /\ bridge.recon = "none"

\* drain_once, once a second: the callbacks are ingested; the snapshot succeeds,
\* or the governor denies it and the attachment stays as it is, or the provider
\* fails and the daemon's loop is about to detach.
drain_once ==
  /\ winObs.active /\ ~winDetach
  /\ LET n     == Least(WinDrainLimit, Len(winBuffer))
         taken == SubSeq(winBuffer, 1, n)
         seen  == ingest_drain(taken)
     IN  /\ winBuffer' = SubSeq(winBuffer, n + 1, Len(winBuffer))
         /\ \/ /\ ~reconciliation_needed(taken, seen)
               /\ taken # <<>>
               /\ winBridge' = seen /\ winInvalid' = TRUE
               /\ UNCHANGED <<winObs, winDetach, winCuts, winWorker>>
            \/ /\ reconciliation_needed(taken, seen)
               /\ snapshot
               /\ \E complete \in WalkOutcomes :
                    /\ Published(complete)
                    /\ winBridge' = [seen EXCEPT !.recon = ReconOf(complete)]
               /\ winDetach' = winDetach
            \/ /\ reconciliation_needed(taken, seen)
               /\ winBridge' = seen /\ winInvalid' = TRUE
               /\ winDetach' \in BOOLEAN
               /\ UNCHANGED <<winObs, winCuts, winWorker>>
  /\ UNCHANGED <<winSeq, winActionVars, winBootVars, winHistoryVars>>

\* detach_windows_observe, and the daemon's loop after a failed drain: the
\* attachment goes first, the confirmations of the session with it.
release ==
  /\ winObs.active
  /\ winObs' = Unattached /\ winBridge' = Unbound /\ winPending' = {}
  /\ winBuffer' = <<>> /\ winSeq' = 0 /\ winDetach' = FALSE /\ winInvalid' = FALSE
  /\ UNCHANGED <<winCuts, winWorker, winStage, winPlan, winJournal, winBootVars, winHistoryVars>>

\* realize_virtualized_item_and_refresh: the worker realizes the item and a
\* fresh cut replaces the current one.
realize_virtualized_item_and_refresh ==
  /\ winObs.active /\ winObs.complete
  /\ realize_virtualized_item
  /\ snapshot
  /\ \E complete \in WalkOutcomes :
       /\ Published(complete)
       /\ winBridge' = [winBridge EXCEPT !.recon = ReconOf(complete)]
  /\ UNCHANGED <<winSeq, winBuffer, winDetach, winActionVars, winBootVars, winHistoryVars>>

-----------------------------------------------------------------------------
(* Plan and confirm.                                                       *)

\* require_reconciled_continuity: only the debts of a broken stream must be
\* reconciled; an opaque stream is not among them.
require_reconciled_continuity ==
  winBridge.continuity = "gap" => winBridge.recon = "established"

\* read_semantic: the element belongs to the current, complete revision.
read_semantic(a) ==
  winObs.active /\ winObs.complete /\ winObs.cut = winPlan[a].cut

preflight_uia_action(a) == require_reconciled_continuity /\ read_semantic(a)

\* action_envelope_is_current: the bound incarnations are those of the envelope.
action_envelope_is_current(a) == winBridge.bound /\ winPlan[a].provider = winBoot

\* revalidate_uia_dispatch: preflight again, and the worker's lease.
revalidate_uia_dispatch(a) ==
  preflight_uia_action(a) /\ WorkerReady /\ exact_retained_element(a)

\* validate_uia_dispatch_authority: the envelope is current and its action has
\* not been authorized before.
validate_uia_dispatch_authority(a) == action_envelope_is_current(a) /\ winJournal[a] = "intent"

Step(a, from, to) == winStage[a] = from /\ winStage' = [winStage EXCEPT ![a] = to]
Durable(a, state) == winJournal' = [winJournal EXCEPT ![a] = state]

\* plan, first half: refresh_uia_action_evidence takes and publishes a cut of
\* its own and binds the element to it.
refresh_uia_action_evidence(a) ==
  /\ Cardinality(winPending) < WinPlanCapacity
  /\ winObs.active
  /\ snapshot
  /\ \E complete \in WalkOutcomes :
       /\ Published(complete)
       /\ winBridge' = [winBridge EXCEPT !.recon = ReconOf(complete)]
       /\ Step(a, "none", IF complete THEN "refreshed" ELSE "failed")
  /\ \E op \in WinOperations :
       winPlan' = [winPlan EXCEPT ![a] = [op |-> op, cut |-> winCuts + 1, seen |-> NoCut,
                                          provider |-> winBoot]]
  /\ UNCHANGED <<winSeq, winBuffer, winDetach, winPending, winJournal, winBootVars, winHistoryVars>>

\* observe_action_capabilities: the element of the snapshot offers the pattern,
\* does not, or the provider could not tell.
observe_action_capabilities == {"supported", "unsupported", "unknown"}

\* Preflight decides a plan: only a supported pattern is admitted.
Admit(a) ==
  \E support \in observe_action_capabilities :
    LET admitted == support = "supported" IN
    /\ Step(a, "refreshed", IF admitted THEN "planned" ELSE "failed")
    /\ preflight_uia_action(a)
    /\ winJournal' = [winJournal EXCEPT ![a] = IF admitted THEN "intent" ELSE @]
    /\ winPending' = IF admitted THEN winPending \cup {a} ELSE winPending
    /\ UNCHANGED <<winObservationVars, winCuts, winWorker, winPlan, winBootVars, winHistoryVars>>

\* plan_windows_consequential_set_value: the payload is prepared and staged in
\* this process; its binding is durable, its text is not.
plan_windows_consequential_set_value(a) ==
  winPlan[a].op = "set_value" /\ Admit(a)

\* plan, second half: preflight, the durable intent and operation, the pending
\* confirmation.
plan_windows_consequential_action(a) ==
  winPlan[a].op # "set_value" /\ Admit(a)

\* confirm, up to the consumption: the plan with this confirmation is pending,
\* the executor resolves, operation and payload agree. A refusal of the executor
\* leaves the confirmation unspent.
peek_pending_plan(a) == a \in winPending /\ winObs.active

\* confirm: the plan is consumed under plan_gate, which is then let go.
confirm_windows_consequential_action(a) ==
  /\ peek_pending_plan(a)
  /\ Step(a, "planned", "confirmed")
  /\ winPending' = winPending \ {a}
  /\ UNCHANGED <<winObservationVars, winCuts, winWorker, winPlan, winJournal, winBootVars,
                 winHistoryVars>>

\* execute_verified_canonical_uia_action: the confirmed preflight.
execute_verified_canonical_uia_action(a) ==
  /\ Step(a, "confirmed", "preflighted")
  /\ preflight_uia_action(a)
  /\ UNCHANGED <<winObservationVars, winCuts, winWorker, winPending, winPlan, winJournal,
                 winBootVars, winHistoryVars>>

\* seal_uia_dispatch: the same preflight once more, the worker's lease on the
\* element, the one-shot authorization, the dispatch context.
seal_uia_dispatch(a) ==
  /\ Step(a, "preflighted", "sealed")
  /\ revalidate_uia_dispatch(a)
  /\ validate_uia_dispatch_authority(a)
  /\ revalidate_dispatch_context(a)
  /\ Durable(a, "authorized")
  /\ UNCHANGED <<winObservationVars, winCuts, winWorker, winPending, winPlan, winBootVars,
                 winHistoryVars>>

\* prepare_uia_dispatch: PREPARED is durable before the envelope is looked at
\* again; one that went stale leaves PREPARED behind.
prepare_uia_dispatch(a) ==
  /\ Step(a, "sealed", IF action_envelope_is_current(a) THEN "prepared" ELSE "failed")
  /\ Durable(a, "prepared")
  /\ UNCHANGED <<winObservationVars, winCuts, winWorker, winPending, winPlan, winBootVars,
                 winHistoryVars>>

\* arm_uia_dispatch_execution: envelope, worker context, envelope, permit.
arm_uia_dispatch_execution(a) ==
  /\ Step(a, "prepared", "armed")
  /\ action_envelope_is_current(a) /\ winJournal[a] = "prepared"
  /\ winObs.active /\ revalidate_dispatch_context(a)
  /\ UNCHANGED <<winObservationVars, winCuts, winWorker, winPending, winPlan, winJournal,
                 winBootVars, winHistoryVars>>

\* Before the executor: the canonical envelope and the journal are looked at
\* again; then the command is the worker's.
HandToWorker(a, op) ==
  /\ winPlan[a].op = op
  /\ Step(a, "armed", "executing")
  /\ action_envelope_is_current(a) /\ winJournal[a] = "prepared"
  /\ WorkerReady
  /\ winWorker' = [winWorker EXCEPT !.busy = a]
  /\ UNCHANGED <<winObservationVars, winCuts, winPending, winPlan, winJournal, winBootVars,
                 winHistoryVars>>

execute_armed_uia_dispatch(a) == HandToWorker(a, "pattern")
execute_armed_uia_set_value_dispatch(a) == HandToWorker(a, "set_value")
execute_armed_uia_verified_input(a) == HandToWorker(a, "input")

\* A failed step, or a dropped request, ends the pipeline where it is: the
\* capability is gone, what is durable stays, and a command the worker holds
\* goes on.
request_fails(a) ==
  /\ winStage[a] \in WinPipeline
  /\ winStage' = [winStage EXCEPT ![a] = "failed"]
  /\ UNCHANGED <<winObservationVars, winCuts, winWorker, winPending, winPlan, winJournal,
                 winBootVars, winHistoryVars>>

\* execute_armed_uia_dispatch, after the executor: the receipt is linearized.
record_dispatch_linearized(a) ==
  /\ \/ Step(a, "answered", "linearized") /\ Durable(a, "possibly")
     \/ Step(a, "not_dispatched", "done") /\ Durable(a, "known_not")
  /\ UNCHANGED <<winObservationVars, winCuts, winWorker, winPending, winPlan, winBootVars,
                 winHistoryVars>>

\* capture_postcondition_observation_with_snapshot: the permit's incarnations
\* are those of the attachment.
capture_postcondition_observation(a) ==
  /\ Step(a, "linearized", "observed")
  /\ winObs.active /\ winPlan[a].provider = winBoot
  /\ snapshot
  /\ \E complete \in WalkOutcomes :
       /\ Published(complete)
       /\ winBridge' = [winBridge EXCEPT !.recon = ReconOf(complete)]
  /\ winPlan' = [winPlan EXCEPT ![a].seen = winCuts + 1]
  /\ winObserved' = winObserved \cup {a}
  /\ UNCHANGED <<winSeq, winBuffer, winDetach, winPending, winJournal, winBootVars, winHit>>

\* complete_uia_dispatch_verification, after the capture.
complete_uia_dispatch_verification(a) ==
  /\ Step(a, "observed", "done") /\ winPlan[a].op # "set_value"
  /\ \E state \in {"unverified", "verified", "committed"} : Durable(a, state)
  /\ UNCHANGED <<winObservationVars, winCuts, winWorker, winPending, winPlan, winBootVars,
                 winHistoryVars>>

\* execute_armed_uia_set_value_dispatch, after the capture: the worker compares
\* the value of the element in the observed cut, which it must still retain.
verify_set_value(a) ==
  /\ Step(a, "observed", "done") /\ winPlan[a].op = "set_value"
  /\ fresh_retained_element_for_verification(a)
  /\ \E state \in {"unverified", "verified", "committed"} : Durable(a, state)
  /\ UNCHANGED <<winObservationVars, winCuts, winWorker, winPending, winPlan, winBootVars,
                 winHistoryVars>>

-----------------------------------------------------------------------------
(* The daemon stops and starts again.                                      *)

\* Everything but the journal is gone. A call the worker had handed to the
\* target goes on there.
restart_daemon ==
  /\ winBoot < MaxWinBoots
  /\ winBoot' = winBoot + 1
  /\ winLate' = winLate \cup ({winWorker.busy} \ {NoWinAction})
  /\ winScope' = {a \in WinActions : winJournal[a] # "none"}
  /\ winObs' = Unattached /\ winBridge' = Unbound /\ winWorker' = FreshWorker
  /\ winSeq' = 0 /\ winBuffer' = <<>> /\ winPending' = {}
  /\ winDetach' = FALSE /\ winDrained' = FALSE /\ winInvalid' = FALSE
  /\ winStage' = [a \in WinActions |-> IF winStage[a] = "none" THEN "none" ELSE "failed"]
  /\ UNCHANGED <<winCuts, winPlan, winJournal, winHistoryVars>>

late_effect(a) ==
  /\ a \in winLate
  /\ winLate' = winLate \ {a}
  /\ winHit' = [winHit EXCEPT ![a] = Append(@, winPlan[a].cut)]
  /\ UNCHANGED <<winObservationVars, winCuts, winWorker, winActionVars, winBoot, winScope,
                 winDrained, winObserved>>

\* recovery_bindings_for_attachment: debt whose provider incarnation is exactly
\* the attached one.
recovery_bindings_for_attachment == {a \in winScope : winPlan[a].provider = winBoot}

\* plan_attached_consequential_recovery: the debts to observe; a value write
\* cannot be verified without its payload and is left to reconciliation.
ObservationRequired(mine) ==
  {a \in mine : winJournal[a] \in WinDebt /\ winPlan[a].op # "set_value"}

\* recover_consequential_uia_action: what an observation makes of a debt; a
\* verified action is only committed.
Recovered(a) ==
  CASE a \in ObservationRequired({a}) -> {"unverified", "committed"}
    [] winJournal[a] = "verified" -> {"committed"}
    [] OTHER -> {winJournal[a]}

\* recover_newly_attached_boot_debt: every matching debt is observed without an
\* executor; a completed lineage is not drained again.
recover_newly_attached_boot_debt ==
  /\ winObs.active /\ ~winDrained
  /\ LET mine == recovery_bindings_for_attachment
         debt == ObservationRequired(mine)
     IN  /\ \E outcome \in [mine -> UNION {Recovered(a) : a \in mine}] :
              /\ \A a \in mine : outcome[a] \in Recovered(a)
              /\ winJournal' = [a \in WinActions |-> IF a \in mine THEN outcome[a] ELSE winJournal[a]]
         /\ debt # {} => WorkerReady
         /\ winObserved' = winObserved \cup debt
  /\ winDrained' = TRUE
  /\ UNCHANGED <<winObservationVars, winCuts, winWorker, winPending, winStage, winPlan, winBoot,
                 winScope, winLate, winHit>>

WinActionStep(a) ==
  \/ dispatch_pattern(a) \/ dispatch_set_value(a) \/ dispatch_verified_input(a)
  \/ worker_refuses(a) \/ verify_set_value(a)
  \/ refresh_uia_action_evidence(a) \/ plan_windows_consequential_action(a)
  \/ confirm_windows_consequential_action(a) \/ execute_verified_canonical_uia_action(a)
  \/ seal_uia_dispatch(a) \/ prepare_uia_dispatch(a) \/ arm_uia_dispatch_execution(a)
  \/ plan_windows_consequential_set_value(a) \/ execute_armed_uia_set_value_dispatch(a)
  \/ execute_armed_uia_verified_input(a) \/ execute_armed_uia_dispatch(a) \/ request_fails(a) \/ record_dispatch_linearized(a)
  \/ capture_postcondition_observation(a) \/ complete_uia_dispatch_verification(a)
  \/ late_effect(a)

WinNext ==
  \/ \E a \in WinActions : WinActionStep(a)
  \/ worker_times_out \/ push_event
  \/ attach \/ attach_failed \/ drain_once \/ release \/ realize_virtualized_item_and_refresh
  \/ restart_daemon \/ recover_newly_attached_boot_debt

WinSpec == WinInit /\ [][WinNext]_winVars

-----------------------------------------------------------------------------
\* The bridge holds a continuity state exactly while the manager holds an
\* attachment: attach, its error paths and release keep the two maps, behind
\* two locks, in step. A binding left behind would refuse every later attach.
WinBindingsAgree == winBridge.bound <=> winObs.active

\* Whatever happens between plan and effect (drains, other plans, a detach and
\* a new attachment, a caller that left), the worker acts on an element of the
\* cut the user confirmed, at most once per action; and once the outcome of an
\* action was observed, by the confirm request or by the recovery of a later
\* process, no effect of it follows: neither a command the worker still held
\* when its caller gave up, nor a call an earlier process left in the target.
EffectsAreConfirmedAndFirst ==
  [][\A a \in WinActions : winHit'[a] # winHit[a] =>
        winHit[a] = <<>> /\ winHit'[a] = <<winPlan[a].cut>> /\ a \notin winObserved]_winVars

\* What action_preflight.rs says of cached evidence: a confirmed action passes
\* preflight only while no callback was accepted after its snapshot.
\* The code does not keep this (README.md, Where code and text disagree).
PreflightOnCurrentSnapshot ==
  [][\A a \in WinActions :
       winStage[a] = "confirmed" /\ winStage'[a] = "preflighted" => ~winInvalid]_winVars

\* What consequential_recovery.rs says of a new daemon process: once it has
\* completed recovery on the attachment, no debt of the boot scope is left
\* unobserved.
\* The code does not keep this (README.md, Where code and text disagree).
BootDebtIsReobserved ==
  winDrained => \A a \in winScope : a \in ObservationRequired(winScope) => a \in winObserved

=============================================================================
